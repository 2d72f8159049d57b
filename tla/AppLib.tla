---------------------------------- MODULE AppLib ----------------------------------
(* The libraries an application calls: a buffer read with a cursor, numbers,    *)
(* paths and addresses converted from bytes and to text, paddings, texts cut,   *)
(* drawn and scrolled, and the helpers that derive a key, use it and wipe it.   *)
EXTENDS Rsa, Layouts, Legacy, QrCode, Drawing, Display, Exceptions, Pumps

CONSTANTS
    SizeWord,     \* a size_t is a number below SizeWord
    Inputs,       \* contents of a buffer
    Sizes,        \* lengths and offsets an application asks for
    Values,       \* numbers
    Decimals,     \* decimals of an amount
    Paths, Formats,
    Bytes58, Digits58,  \* sequences of bytes, of base 58 digits
    Commands, Configs,  \* APDUs, configurations of a coin
    Keys, Hashes,       \* moduli: [size, bits]; hashes of messages
    Messages, Seeds,    \* to encrypt; of random numbers
    Exponents, Primes,  \* of keys
    Tags,               \* names and versions of an application
    TlvLists,           \* of values: sequences of [tag, bytes, long]
    Texts, Scrolls,     \* to show; labels: [text, width, step, once]
    QrCalls,            \* of a QR code: [data, min, max, mask, room]
    Components, Labels, \* to draw: shapes, and boxes with a text
    IconIds, IconColors, Icons,  \* to draw: glyphs, bytes of their colours, bitmaps
    Points,             \* that are touched
    Blocks,             \* of code that throws and catches
    Events, Installed,  \* the MCU sends; TLV lists of installation
    Turners, Elapsed    \* times of the steps of a turner; time between two ticks

VARIABLES
    data, offset,  \* buffer_t
    from, got,     \* history: where the cursor was last set or left, what was taken since then
    call,          \* the last conversion: [fn, in, room, out]
    memory         \* what the last key helper leaves in memory

vars == <<data, offset, from, got, call, memory>>

NoCall == [fn |-> "none"]
Untouched == [helper |-> "none", error |-> FALSE, raw |-> "old", privkey |-> "old",
              context |-> "old", chain_code |-> "old", out |-> "old", length |-> "old"]
Skipped == -1

Init == /\ data \in Inputs
        /\ offset = 0 /\ from = 0 /\ got = << >>
        /\ call = NoCall /\ memory = Untouched

(*---------------------------------------------------------------------------*)
(* buffer.c                                                                   *)
Rest == SubSeq(data, offset + 1, Len(data))
CanRead(n) == Len(data) - offset >= n

\* mutant: the sum is not checked for overflow
SeekableAnySum(n) == (offset + n) % SizeWord <= Len(data)
Seekable(n) == (offset + n) % SizeWord \in offset .. Len(data)
SeekTo(n) == IF Seekable(n) THEN (offset + n) % SizeWord ELSE offset

Set(n) == /\ offset' = n /\ from' = n /\ got' = << >>
          /\ UNCHANGED <<data, call, memory>>
Take(n, bytes) == /\ offset' = SeekTo(n)
                  /\ got' = IF Seekable(n) THEN got \o bytes ELSE got
                  /\ UNCHANGED <<data, from, call, memory>>

SeekSet == \E n \in Sizes : n <= Len(data) /\ Set(n)
SeekEnd == \E n \in Sizes : n <= Len(data) /\ Set(Len(data) - n)
SeekCur == \E n \in Sizes : Take(n, Copies(n, Skipped))

ReadNumber == \E n \in {1, 2, 4, 8}, order \in {"BE", "LE"} :
    CanRead(n) /\ Take(n, Written(n, Number(SubSeq(Rest, 1, n), order), order))

ReadVarint == LET v == VarintRead(Rest) IN
    v.length > 0 /\ Take(v.length, IF v.length = 1 THEN <<v.value>>
                                   ELSE <<PrefixOf(v.length)>> \o Written(v.length - 1, v.value, "LE"))

ReadPath == \E n \in 1 .. MaxPath : LET r == PathRead(Rest, n) IN
    r.ok /\ Take(4 * n, FlattenSeq([i \in 1 .. n |-> Written(4, r.out[i], "BE")]))

\* buffer_move copies what is left and advances by the size of its destination: when there is
\* more room than bytes left it hands them out and stays where it is.
Move == \E n \in Sizes :
    /\ Len(data) - offset <= n
    /\ \/ Seekable(n) /\ Take(n, Rest)
       \/ /\ ~Seekable(n)
          /\ from' = offset /\ got' = Rest
          /\ UNCHANGED <<data, offset, call, memory>>

(*---------------------------------------------------------------------------*)
(* Conversions, asked for with a destination of `room` bytes.                 *)
Idle == data = << >> /\ call = NoCall /\ memory = Untouched
Called(fn, in, room, out) ==
    /\ Idle
    /\ call' = [fn |-> fn, in |-> in, room |-> room, out |-> out]
    /\ UNCHANGED <<data, offset, from, got, memory>>

CallVarint == \E v \in Values : Called("varint", v, 9, VarintWrite(v))
CallBase58 == \/ \E s \in Bytes58, n \in Sizes : Called("encode", s, n, Base58Encode(s, n))
              \/ \E s \in Digits58, n \in Sizes : Called("decode", s, n, Base58Decode(s, n))
CallParse == \/ \E s \in Commands : Called("apdu", s, 0, ApduParse(s))
             \/ \E s \in Configs, n \in Sizes : Called("swap_config", s, n, SwapConfig(s, n))
             \/ \E s \in Inputs : Called("swap_number", s, 0, SwapNumber(s))
             \/ \E name, version \in Tags, n \in Sizes :
                    n > 6 /\ Called("version", [name |-> name, version |-> version], n, AppNameAndVersion(name, version, 2, n))
CallNumber == \E v \in Values, n \in Sizes :
    \/ Called("u64", v, n, FormatU64(v, n))
    \/ \E sign \in {-1, 1} : Called("i64", sign * v, n, FormatI64(sign * v, n))
    \/ \E d \in Decimals : Called("fpu64", <<v, d>>, n, FormatFpu64(v, d, n))
    \/ \E d \in Decimals : Called("trimmed", <<v, d>>, n, FormatFpu64Trimmed(v, d, n))
CallText == \E n \in Sizes :
    \/ \E s \in Bytes58 : Called("hex", s, n, FormatHex(s, n))
    \/ \E p \in Paths : n > 0 /\ Called("path", p, n, PathFormat(p, n))
    \/ \E f \in Formats : Called("snprintf", f, n, Snprintf(n, f))

CallSign == \E key \in Keys, mode \in {"v1.5", "pss", "other"}, h \in DOMAIN HashLen, hash \in Hashes,
               m \in Messages, short \in {0, 1} :
    Called("sign", [key |-> key, mode |-> mode, h |-> h, hash |-> hash, salt |-> m], key.size - short,
           Sign(key, mode, h, hash, key.size - short, m))
CallEncrypt == \E key \in Keys, mode \in {"v1.5", "oaep", "none", "other"}, h \in DOMAIN HashLen,
                  m \in Messages, seed \in Seeds :
    Called("encrypt", [key |-> key, mode |-> mode, h |-> h, m |-> m], key.size,
           Encrypt(key, mode, h, m, key.size, seed, Random(seed + 1, key.size)))
CallKey == \E given \in BOOLEAN, e \in Exponents, size \in {k.size : k \in Keys} :
    /\ given \/ e = << >>
    /\ \/ Called("public_key", [given |-> given, e |-> e], size, InitPublicKey(given, e, size))
       \/ Called("private_key", [given |-> given], size, InitPrivateKey(given, size, size))
       \/ \E p, q \in Primes, old \in {Copies(4, 0), <<3, 0, 0, 2>>} :
            p # q /\ Called("pair", [given |-> given, e |-> e, p |-> p, q |-> q, old |-> old], size,
                            GeneratePair(size, given, e, p, q, old))

\* Values of a tag, their length on one byte or, if long, on two; the last bytes are missing.
TlvBytes(list) == FlattenSeq([k \in DOMAIN list |->
    <<list[k].tag>> \o (IF list[k].long THEN <<129>> ELSE << >>) \o <<Len(list[k].bytes)>> \o list[k].bytes])
CallTlv == \E list \in TlvLists, missing \in 0 .. 2, start \in {0, 3, 6}, tag \in {1, 2}, skip \in 0 .. 2,
              mode \in {"copy", "compare", "length"}, buffer \in {<<8>>, <<8, 9>>, <<9, 9>>, <<8, 9, 9>>} :
    LET bytes == TlvBytes(list) mem == SubSeq(bytes, 1, Len(bytes) - missing) IN
    Called("tlv", [list |-> list, size |-> Len(mem), start |-> start, tag |-> tag, skip |-> skip,
                   mode |-> mode, buffer |-> buffer], Len(buffer),
           ParseTlv(mem, start, tag, skip, mode, buffer, Len(buffer)))

CallPaging == \E text \in Texts, light, bold \in BOOLEAN, per \in {1, 3} :
    LET lines == CutLines(light, bold, text) pages == Pages(lines, per) IN
    Called("paging", [text |-> text, light |-> light, bold |-> bold], per,
           [p \in 1 .. pages |-> PageLines(lines, per, p - 1)])
CallDraw == \E text \in Texts, bold \in BOOLEAN, align \in {"left", "center", "right"}, width \in {Line, 2 * Line},
               height \in {CharHeight, 2 * CharHeight, 3 * CharHeight} :
    Called("draw", [text |-> text, bold |-> bold, align |-> align, width |-> width], height,
           DrawLabel(bold, align, width, height, text))
CallCrop == \E text \in Texts, bold \in BOOLEAN, limit \in {Line, 2 * Line} :
    /\ \A k \in DOMAIN text : InFont(text[k])
    /\ Called("crop", [text |-> text, bold |-> bold], limit, CroppedLength(bold, text, limit))

CallQr == \/ \E c \in QrCalls : Called("qr", c, c.room, QrEncode(c.data, c.min, c.max, c.mask, c.room))
          \/ \E v \in Versions : Called("qr_version", v, BufferFor(v), RawCodewords(v))

\* A layout the screen has, for a step at the start, the end or the middle of its flow; the
\* lists may have nothing above or below.
CallLayout == \E height \in Heights : \E layout \in LowLayouts \cup (IF height = 64 THEN HighLayouts ELSE {}) :
    \E first, last, above, below \in BOOLEAN : LET
        params == [k \in DOMAIN LayoutParams(layout) |->
            IF layout = "nnbnn" /\ ((k < 3 /\ ~above) \/ (k > 3 /\ ~below)) THEN "NULL" ELSE LayoutParams(layout)[k]]
        step == [first |-> first, last |-> last, params |-> params]
    IN Called("layout", [step |-> step, layout |-> layout], height, LayoutInit(layout, height, step))
CallPage == \E height \in Heights, first, last \in BOOLEAN, title \in {"NULL", "title"}, bold \in [1 .. 2 -> BOOLEAN] :
    \E pages \in 1 .. 3 : \E page \in 0 .. pages - 1, n \in 1 .. (IF height = 64 THEN 3 ELSE 1) :
    LET step == [first |-> first, last |-> last, page |-> page, pages |-> pages, title |-> title,
                 bold |-> bold, lines |-> ParamLines(n)]
    IN Called("page", step, height, PagingRedisplay(height, step))

Drawn == {[component |-> c, text |-> << >>] : c \in Components} \cup Labels
CallComponent == \E l \in Drawn :
    Called(IF l.text = << >> THEN "component" ELSE "label", l, 0, DrawComponent(l.component, l.text))
CallIcon == \E id \in IconIds, width \in {9, 10}, custom \in BOOLEAN, bytes \in IconColors :
    LET c == [ScreenBox(width, 16) EXCEPT !.x = 3, !.y = 2] IN
    Called("icon", [component |-> c, id |-> id, custom |-> custom, bytes |-> bytes], 0, DrawIcon(c, id, custom, bytes))
CallDisplay == \E type \in {"none", "icon", "label"}, id \in {0, 5}, text, raw, sent \in BOOLEAN, icon \in Icons :
    LET element == [type |-> type, id |-> id, text |-> text, length |-> icon.width, icon |-> icon] IN
    \/ Called("display", [element |-> element, raw |-> raw, sent |-> sent], SpiBuffer, DisplayDefault(element, raw, sent))
    \/ /\ type = "icon" /\ id = 0 /\ text
       /\ Called("display", [element |-> element, raw |-> raw, sent |-> sent], SpiBuffer, DisplayBitmap(icon, raw, sent))
CallBlock == \E block \in Blocks, restores \in BOOLEAN : Called("try", block, 0, RunBlock(block, restores))

CallMain == \E dashboard, copied \in BOOLEAN, id \in {1, 256}, restores \in BOOLEAN,
               command \in {"SIGN_TRANSACTION", "CHECK_ADDRESS", "GET_PRINTABLE_AMOUNT", "other"},
               failing \in {"none", "common_app_init", "app_main", "copy_parameters", "check_address", "printable_amount"} :
    LET args == [id |-> id, command |-> command, copied |-> copied]
    IN Called("main", [dashboard |-> dashboard, args |-> args, failing |-> failing], 0,
              RunBlock(Main(dashboard, args, failing), restores))
CallPump == \E events \in Events, answers \in BOOLEAN : LET s == PumpStart(events, answers) IN
    \/ \E list \in Installed : Called("review", [events |-> events, answers |-> answers, list |-> list], 0,
                                       CheckAuditedApp(TlvBytes(list), s))
    \/ Called("blocking", events, 0, OsUxBlocking(s))
    \/ \E flow, sent \in BOOLEAN :
           Called("assert", [flow |-> flow, sent |-> sent], 0, AssertDisplayExit(flow, [s EXCEPT !.sent = sent]))

\* What is on the screen goes on with time and with the buttons.  An application asks
\* for entries and steps there are, or for one out of the list.
GoesOn(fn, out) == /\ call.fn = fn
                   /\ call' = [call EXCEPT !.out = out]
                   /\ UNCHANGED <<data, offset, from, got, memory>>
AskedOf(n) == (0 .. n - 1) \cup {n + 1}
Scroll == \E in \in Scrolls : Called("scroll", in, in.width, [idx |-> 0, x |-> 0])
CallDuration == \E in \in Scrolls, average \in {7, 11}, pause \in {0, 5} :
    Called("duration", [label |-> in, average |-> average, pause |-> pause], in.width,
           RoundtripDuration(in.text, in.width, average, 10 * in.step, pause))
ScrollOn == GoesOn("scroll", Animate(call.in, call.out))
Menu == \E menu \in DOMAIN Menus : \E asked \in AskedOf(Len(Menus[menu])) :
    Called("menu", menu, 0, MenuDisplay(asked, menu, 0))
MenuPress == \E button \in {"left", "right", "both"} : GoesOn("menu", MenuButton(call.out, button))
MenuAgain == GoesOn("menu", MenuDisplay(Unchanged, call.out.menu, call.out.current))
Turner == \E steps \in Turners : \E asked \in AskedOf(Len(steps)) :
    Called("turner", steps, 0, TurnerDisplay(asked, steps, 0))
TurnerOn == \E ms \in Elapsed : GoesOn("turner", TurnerTicker(call.out, call.in, ms))
TurnerAgain == GoesOn("turner", TurnerDisplay(Unchanged, call.in, call.out.step))
Screens == Called("touch", 0, 0, NoTouch)
\* A status was already sent, or the element hit is not drawn, or the callbacks do what they want.
Reactions == {"shown", "refused", "drew", "drew, refused"}
Ways == {[sent |-> FALSE, agrees |-> TRUE, out |-> out, in |-> in] : out, in \in Reactions}
        \cup [sent : BOOLEAN, agrees : BOOLEAN, out : {"shown"}, in : {"shown"}]
Touched == call.fn = "touch" /\ \E screen \in DOMAIN TouchArrays, p \in Points, kind \in {"TOUCH", "RELEASE"}, way \in Ways :
    LET event == [screen |-> screen, x |-> p[1], y |-> p[2], kind |-> kind, sent |-> way.sent, out |-> way.out,
                  in |-> way.in, agrees |-> way.agrees]
    IN GoesOn("touch", TouchScreen(call.out, event))

(*---------------------------------------------------------------------------*)
(* crypto_helpers.c.  A system call that fails may have written some of its   *)
(* output; nothing runs after it but the end of the function (CX_CHECK).      *)
SystemCalls == {"parameters_length", "derive", "init_private_key", "generate_pair", "sign", "size",
                "hash_init", "hash_update", "hash_final"}
Checks == {"length # 32", "W_len # 65", "decode"}

Step(m, name, written, failing) ==
    IF m.error THEN m
    ELSE [c \in DOMAIN m |-> IF c \in written THEN "secret" ELSE IF c = "error" THEN name = failing ELSE m[c]]
Wipe(m, c) == [m EXCEPT ![c] = "zero"]
WipeOnError(m, c) == IF m.error THEN Wipe(m, c) ELSE m

InitPrivkey(m, failing) == LET
        checked == Step(Step(m, "parameters_length", {"length"}, failing), "length # 32", {}, failing)
        derived == Step(checked, "derive", {"raw", "chain_code"}, failing)
        done == Step(derived, "init_private_key", {"privkey"}, failing)
    IN WipeOnError(Wipe(done, "raw"), "privkey")

GetPubkey(m, failing) == LET
        pair == Step(InitPrivkey(m, failing), "generate_pair", {"privkey"}, failing)
        done == Step(Step(pair, "W_len # 65", {}, failing), "memmove", {"out"}, failing)
    IN WipeOnError(Wipe(done, "privkey"), "out")

\* mutant: the end of the function is not reached when the signature fails
SignHashLeaves(m, failing) ==
    LET signed == Step(InitPrivkey(m, failing), "sign", {"out"}, failing)
    IN IF signed.error THEN Wipe(signed, "out") ELSE Wipe(signed, "privkey")
SignHash(m, failing) ==
    WipeOnError(Wipe(Step(InitPrivkey(m, failing), "sign", {"out"}, failing), "privkey"), "out")

\* cx_ecdsa_sign_rs_no_throw: r and s are cleared before, and written when all is done.
SignRs(m, failing) ==
    LET signed == Step(Step(Wipe(m, "out"), "sign", {}, failing), "decode", {}, failing)
    IN Step(signed, "memcpy", {"out"}, failing)
SignHashRs(m, failing) ==
    LET keyed == InitPrivkey(m, failing)
    IN Wipe(IF keyed.error THEN keyed ELSE SignRs(keyed, failing), "privkey")

SignHashEddsa(m, failing) ==
    LET signed == Step(InitPrivkey(m, failing), "sign", {"out"}, failing)
    IN WipeOnError(Wipe(Step(signed, "size", {"length"}, failing), "privkey"), "out")

\* cx_hash_iovec.c: a hash of several pieces.  The digest is left as it is on an error.
HashIovec(m, failing) ==
    LET begun == Step(m, "hash_init", {"context"}, failing)
        hashed == Step(Step(begun, "hash_update", {"context"}, failing), "hash_final", {"context", "out"}, failing)
    IN Wipe(hashed, "context")

Helper(name, result) ==
    /\ Idle
    /\ memory' = [result EXCEPT !.helper = name]
    /\ UNCHANGED <<data, offset, from, got, call>>
UseKey == \E failing \in SystemCalls \cup Checks \cup {"none"} :
    \/ Helper("init_privkey", InitPrivkey(Untouched, failing))
    \/ Helper("get_pubkey", GetPubkey(Untouched, failing))
    \/ Helper("ecdsa_sign", SignHash(Untouched, failing))
    \/ Helper("ecdsa_sign_rs", SignHashRs(Untouched, failing))
    \/ Helper("hash_iovec", HashIovec(Untouched, failing))
    \/ Helper("eddsa_sign", SignHashEddsa(Untouched, failing))

Next == \/ SeekSet \/ SeekEnd \/ SeekCur \/ ReadNumber \/ ReadVarint \/ ReadPath \/ Move
        \/ Idle /\ (CallVarint \/ CallBase58 \/ CallParse \/ CallNumber \/ CallText)
        \/ Idle /\ (CallSign \/ CallEncrypt \/ CallKey \/ CallTlv \/ CallQr \/ CallPaging \/ CallDraw \/ CallCrop \/ CallLayout \/ CallPage)
        \/ Idle /\ (CallComponent \/ CallIcon \/ CallDisplay \/ CallBlock \/ CallMain \/ CallPump \/ CallDuration \/ Scroll \/ Menu \/ Turner \/ Screens)
        \/ Touched \/ ScrollOn \/ MenuPress \/ MenuAgain \/ TurnerOn \/ TurnerAgain
        \/ Idle /\ UseKey
Spec == Init /\ [][Next]_vars

(*---------------------------------------------------------------------------*)
(* Properties.                                                                *)
\* The cursor stays inside the buffer, and since it was last set every byte it has
\* passed was handed out or skipped on request, in order, whatever was asked for and
\* however large (buffer.c; lengths wrap as a size_t does).  Each is handed out once,
\* except that a move with more room than bytes left hands out all of them without
\* passing any, so that the reads after it start over (buffer.c:171).
ReadsInOrder == LET again == Len(got) - (offset - from) IN
    /\ offset \in from .. Len(data) /\ again \in {0, Len(data) - from}
    /\ \A k \in DOMAIN got : got[k] \in {Skipped, data[from + IF k <= again THEN k ELSE k - again]}

Altered(block, k) == [block EXCEPT !.of[k] = (@ + 1) % 256]
ValueOf(s, base) == FoldLeft(LAMBDA n, b : n * base + b, 0, s)

PowerMod(m, e, n) == LET
        power[k \in 0 .. e] == IF k = 0 THEN 1
                               ELSE (power[k \div 2] * power[k \div 2] * (IF k % 2 = 1 THEN m ELSE 1)) % n
    IN power[e]

\* A varint is read back from what varint_write wrote and from no less; base 58 text
\* has the value and the leading zeros of its bytes, and decoding undoes encoding
\* (of two characters at least, base58.c:50); a command and a coin configuration
\* that are accepted are those the bytes spell, and none is refused for lack of data
\* it has.  A signature verifies, of its own hash only and if nothing was altered, unless
\* a PSS mask is of 8 bits (cx_rsa.c:394); what was encrypted is decrypted.  A value found
\* in a TLV list is the first of its tag from the place given; if its end is missing
\* (os.c:205) it is compared as far as it goes, and its length may be told too long by
\* the offset, but never are bytes copied that are not its own.
\* The exponents of a pair made of two primes undo each other, the one asked for included
\* unless it is shorter than what was in the memory of the key (cx_rsa.c:252), and a
\* pair is refused only for want of an inverse.  The name and version of an application are
\* read back from its reply, if they leave room for its last seven bytes.
\* A QR code is read back, its version the lowest that holds the data, without an error in any block
\* and with the mask of the lowest penalty, and is refused only if no version asked for
\* holds the data or there is no room for the lowest that does.
\* A block that throws runs as it reads, and a throw after it goes where one before it would,
\* unless the block was left without a CLOSE_TRY (exceptions.h:139).  An application gives
\* control back as it was called, once, whatever in it throws (main.c:145), and runs what it was
\* asked for.  A loop that waits for the user never waits for an event no status asks for.
\* The screen of a failed assertion answers each event once, save the one in which the assertion
\* failed: the heartbeat answers that again if it was answered, be it by drawing the screen
\* (ledger_assert.c:133, os_io_seproxyhal.c:1556).  The screen of an application under review
\* goes only when it was whole and both buttons were released (checks.c:146).
RoundTrips == LET in == call.in room == call.room out == call.out IN
    CASE call.fn = "varint" ->
            /\ VarintRead(out) = [length |-> Len(out), value |-> in]
            /\ \A k \in 0 .. Len(out) - 1 : VarintRead(SubSeq(out, 1, k)).length = -1
      [] call.fn = "encode" -> out.ok =>
            /\ Len(out.out) <= room
            /\ ValueOf(out.out, 58) = ValueOf(in, 256)
            /\ LeadingZeros(out.out) = LeadingZeros(in)
            /\ Len(out.out) >= 2 => Base58Decode(out.out, Len(in)) = Accepted(in)
      [] call.fn = "decode" -> out.ok =>
            /\ Len(out.out) <= room
            /\ Len(out.out) <= MaxEncode => Base58Encode(out.out, Len(in)) = Accepted(in)
      [] call.fn = "apdu" ->
            /\ out.ok => in = out.out.header \o (IF Len(in) = 4 THEN << >> ELSE <<out.out.lc>>) \o out.out.data
            /\ out.ok => out.out.lc = Len(out.out.data)
            /\ ~out.ok => Len(in) < 4 \/ in[5] # Len(in) - 5
      [] call.fn = "swap_config" -> out.ok =>
            /\ Len(out.out.ticker) + 1 < room
            /\ IsPrefix(<<Len(out.out.ticker)>> \o out.out.ticker \o <<out.out.decimals>>, in)
      [] call.fn = "swap_number" -> out.ok => Written(Len(in), out.out, "BE") = in
      [] call.fn = "sign" -> LET
                verified(hash, sig) == Verify(in.key, in.mode, in.h, hash, sig, Len(in.salt))
                whole == in.mode = "pss" => in.key.bits % 8 # 1
            IN out.ok => /\ verified(in.hash, out.out) <=> whole
                         /\ \A hash \in Hashes \ {in.hash} : ~verified(hash, out.out)
                         /\ \A k \in 1 .. in.key.size : ~verified(in.hash, Altered(out.out, k))
      [] call.fn = "encrypt" -> LET
                back(block) == Decrypt(in.key, in.mode, in.h, block, room)
            IN out.ok /\ (in.mode = "oaep" => Label[in.h] # << >>) =>
                /\ back(out.out) = Accepted(IF in.mode = "none" THEN Copies(room - Len(in.m), 0) \o in.m ELSE in.m)
                /\ in.mode = "oaep" => \A k \in 1 .. room : back(Altered(out.out, k)) = Refused
      [] call.fn = "public_key" -> out.ok => out.out.known = in.given /\ Number(out.out.e, "BE") = Number(in.e, "BE")
      [] call.fn = "pair" -> LET
                n == in.p * in.q
                asked == Number(IF in.given THEN in.e ELSE DefaultE, "BE")
                undone(e) == \A m \in 0 .. n - 1 : PowerMod(PowerMod(m, e, n), out.out.d, n) = m
            IN IF out.ok THEN /\ out.out.n = n /\ undone(Number(out.out.e, "BE"))
                              /\ ~in.given \/ Len(in.e) = 4 \/ in.old = Copies(4, 0) => undone(asked)
               ELSE \/ Len(in.e) > 4 \/ room \notin KeySizes
                    \/ \E k \in 2 .. n : /\ ((in.p - 1) * (in.q - 1)) % k = 0
                                         /\ Number(ExponentOver(in.old, IF in.given THEN in.e ELSE DefaultE), "BE") % k = 0
      [] call.fn = "version" -> LET
                end == 2 + out[2]
                next == end + 1 + out[end + 1]
            IN Len(in.name) + Len(in.version) + 7 <= room =>
               /\ Len(out) <= room /\ Len(out) = next + 4
               /\ SubSeq(out, 3, end) = in.name /\ SubSeq(out, end + 2, next) = in.version
      [] call.fn = "tlv" -> LET
                at(k) == Len(TlvBytes(SubSeq(in.list, 1, k))) - Len(in.list[k].bytes)
                fits == {k \in DOMAIN in.list : in.list[k].tag = in.tag /\ at(k) >= in.start /\ at(k) < in.size}
                first == CHOOSE k \in fits : \A i \in fits : k <= i
                value == SubSeq(in.list[first].bytes, in.skip + 1, Len(in.list[first].bytes))
                there == in.size - at(first) - in.skip
            IN /\ fits = {} => out.ret = 0
               /\ fits # {} /\ there >= Len(value) => out.ret =
                    CASE in.mode = "copy" -> Len(out.out)
                      [] in.mode = "compare" -> IF in.skip <= Len(in.list[first].bytes) /\ value = in.buffer THEN 1 ELSE 0
                      [] in.mode = "length" -> Len(value)
               /\ fits # {} => /\ IsPrefix(out.out, value) /\ Len(out.out) <= room
                               /\ in.mode = "copy" /\ there >= Len(value) => Len(out.out) = Least(room, Len(value))
                               /\ in.mode = "compare" /\ out.ret = 1 => IsPrefix(SubSeq(value, 1, Least(there, Len(value))), in.buffer)
                               /\ in.mode = "length" => out.ret <= Least(Len(value), there + in.skip)
      [] call.fn = "qr" -> LET
                v == (out.size - 17) \div 4
                fits == {w \in in.min .. in.max : w \in DOMAIN Holds => Len(in.data) <= Holds[w]}
                remasked(m, n) == Masked(v, n, FormatDrawn(v, n, Masked(v, m, out.black)))
            IN IF out = QrFailed THEN fits = {} \/ BufferFor(Min(fits)) > room
               ELSE /\ v = Min(fits) /\ BufferFor(v) <= room
                    /\ \E m \in 0 .. 7 : /\ in.mask \in {m, AutoMask} /\ QrReads(out, v, m, in.data)
                                         /\ in.mask = AutoMask => \A n \in 0 .. 7 : Penalty(v, out.black) <= Penalty(v, remasked(m, n))
      [] call.fn = "qr_version" -> AllDrawn(in) /\ out < room
      [] call.fn = "try" -> LET meant == Meaning(in) IN
            /\ out.trace = meant.trace /\ out.thrown = meant.thrown /\ out.left = meant.left
            /\ out.top = 0 <=> ~meant.open
      [] call.fn = "main" -> LET
                last == IF in.dashboard \/ in.args.id # 256 THEN "app_exit" ELSE "os_lib_end"
                asked == CASE in.args.command = "CHECK_ADDRESS" -> {"check_address"}
                           [] in.args.command = "GET_PRINTABLE_AMOUNT" -> {"printable_amount"}
                           [] OTHER -> {}
            IN /\ out.thrown = 0 /\ out.top = 0
               /\ Last(out.trace) = last /\ Cardinality({k \in DOMAIN out.trace : out.trace[k] = last}) = 1
               /\ last = "os_lib_end" => asked = Range(out.trace) \cap {"check_address", "printable_amount"}
               /\ last = "os_lib_end" /\ "app_main" \in Range(out.trace) =>
                     in.args.command = "SIGN_TRANSACTION" /\ in.args.copied
      [] call.fn = "blocking" -> out.stuck = 0 /\ ~out.over
      [] call.fn = "assert" -> out.stuck = 0 /\ (out.again = IF in.flow \/ in.sent THEN 1 ELSE 0)
      [] call.fn = "review" -> LET
                asked == \E k \in DOMAIN in.list : /\ in.list[k].tag = ReviewTag /\ IsPrefix(<<ReviewVal>>, in.list[k].bytes)
                                                /\ \A i \in 1 .. k - 1 : in.list[i].tag # ReviewTag
                used == SubSeq(in.events, 1, Len(in.events) - Len(out.events))
            IN /\ ~asked <=> used = << >> /\ ~out.over
               /\ out.stuck = 0 /\ (out.again > 0 => in.answers)
               /\ asked /\ ~out.over => out.shown = ReviewElements /\ "both" \in Range(used)
      [] OTHER -> TRUE

DigitOf(char) == CHOOSE k \in 0 .. 15 : char \in {Hex[k + 1], HexCap[k + 1]}
Reading(text, base) == ValueOf([k \in DOMAIN text |-> DigitOf(text[k])], base)
Amount(text, decimals) ==
    LET dots == {k \in DOMAIN text : text[k] = "."}
        dot == IF dots = {} THEN Len(text) + 1 ELSE CHOOSE k \in dots : TRUE
        fraction == SubSeq(text, dot + 1, Len(text))
    IN Reading(SubSeq(text, 1, dot - 1), 10) * 10 ^ decimals
       + Reading(fraction, 10) * 10 ^ (decimals - Len(fraction))
Enough == 3 * PcBuf
PathText(path) == FlattenSeq([i \in DOMAIN path |-> Snprintf(Enough, Pieces(path, i))])

\* What an accepted conversion shows is the number, the bytes or the path it was given,
\* inside the room it was given, with these exceptions of the code: the NUL of a one
\* digit number is written after a destination of one byte (format_u64), an amount that
\* starts with a zero is cut, without NUL, by a room it does not quite fit in
\* (format_fpu64), and a path is cut in its last number (bip32_path_format).  snprintf
\* writes what the log shows as far as there is room, bytes of two digits whole, and a
\* number of a width up to PcBuf fits in pcBuf.
FormatExact == LET in == call.in room == call.room out == call.out IN
    CASE call.fn = "u64" -> out.ok =>
            /\ Len(out.out) <= room \/ (room = 1 /\ Len(out.out) = 2)
            /\ Reading(Front(out.out), 10) = in
      [] call.fn = "i64" ->
            LET text == Front(out.out) IN
            /\ out.ok => Len(out.out) <= room
            /\ out.ok => in = IF text[1] = "-" THEN -Reading(Tail(text), 10) ELSE Reading(text, 10)
            /\ ~out.ok => room <= 10
      [] call.fn = "fpu64" -> out.ok =>
            /\ Len(out.out) <= room
            /\ IF in[2] + 3 <= room THEN Amount(Text(out.out), in[2]) = in[1]
               ELSE IsPrefix(Text(out.out), Text(FormatFpu64(in[1], in[2], Enough).out))
      [] call.fn = "trimmed" -> (out.ok /\ in[2] + 3 <= room) =>
            Amount(out.out, in[2]) = in[1] /\ Last(out.out) # "."
      [] call.fn = "hex" -> out.ok =>
            /\ Len(out.out) = 2 * Len(in) + 1 /\ Len(out.out) <= room
            /\ \A k \in DOMAIN in : Reading(SubSeq(out.out, 2 * k - 1, 2 * k), 16) = in[k]
      [] call.fn = "path" ->
            LET text == Front(out.out) IN
            IF out.ok THEN \/ text = PathText(in)
                           \/ /\ Len(text) = room - 1 /\ IsPrefix(text, PathText(in))
                              /\ \A k \in Len(text) .. Len(PathText(in)) : PathText(in)[k] \in Range(Hex)
            ELSE Len(in) \notin 1 .. MaxPath \/ Len(PathText(in)) >= room
      [] call.fn = "snprintf" ->
            LET whole == Snprintf(Enough, in) IN
            /\ IsPrefix(out, whole) /\ Len(out) <= (IF room = 0 THEN 0 ELSE room - 1)
            /\ (\A k \in DOMAIN in : in[k].conv \notin {"*", "other"}) => whole = ScreenPrintf(in)
            /\ \A k \in DOMAIN in : LET d == in[k] text == Convert(d) IN d.conv \in {"d", "u", "x", "X"} =>
                 /\ d.width <= PcBuf => Len(text) <= PcBuf
                 /\ d.fill = "0" /\ text[1] # "-" =>
                      Reading(text, IF d.conv \in {"d", "u"} THEN 10 ELSE 16) = d.value
      [] OTHER -> TRUE

Printed(text) == SelectSeq(text, LAMBDA c : c \notin Newlines)
Dash == 45
Newlined(text, n) == Cardinality({k \in 1 .. n : text[k] \in Newlines})
\* The elements of a layout that are not the background, and what they show.
Content(shown) == SelectSeq(shown, LAMBDA e : e.id >= 15)
PartOf(e) == CASE e.type = "icon" -> "p" [] e.type = "line" /\ e.bold -> "b" [] OTHER -> "n"
Parts == [pb |-> <<"p", "b">>, pn |-> <<"p", "n">>, bb |-> <<"b", "b">>, bn |-> <<"b", "n">>, nn |-> <<"n", "n">>,
          pbb |-> <<"p", "b", "b">>, pbn |-> <<"p", "b", "n">>, pnn |-> <<"p", "n", "n">>,
          bnn |-> <<"b", "n", "n">>, nnn |-> <<"n", "n", "n">>, bnnn |-> <<"b", "n", "n", "n">>,
          nnnn |-> <<"n", "n", "n", "n">>, nnbnn |-> <<"n", "n", "b", "n", "n">>]
Shows(shown, id) == \E k \in DOMAIN shown : shown[k].id = id
\* The pixels of an element: a line of text is drawn on its base line.
Top(e) == IF e.type = "line" THEN e.y - Baseline ELSE e.y
Bottom(e) == IF e.type = "line" THEN Top(e) + CharHeight ELSE e.y + e.height
Outside(e, height) == e.x < 0 \/ e.x + e.width > ScreenWidth \/ Top(e) < 0 \/ Bottom(e) > height
\* What is on the screen is erased, and no element covers another one.
Uncluttered(shown, height) ==
    /\ shown[1] = Erase(height)
    /\ \A k \in 2 .. Len(shown) : \A i \in 2 .. k - 1 : LET a == shown[i] b == shown[k] IN
          a.x + a.width <= b.x \/ b.x + b.width <= a.x \/ Bottom(a) <= Top(b) \/ Bottom(b) <= Top(a)

\* The pixels a component fills, and the colour that is seen.
Covers(r, p) == p[1] \in r.x .. r.x + r.width - 1 /\ p[2] \in r.y .. r.y + r.height - 1
Painted(shape) == UNION {(r.x .. r.x + r.width - 1) \X (r.y .. r.y + r.height - 1) : r \in Range(shape)}
Seen(shape, p) == shape[Max({k \in DOMAIN shape : Covers(shape[k], p)})].color
BoxOf(c) == CASE c.type = "circle" -> LET size == 2 * c.radius + (IF InRing(c.radius, InnerRadius(c, c.radius)) THEN 1 ELSE 0) IN
                                      Rect("none", c.x, c.y, size, size)
              [] OTHER -> Rect("none", c.x, c.y, c.width, c.height)
\* A solid shape, or one with an outline of one pixel.
Neat(c) == c.stroke = IF c.filled THEN 0 ELSE 1
ShapeTrue(c, shape) == LET
        box == BoxOf(c)
        painted == Painted(shape)
        row(y) == {x \in box.x .. box.x + box.width - 1 : <<x, y>> \in painted}
        column(x) == {y \in box.y .. box.y + box.height - 1 : <<x, y>> \in painted}
    IN Neat(c) =>
        /\ \A p \in painted : Covers(box, p)
        /\ \A p \in painted : /\ <<2 * box.x + box.width - 1 - p[1], p[2]>> \in painted
                             /\ <<p[1], 2 * box.y + box.height - 1 - p[2]>> \in painted
        /\ \A y \in box.y .. box.y + box.height - 1 :
              row(y) # {} /\ row(y) = Min(row(y)) .. Max(row(y)) /\ Seen(shape, <<Min(row(y)), y>>) = "fg"
        /\ \A x \in box.x .. box.x + box.width - 1 :
              column(x) # {} /\ Seen(shape, <<x, Min(column(x))>>) = "fg" /\ Seen(shape, <<x, Max(column(x))>>) = "fg"

LabelTrue(c, text, out) == LET
        drawn == FlattenSeq([k \in DOMAIN out.pens |-> out.pens[k].drawn])
        chars == [k \in DOMAIN drawn |-> drawn[k].char]
        removed == Len(text) - (Len(chars) - Len(Dots))
        first == Len(out.pens[1].drawn)
        left == drawn[1].x - c.x
        right == c.x + c.width - (Last(drawn).x + WidthOf(c.bold, Last(drawn).char))
        short == Shortened(c, text)
        \* dots and a character on either side are too much for it
        narrow == short /\ (first = 0 \/ out.pens[3].drawn = << >>)
    IN ~narrow =>
       /\ short => LET last == Len(out.pens[3].drawn) IN
            /\ chars = SubSeq(text, 1, first) \o Dots \o SubSeq(text, Len(text) - last + 1, Len(text))
            /\ first - last \in -2 .. 0 /\ right >= 0
            /\ removed > 0 => EllipsisWidth(c.bold, c.width, text, removed - 1) > c.width
       /\ \A k \in DOMAIN drawn : drawn[k].x >= c.x /\ IF c.type = "labeline" \/ c.valign = "bottom"
            THEN k = 1 \/ short => drawn[k].y + Baseline = c.y + (IF c.type = "labeline" THEN 0 ELSE c.height)
            ELSE c.height >= 14 => drawn[k].y >= c.y /\ drawn[k].y + CharHeight <= c.y + c.height
       /\ right >= 0 /\ drawn[1].y = Last(drawn).y /\ ~out.pens[1].stopped =>
            CASE c.align = "left" -> left = 0
              [] c.align = "right" -> right = 0
              [] c.align = "center" -> left - right \in -1 .. 1

TouchTrue(touch) == LET
        event == touch.event
        hit == {<<event.screen, k>> : k \in {k \in DOMAIN TouchArrays[event.screen] : Hits(<<event.screen, k>>, event)}}
        calm == ~event.sent /\ event.agrees /\ event.in = "shown" /\ event.out = "shown"
        elsewhere == touch.last # Nothing /\ touch.last[1] # event.screen /\ hit = {}
    IN /\ touch.pressed \subseteq {touch.last}
       /\ event.kind # "none" => touch.statuses <= IF event.sent THEN 0 ELSE 1
       /\ touch.tapped # Nothing => touch.before \subseteq {touch.tapped}
       /\ event.kind = "TOUCH" /\ calm => elsewhere \/ touch.last \in hit \cup {Nothing}
       /\ event.kind = "RELEASE" /\ calm => elsewhere \/ touch.last = Nothing

\* The label when `ms` have passed, and if the end of its text was shown.
ScrolledFor(in, pause, ms) == LET
        at[k \in Nat] ==
            IF k = 0 THEN [idx |-> 0, x |-> 0, time |-> pause * 100, ended |-> FALSE]
            ELSE LET s == at[k - 1] next == Animate(in, s)
                     lasts == IF Phase(s.x) \in {AtEnd, AtStart} THEN pause * 100 ELSE 100 IN
                 IF s.time >= ms THEN s
                 ELSE [idx |-> next.idx, x |-> next.x, time |-> s.time + lasts,
                          ended |-> s.ended \/ LineWidth(FALSE, in.text) - Low(s.x) <= in.width]
    IN at[ms \div 50]

\* The pages of a text are the whole text in order, in lines that fit the screen, and a
\* word is cut only in a line that has no delimiter but its first character, so that the
\* next page goes on where the last one ended.  A line is drawn whole, unless it has a CR, or
\* is bold on a device with fonts, which measures it in the regular one
\* (ux_layout_paging.c:158).  What is drawn in a box is the start of the
\* text, inside the box but for the first line, which may be too high for it, and a character
\* too wide for an aligned line of its own; nothing is left out for lack of room while
\* there is some, and "-" hides the newline after it (bagl.c:302).  A layout shows what its
\* name says with the parameters of the step, on an erased screen, nothing over anything
\* else, and an arrow where a button leads; but on the low screen the lines beside an icon
\* go on under the arrow and out of the screen (ux_layout_pbb.c:52), and the outer
\* lines of a list are half out.  A scroll shows the character its box starts in, a step late
\* at most on its way back, has the end of the text in the box when it turns, and never comes
\* to its pause at the start: x goes below 0 (bagl.c:1182) unless the first character has
\* no width (a step is no longer than a character); in the time reckoned for it with characters
\* wide enough on average the end of its text is shown.  A menu shows an entry of its list, an
\* arrow where a button leads and a name only there, and a turner a step that has time left.
\* A shape that is solid, or has an outline of one pixel, stays in its box, is the same from
\* left and right and from above and below, has no gap in a row and is closed (wider strokes
\* leave the box and have holes, bagl.c:774).  A text shortened is its start, dots and its end,
\* the longest that fits, in a box that has room for one character on each side of the dots;
\* a text is on the line it is aligned on, in the box if its height is 14 or more.  An icon is
\* the last glyph of its name, in the middle of its box.  The packets of an icon announce what
\* is in them (on two bytes), fit the buffer when they are raw, and cover its bitmap once in
\* order, and nothing is sent after a status.  The element drawn as pressed is the one
\* remembered; an event sends a status at most, taps only what no other element is pressed
\* beside, and a finger that leaves or lifts releases the element, unless it is of another
\* screen, which is not the one touched (os_io_seproxyhal.c:596).
ScreenTrue == LET in == call.in room == call.room out == call.out IN
    CASE call.fn = "paging" -> LET
                lines == FlattenSeq(out)
                shown(l) == SubSeq(in.text, l.offset + 1, l.offset + l.length)
                drawn(l) == DrawLabel(in.bold, "center", Line, CharHeight, shown(l)).drawn
            IN /\ FlattenSeq([k \in DOMAIN lines |-> shown(lines[k])]) = in.text
               /\ \A k \in DOMAIN lines : LET text == shown(lines[k]) end == lines[k].offset + lines[k].length IN
                     /\ Measured(in.light, in.bold, text) <= Line
                     /\ end < Len(in.text) /\ Last(text) \notin Delims /\ in.text[end + 1] \notin Delims =>
                          \A i \in 2 .. Len(text) : text[i] \notin Delims
                     /\ (in.light \/ ~in.bold) /\ CR \notin Range(text) =>
                          [i \in DOMAIN drawn(lines[k]) |-> drawn(lines[k])[i].char] = Printed(text)
               /\ \A p \in DOMAIN out : Len(out[p]) = room \/ p = Len(out)
      [] call.fn = "crop" ->
            /\ LineWidth(in.bold, SubSeq(in.text, 1, out)) <= room
            /\ out < Len(in.text) => LineWidth(in.bold, SubSeq(in.text, 1, out + 1)) > room
      [] call.fn = "draw" -> LET
                drawn == out.drawn
                chars == Printed(in.text)
            IN /\ IsPrefix([k \in DOMAIN drawn |-> drawn[k].char], chars)
               /\ ~out.stopped => Len(drawn) = Len(chars)
               /\ out.stopped => out.y + CharHeight > room
               /\ \A k \in DOMAIN drawn :
                     /\ \/ drawn[k].x + WidthOf(in.bold, drawn[k].char) <= in.width
                        \/ drawn[k].x = Aligned(in.align, in.width, LineWidth(in.bold, in.text))
                     /\ drawn[k].y = 0 \/ drawn[k].y + CharHeight <= room
               /\ \A k \in DOMAIN in.text \ {1} :
                     in.text[k] = NL /\ in.text[k - 1] \notin {CR, Dash} /\ ~out.stopped =>
                        \A i, j \in DOMAIN drawn :
                            i <= k - 1 - Newlined(in.text, k - 1) /\ j > k - 1 - Newlined(in.text, k - 1)
                                => drawn[i].y < drawn[j].y
      [] call.fn = "layout" -> LET
                list == in.layout = "nnbnn"
                long == in.layout \in {"pbb", "pbn", "pnn"} /\ room = 32
                params == IF list /\ room = 32 THEN SubSeq(in.step.params, 2, 4) ELSE in.step.params
                parts == IF list /\ room = 32 THEN <<"n", "b", "n">> ELSE Parts[in.layout]
            IN /\ [k \in DOMAIN Content(out) |-> PartOf(Content(out)[k])] = parts
               /\ [k \in DOMAIN Content(out) |-> Content(out)[k].text] = params
               /\ Shows(out, 1) <=> IF list THEN in.step.params[2] # "NULL" ELSE ~in.step.first
               /\ Shows(out, 2) <=> IF list THEN in.step.params[4] # "NULL" ELSE ~in.step.last
               /\ Uncluttered(IF long THEN SelectSeq(out, LAMBDA e : e.id # 2) ELSE out, room)
               /\ \A k \in DOMAIN out : Outside(out[k], room) => long \/ (list /\ out[k].id # 18)
      [] call.fn = "page" -> LET content == Content(out) IN
            /\ content[1].text = PagingTitle(in) /\ content[1].bold = in.bold[1]
            /\ \A k \in 1 .. Len(content) - 1 : content[k + 1].text = IF k \in DOMAIN in.lines THEN in.lines[k] ELSE "none"
            /\ \A k \in DOMAIN in.lines : content[k + 1].bold = in.bold[2]
            /\ Shows(out, 1) <=> ~(in.first /\ in.page = 0)
            /\ Shows(out, 2) <=> ~(in.last /\ in.page = in.pages - 1)
            /\ Uncluttered(out, room) /\ \A k \in DOMAIN out : ~Outside(out[k], room)
      [] call.fn = "scroll" -> LET start == StartOf(in.text, out.idx) low == Low(out.x) IN
            /\ out.idx \in 0 .. Len(in.text)
            /\ Phase(out.x) \in {Left, AtEnd} => start <= low
            /\ Phase(out.x) = Right => start <= low + in.step
            /\ Phase(out.x) = AtEnd => LineWidth(FALSE, in.text) - low <= in.width
            /\ Phase(out.x) \in {AtStart, Stalled} => WidthOf(FALSE, in.text[1]) = 0
            /\ Phase(out.x) = Lost => start = 0
      [] call.fn = "duration" -> LET
                label == in.label
                last == ScrolledFor(label, in.pause, out)
            IN Len(label.text) * in.average >= LineWidth(FALSE, label.text) =>
               IF out = 0 THEN LineWidth(FALSE, label.text) <= label.width ELSE last.ended
      [] call.fn = "menu" -> LET
                shown == MenuShown(out)
                moves(button) == MenuButton(out, button).current # out.current
            IN /\ out.current < Count(out)
               /\ "up" \in shown <=> moves("left")
               /\ "down" \in shown <=> moves("right")
               /\ "previous" \in shown => moves("left") /\ Plain(Entry(MenuButton(out, "left")))
               /\ "next" \in shown => moves("right") /\ ~Entry(MenuButton(out, "right")).icon
               /\ shown \cap {"line", "line1", "line2"} \in {{"line"}, {"line1", "line2"}}
      [] call.fn = "component" -> ShapeTrue(in.component, out.shape)
      [] call.fn = "label" -> LabelTrue(in.component, in.text, out)
      [] call.fn = "icon" -> LET
                c == in.component
                glyphs == IF in.custom THEN CustomGlyphs ELSE DefaultGlyphs
                named == {k \in DOMAIN glyphs : glyphs[k].id = in.id}
            IN IF out = << >> THEN named = {} \/ (in.bytes # 0 /\ in.bytes # 4 * 2 ^ glyphs[Max(named)].bpp)
               ELSE LET b == out[1] glyph == glyphs[Max(named)] IN
                    /\ b.width = glyph.width /\ b.height = glyph.height /\ b.bits = glyph.bpp * b.width * b.height
                    /\ 2 * (b.x - c.x) + b.width - c.width \in -1 .. 1 /\ 2 * (b.y - c.y) + b.height - c.height \in -1 .. 1
      [] call.fn = "display" -> LET
                bitmap == in.element.type = "icon" /\ in.element.id = 0 /\ in.element.text
            IN /\ \A k \in DOMAIN out : /\ out[k].announced = (out[k].header + out[k].colors + out[k].len - 3) % 65536
                                       /\ bitmap /\ in.raw => out[k].header + out[k].colors + out[k].len <= room
                                       /\ out[k].from = IF k = 1 THEN 0 ELSE out[k - 1].from + out[k - 1].len
               /\ bitmap /\ out # << >> => Last(out).from + Last(out).len = BitmapLen(in.element.icon)
               /\ in.sent => out = << >> \/ (bitmap /\ in.raw)
      [] call.fn = "touch" -> TouchTrue(out)
      [] call.fn = "turner" -> out.step < Len(in) /\ out.left \in 1 .. in[out.step + 1]
      [] OTHER -> TRUE

\* However a helper ends, the raw key, the context of a hash and, once it was used, the
\* private key are no longer in memory, and an error leaves neither a private key nor a
\* public key or signature that a caller could use without looking: nothing, or for r and s
\* what was there if no key was derived (crypto_helpers.c:164).
SecretsWiped == LET keyed == memory.helper \notin {"none", "hash_iovec"} IN
    /\ keyed => /\ memory.raw = "zero"
                /\ memory.helper # "init_privkey" \/ memory.error => memory.privkey = "zero"
    /\ memory.helper = "hash_iovec" => memory.context = "zero"
    /\ memory.error /\ keyed /\ memory.helper # "init_privkey" =>
          memory.out = "zero" \/ (memory.helper = "ecdsa_sign_rs" /\ memory.out = "old")
    /\ memory.helper # "none" /\ ~memory.error =>
          memory.out = "secret" \/ (memory.helper = "init_privkey" /\ memory.privkey = "secret")
=================================================================================
