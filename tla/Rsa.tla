----------------------------------- MODULE Rsa -----------------------------------
(* The paddings of PKCS#1 (cx_pkcs1.c) and the signatures and ciphertexts made  *)
(* with them (cx_rsa.c).  Bytes are 0 .. 255.  The hash functions, the random   *)
(* numbers and the exponentiation are external: a short hash that depends on    *)
(* every byte, numbers made of a seed, and a number that is only known to have  *)
(* been raised to the power of an exponent, until the other exponent undoes it. *)
EXTENDS Codec, Bitwise

CONSTANTS
    KeySizes,   \* the lengths of a modulus, in bytes
    DefaultE,   \* the exponent of a key when none is given
    HashLen,    \* the length of a hash, 0 for what is none: [hashes -> Nat]
    Oid, Label  \* prefix of a hash in PKCS#1 v1.5, hash of the empty label, both << >> if unknown

Xored(a, b) == [k \in DOMAIN a |-> a[k] ^^ b[k]]
Overwrite(s, offset, bytes) == SubSeq(s, 1, offset) \o bytes \o SubSeq(s, offset + Len(bytes) + 1, Len(s))

Hash(h, bytes) == LET n == FoldLeft(LAMBDA sum, b : ((sum + b) * 7919 + 7) % 65521, 1, bytes)
                  IN [k \in 1 .. HashLen[h] |-> (n \div 256 ^ (k - 1)) % 256]
Random(seed, n) == [k \in 1 .. n |-> (seed * k * k + 5 * k * (seed % 3)) % 256]

\* Hashes of the seed and a counter, as many as it takes.
Mgf1(h, seed, n) == SubSeq(FlattenSeq([i \in 1 .. n |-> Hash(h, seed \o <<0, 0, 0, i - 1>>)]), 1, n)
Maskable == {h \in DOMAIN HashLen : HashLen[h] > 0}

(*---------------------------------------------------------------------------*)
(* Signatures: PKCS#1 v1.5.                                                   *)
V15Encode(h, n, hash) == LET used == 3 + Len(Oid[h]) + Len(hash) IN
    IF used >= n THEN Refused
    ELSE Accepted(<<0, 1>> \o Copies(n - used, 255) \o <<0>> \o Oid[h] \o hash)

V15Verify(h, em, hash) == LET used == 3 + Len(Oid[h]) + Len(hash) psEnd == 2 + Len(em) - used IN
    /\ used < Len(em)
    /\ em[1] = 0 /\ em[2] = 1 /\ em[psEnd + 1] = 0
    /\ \A k \in 3 .. psEnd : em[k] = 255
    /\ SubSeq(em, psEnd + 2, Len(em)) = Oid[h] \o hash

\* PSS, of `bits` bits: a mask of 8 bits is 0, and the first byte is lost with it.
PssMask(spare) == IF spare = 0 THEN 0 ELSE 2 ^ (8 - spare) - 1
PssHashes == {h \in Maskable : Label[h] # << >>}
PssFits(h, emLen, saltLen) == h \in PssHashes /\ HashLen[h] + saltLen + 2 < emLen
MaskFirst(bytes, spare) == <<bytes[1] & PssMask(spare)>> \o Tail(bytes)

PssEncode(h, bits, hash, salt) == LET
        emLen == (bits + 7) \div 8
        dbLen == emLen - 1 - HashLen[h]
        psLen == emLen - (Len(salt) + HashLen[h] + 2)
        digest == Hash(h, Copies(8, 0) \o hash \o salt)
        db == Copies(psLen, 0) \o <<1>> \o salt
    IN IF ~PssFits(h, emLen, Len(salt)) THEN Refused
       ELSE Accepted(MaskFirst(Xored(db, Mgf1(h, digest, dbLen)), 8 * emLen - bits) \o digest \o <<188>>)

PssVerify(h, em, bits, hash, saltLen) == LET
        emLen == (bits + 7) \div 8
        spare == 8 * emLen - bits
        dbLen == emLen - 1 - HashLen[h]
        psLen == emLen - (saltLen + HashLen[h] + 2)
        digest == SubSeq(em, dbLen + 1, dbLen + HashLen[h])
        db == MaskFirst(Xored(SubSeq(em, 1, dbLen), Mgf1(h, digest, dbLen)), spare)
    IN /\ PssFits(h, emLen, saltLen)
       /\ em[emLen] = 188 /\ em[1] = em[1] & PssMask(spare)
       /\ SubSeq(db, 1, psLen) = Copies(psLen, 0) /\ db[psLen + 1] = 1
       /\ digest = Hash(h, Copies(8, 0) \o hash \o SubSeq(db, psLen + 2, dbLen))

(*---------------------------------------------------------------------------*)
(* Ciphertexts: PKCS#1 v1.5, padded with random bytes but 0, and OAEP.        *)
EmeEncode(n, m, seed) ==
    IF 3 + Len(m) >= n THEN Refused
    ELSE LET noise == Random(seed, n - 3 - Len(m))
         IN Accepted(<<0, 2>> \o [k \in DOMAIN noise |-> IF noise[k] = 0 THEN 36 ELSE noise[k]] \o <<0>> \o m)

EmeDecode(em, room) == LET ends == {k \in 3 .. Len(em) : em[k] = 0} IN
    IF em[1] # 0 \/ em[2] # 2 \/ ends = {} THEN Refused
    ELSE LET end == CHOOSE k \in ends : \A i \in ends : k <= i
         IN IF room < Len(em) - end THEN Refused ELSE Accepted(SubSeq(em, end + 1, Len(em)))

\* `old` is what was in the destination: a hash without a label leaves its end as it was.
OaepEncode(h, n, m, seed, old) == LET
        dbLen == n - HashLen[h] - 1
        psLen == n - (Len(m) + 2 * HashLen[h] + 2)
        db == Overwrite(SubSeq(old, 2 + HashLen[h], n), 0, Label[h] \o Copies(psLen, 0) \o <<1>> \o m)
        noise == Random(seed, HashLen[h])
        masked == Xored(db, Mgf1(h, noise, dbLen))
    IN IF h \notin Maskable \/ Len(m) + 2 * HashLen[h] + 2 >= n THEN Refused
       ELSE Accepted(<<0>> \o Xored(noise, Mgf1(h, masked, HashLen[h])) \o masked)

\* Of a hash with a label: that of another is compared with what is at address 0.
OaepDecode(h, em, room) == LET
        hLen == HashLen[h]
        masked == SubSeq(em, 2 + hLen, Len(em))
        noise == Xored(SubSeq(em, 2, 1 + hLen), Mgf1(h, masked, hLen))
        db == Xored(masked, Mgf1(h, noise, Len(masked)))
        ends == {k \in hLen + 1 .. Len(db) : db[k] # 0}
        end == CHOOSE k \in ends : \A i \in ends : k <= i
    IN IF hLen + 1 >= Len(em) \/ h \notin Maskable \/ em[1] # 0 \/ SubSeq(db, 1, hLen) # Label[h]
          \/ ends = {} \/ db[end] # 1 \/ room < Len(db) - end THEN Refused
       ELSE Accepted(SubSeq(db, end + 1, Len(db)))

(*---------------------------------------------------------------------------*)
(* Keys: size of the modulus in bytes, and its bits.                          *)
\* The switch on the size of a key, which also gives its context and its components.
ModulusValid(size) == size \in KeySizes
\* An exponent may be given; it is put at the end of four bytes.
ExponentOver(old, exponent) == SubSeq(old, 1, 4 - Len(exponent)) \o exponent
InitPublicKey(given, exponent, size) ==
    IF Len(exponent) > 4 \/ ~ModulusValid(size) THEN Refused
    ELSE Accepted([known |-> given, e |-> IF given THEN ExponentOver(Copies(4, 0), exponent) ELSE Copies(4, 0)])
InitPrivateKey(given, exponentLen, size) ==
    IF exponentLen # size \/ ~ModulusValid(size) THEN Refused ELSE Accepted([known |-> given])

\* From two primes; the bytes of the exponent that are not given are those in memory.
GeneratePair(size, given, exponent, p, q, old) == LET
        e == ExponentOver(old, IF given THEN exponent ELSE DefaultE)
        phi == (p - 1) * (q - 1)
        inverses == {d \in 1 .. phi : (Number(e, "BE") * d) % phi = 1}
    IN IF Len(exponent) > 4 \/ ~ModulusValid(size) \/ inverses = {} THEN Refused
       ELSE Accepted([n |-> p * q, e |-> e, d |-> CHOOSE d \in inverses : TRUE])

\* A number of `size` bytes, as it is (by = "none") or raised to the power of an exponent.
Block(size, bytes) == [by |-> "none", of |-> Copies(size - Len(bytes), 0) \o bytes]
Raised(block, exponent) ==
    CASE block.by = "none" -> [block EXCEPT !.by = exponent]
      [] block.by # exponent -> [block EXCEPT !.by = "none"]

Sign(key, mode, h, hash, room, salt) ==
    LET em == CASE mode = "v1.5" -> V15Encode(h, key.size, hash)
                [] mode = "pss" -> PssEncode(h, key.bits - 1, hash, salt)
                [] OTHER -> Refused
    IN IF Len(hash) > key.size \/ room < key.size \/ key.size \notin KeySizes \/ ~em.ok THEN Refused
       ELSE Accepted(Raised(Block(key.size, em.out), "d"))

Verify(key, mode, h, hash, sig, saltLen) ==
    LET em == Raised(sig, "e").of IN
    /\ Len(hash) <= key.size /\ Len(em) = key.size /\ key.size \in KeySizes
    /\ \/ mode = "v1.5" /\ V15Verify(h, em, hash)
       \/ mode = "pss" /\ PssVerify(h, em, key.bits - 1, hash, saltLen)

Encrypt(key, mode, h, m, room, seed, old) ==
    LET em == CASE mode = "v1.5" -> EmeEncode(key.size, m, seed)
                [] mode = "oaep" -> OaepEncode(h, key.size, m, seed, old)
                [] mode = "none" -> Accepted(m)
                [] OTHER -> Refused
    IN IF Len(m) > key.size \/ room < key.size \/ key.size \notin KeySizes \/ ~em.ok THEN Refused
       ELSE Accepted(Raised(Block(key.size, em.out), "e"))

\* A padding of v1.5 that is wrong is told by the length only, which is -1.
Decrypt(key, mode, h, block, room) ==
    LET em == Raised(block, "d").of IN
    IF Len(em) # key.size \/ room < key.size \/ key.size \notin KeySizes THEN Refused
    ELSE CASE mode = "v1.5" -> LET r == EmeDecode(em, room)
                               IN IF r.ok THEN r ELSE Accepted([length |-> -1])
           [] mode = "oaep" -> OaepDecode(h, em, room)
           [] mode = "none" -> Accepted(em)
           [] OTHER -> Refused
=================================================================================
