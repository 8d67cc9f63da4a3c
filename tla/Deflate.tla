------------------------------ MODULE Deflate ------------------------------
(***************************************************************************)
(* What the decompressor is given: the deflate format (RFC 1951), the gzip *)
(* file around it (RFC 1952) and the CRC they use, as gzip and the Perl    *)
(* module of gzip2deflate.pl write them.  None of this is the repository's *)
(* code; it is the reference that the decompressor is checked against, and *)
(* is written from the standards' wording, not from the decompressor.      *)
(*                                                                         *)
(* A token is <<byte>> or <<length, distance>>.  A block is a record with  *)
(* a kind: "stored" (data), "fixed" (tokens), "dynamic" (tokens, the code  *)
(* lengths ll, dl and cl as functions from the symbols that have a code)   *)
(* or "raw" (chunks).  A chunk is [bits |-> a sequence of bits,            *)
(* bytes |-> the bytes of output they stand for].                          *)
(***************************************************************************)
LOCAL INSTANCE Integers
LOCAL INSTANCE Sequences
LOCAL INSTANCE SequencesExt

\* n bits of a number, least and most significant first
LsbFirst(v, n) == [i \in 1 .. n |-> (v \div 2^(i - 1)) % 2]
MsbFirst(v, n) == [i \in 1 .. n |-> (v \div 2^(n - i)) % 2]

\* RFC 1951, 3.2.2: codes of a length are consecutive and follow all shorter
\* ones, so a code is the sum of the shares of those before it.
CanonicalCode(len) ==
  [s \in DOMAIN len |->
     MsbFirst(MapThenSumSet(LAMBDA t : 2^(len[s] - len[t]),
                {t \in DOMAIN len : \/ len[t] < len[s]
                                    \/ len[t] = len[s] /\ t < s}), len[s])]

\* RFC 1951, 3.2.6
FixedCode ==
  [s \in 0 .. 287 |->
     CASE s \in 0 .. 143   -> MsbFirst(48 + s, 8)
       [] s \in 144 .. 255 -> MsbFirst(400 + s - 144, 9)
       [] s \in 256 .. 279 -> MsbFirst(s - 256, 7)
       [] s \in 280 .. 287 -> MsbFirst(192 + s - 280, 8)]
FixedDistance == [d \in 0 .. 31 |-> MsbFirst(d, 5)]

\* RFC 1951, 3.2.5: lengths 3 to 257 and distances fall into consecutive
\* ranges, each twice as wide as the one four or two symbols before.
LengthBits(s) == IF s < 265 \/ s = 285 THEN 0 ELSE (s - 261) \div 4
DistanceBits(d) == IF d < 4 THEN 0 ELSE d \div 2 - 1

LengthBase ==
  LET base[s \in 257 .. 285] ==
        IF s = 257 THEN 3 ELSE base[s - 1] + 2^LengthBits(s - 1)
  IN  [s \in 257 .. 285 |-> IF s = 285 THEN 258 ELSE base[s]]
DistanceBase ==
  LET base[d \in 0 .. 29] ==
        IF d = 0 THEN 1 ELSE base[d - 1] + 2^DistanceBits(d - 1)
  IN  [d \in 0 .. 29 |-> base[d]]

LengthSymbolOf(len) ==
  CHOOSE s \in 257 .. 285 :
    /\ len \in LengthBase[s] .. LengthBase[s] + 2^LengthBits(s) - 1
    /\ (len = 258) = (s = 285)
DistanceSymbolOf(dist) ==
  CHOOSE d \in 0 .. 29 :
    dist \in DistanceBase[d] .. DistanceBase[d] + 2^DistanceBits(d) - 1

TokenBits(t, lcode, dcode) ==
  IF Len(t) = 1 THEN lcode[t[1]]
  ELSE LET s == LengthSymbolOf(t[1])
           d == DistanceSymbolOf(t[2])
       IN  lcode[s] \o LsbFirst(t[1] - LengthBase[s], LengthBits(s))
             \o dcode[d] \o LsbFirst(t[2] - DistanceBase[d], DistanceBits(d))

TokenChunks(tokens, lcode, dcode) ==
  [i \in 1 .. Len(tokens) |->
     [bits  |-> TokenBits(tokens[i], lcode, dcode),
      bytes |-> IF Len(tokens[i]) = 1 THEN 1 ELSE tokens[i][1]]]
    \o <<[bits |-> lcode[256], bytes |-> 0]>>

\* RFC 1951, 3.2.7: a list of code lengths with its repetitions shortened, as
\* <<symbol, extra value, extra bits>>.
RunLengths(list) ==
  LET n == Len(list)
      RunAt(i) == CHOOSE k \in 1 .. n - i + 1 :
                    /\ \A j \in i .. i + k - 1 : list[j] = list[i]
                    /\ i + k <= n => list[i + k] # list[i]
      AtMost(a, b) == IF a < b THEN a ELSE b
      rle[i \in 1 .. n + 1] ==
        IF i > n THEN <<>>
        ELSE LET run  == RunAt(i)
                 zero == list[i] = 0
             IN  CASE zero /\ run > 10 ->
                        LET k == AtMost(run, 138)
                        IN  <<<<18, k - 11, 7>>>> \o rle[i + k]
                   [] zero /\ run \in 3 .. 10 -> <<<<17, run - 3, 3>>>> \o rle[i + run]
                   [] ~zero /\ i > 1 /\ run > 2 /\ list[i - 1] = list[i] ->
                        LET k == AtMost(run, 6)
                        IN  <<<<16, k - 3, 2>>>> \o rle[i + k]
                   [] OTHER -> <<<<list[i], 0, 0>>>> \o rle[i + 1]
  IN  rle[1]

Order == <<16, 17, 18, 0, 8, 7, 9, 6, 10, 5, 11, 4, 12, 3, 13, 2, 14, 1, 15>>

\* The chunks that describe the codes of a dynamic block, from the lists of
\* code lengths as they are to be written.
DescriptionChunks(hlit, hdist, list, cl) ==
  LET ccode == CanonicalCode(cl)
  IN  <<[bits |-> LsbFirst(hlit, 5) \o LsbFirst(hdist, 5) \o LsbFirst(15, 4)
                    \o FlattenSeq([i \in 1 .. 19 |->
                         LsbFirst(IF Order[i] \in DOMAIN cl THEN cl[Order[i]]
                                  ELSE 0, 3)]),
         bytes |-> 0]>>
      \o [i \in 1 .. Len(list) |->
            [bits |-> ccode[list[i][1]] \o LsbFirst(list[i][2], list[i][3]),
             bytes |-> 0]]

DynamicChunks(b) ==
  LET Top(f, least) == IF DOMAIN f = {} THEN least
                       ELSE LET m == CHOOSE s \in DOMAIN f : \A t \in DOMAIN f : t <= s
                            IN  IF m < least THEN least ELSE m
      hlit  == Top(b.ll, 256)
      hdist == Top(b.dl, 0)
      All(f, top) == [i \in 1 .. top + 1 |-> IF i - 1 \in DOMAIN f THEN f[i - 1] ELSE 0]
  IN  DescriptionChunks(hlit - 256, hdist,
        RunLengths(All(b.ll, hlit) \o All(b.dl, hdist)), b.cl)
      \o TokenChunks(b.tokens, CanonicalCode(b.ll), CanonicalCode(b.dl))

\* The unused bits in front of stored data are ones.
StoredChunks(b, position) ==
  LET n == Len(b.data)
  IN  <<[bits |-> [i \in 1 .. (-(position + 3)) % 8 |-> 1]
                    \o LsbFirst(n, 16) \o LsbFirst(65535 - n, 16)
                    \o FlattenSeq([i \in 1 .. n |-> LsbFirst(b.data[i], 8)]),
         bytes |-> n]>>

BlockChunks(b, final, position) ==
  LET Header(type) == <<[bits  |-> <<IF final THEN 1 ELSE 0>> \o LsbFirst(type, 2),
                         bytes |-> 0]>>
  IN  CASE b.kind = "stored"  -> Header(0) \o StoredChunks(b, position)
        [] b.kind = "fixed"   -> Header(1) \o TokenChunks(b.tokens, FixedCode, FixedDistance)
        [] b.kind = "dynamic" -> Header(2) \o DynamicChunks(b)
        [] b.kind = "raw"     -> b.chunks

BitsOf(chunks) == FlattenSeq([i \in 1 .. Len(chunks) |-> chunks[i].bits])

\* The chunks of a file.
Chunks(blocks) ==
  LET chunks[k \in 0 .. Len(blocks)] ==
        IF k = 0 THEN <<>>
        ELSE LET before == chunks[k - 1]
             IN  before \o BlockChunks(blocks[k], k = Len(blocks), Len(BitsOf(before)))
  IN  chunks[Len(blocks)]

\* Bits packed into bytes, the unused ones of the last byte being ones.
BytesOf(bits) ==
  [i \in 1 .. (Len(bits) + 7) \div 8 |->
     MapThenSumSet(LAMBDA j : LET p == 8 * (i - 1) + j + 1
                              IN  IF p > Len(bits) THEN 2^j ELSE bits[p] * 2^j,
                   0 .. 7)]

\* What a file stands for.
PlainOf(blocks) ==
  LET Add(plain, t) ==
        IF Len(t) = 1 THEN plain \o t
        ELSE plain \o [i \in 1 .. t[1] |->
                         plain[Len(plain) - t[2] + 1 + ((i - 1) % t[2])]]
      AddBlock(plain, b) ==
        CASE b.kind = "stored" -> plain \o b.data
          [] b.kind = "raw"    -> plain
          [] OTHER             -> FoldLeft(Add, plain, b.tokens)
  IN  FoldLeft(AddBlock, <<>>, blocks)

-----------------------------------------------------------------------------
\* The CRC of RFC 1952, 8, as a division of polynomials: bit by bit, the
\* coefficients of the remainder from the highest down.
Polynomial == {32, 26, 23, 22, 16, 12, 11, 10, 8, 7, 5, 4, 2, 1, 0}

CrcWord(bytes) ==
  LET TimesX(r, bit) ==
        LET shifted == {p + 1 : p \in SymDiff(r, IF bit = 1 THEN {31} ELSE {})}
        IN  IF 32 \in shifted THEN SymDiff(shifted, Polynomial) ELSE shifted
      remainder[i \in 0 .. Len(bytes)] ==
        IF i = 0 THEN 0 .. 31
        ELSE CHOOSE s \in {FoldLeft(TimesX, r, LsbFirst(bytes[i], 8)) :
                             r \in {remainder[i - 1]}} : TRUE
  IN  {31 - p : p \in (0 .. 31) \ remainder[Len(bytes)]}

WordBytes(word) ==
  [i \in 1 .. 4 |-> MapThenSumSet(LAMBDA j : IF 8 * (i - 1) + j \in word THEN 2^j ELSE 0, 0 .. 7)]

=============================================================================
