---------------------------- MODULE MCDecompress ----------------------------
(***************************************************************************)
(* Packages for the decompressor: every kind of block alone and in a row,  *)
(* every length and many distances, all code lengths for small sets of     *)
(* symbols, every way to fail, and damage in every byte.                   *)
(***************************************************************************)
EXTENDS Decompress

F == INSTANCE Deflate

Zeros(n) == [i \in 1 .. n |-> 0]
Little(n) == <<n % 256, n \div 256, 0, 0>>

\* A gzip file with the optional parts that flg names, as RFC 1952 orders
\* them; id, method, time and system are what gzip writes.
Gzip(flg, deflate, crc, len) ==
  <<31, 139, 8, flg, 1, 2, 3, 4, 2, 3>>
    \o (IF Flag(flg, 4) THEN <<3, 0, 8, 0, 9>> ELSE <<>>)
    \o (IF Flag(flg, 8) THEN <<110, 0>> ELSE <<>>)
    \o (IF Flag(flg, 16) THEN <<99, 99, 0>> ELSE <<>>)
    \o (IF Flag(flg, 2) THEN <<0, 7>> ELSE <<>>)
    \o deflate \o crc \o len

CrcBytes(bytes) == F!WordBytes(F!CrcWord(bytes))

Marks(chunks) ==
  LET after[i \in 0 .. Len(chunks)] ==
        IF i = 0 THEN <<0, 0>>
        ELSE LET m == after[i - 1]
             IN  <<m[1] + Len(chunks[i].bits), m[2] + chunks[i].bytes>>
  IN  {after[i] : i \in 0 .. Len(chunks)}

\* crc and len are the gzip footer, behind is found between it and the data.
PackageOf(flg, blocks, behind, crc, len, verdict) ==
  LET chunks == F!Chunks(blocks)
      gz     == Gzip(flg, F!BytesOf(F!BitsOf(chunks)) \o behind, crc, len)
      packed == Gzip2Deflate(gz, CrcBytes(Deflated(gz)))
  IN  [bytes   |-> packed \o Zeros(4),
       size    |-> Len(packed),
       plain   |-> F!PlainOf(blocks),
       marks   |-> Marks(chunks),
       verdict |-> verdict]

Package(blocks) ==
  LET plain == F!PlainOf(blocks)
  IN  PackageOf(0, blocks, <<>>, CrcBytes(plain), Little(Len(plain)), <<"runs", 0>>)

-----------------------------------------------------------------------------
(* Intact packages                                                         *)

StoredBlock(data) == [kind |-> "stored", data |-> data]
Fixed(tokens) == [kind |-> "fixed", tokens |-> tokens]

\* All lengths for a set of symbols that make a complete code; one symbol
\* gets one bit.
CompleteCodes(symbols) ==
  IF symbols = {} THEN {<<>>}
  ELSE IF Cardinality(symbols) = 1 THEN [symbols -> {1}]
  ELSE {f \in [symbols -> 1 .. 4] : MapThenSumSet(LAMBDA s : 2^(4 - f[s]), symbols) = 16}

CopiesOf(tokens) == {i \in DOMAIN tokens : Len(tokens[i]) = 2}
LengthSymbols(tokens) ==
  {256} \cup {tokens[i][1] : i \in DOMAIN tokens \ CopiesOf(tokens)}
        \cup {F!LengthSymbolOf(tokens[i][1]) : i \in CopiesOf(tokens)}
DistanceSymbols(tokens) == {F!DistanceSymbolOf(tokens[i][2]) : i \in CopiesOf(tokens)}

\* A code for all code lengths.
AnyLength == [s \in 0 .. 18 |-> IF s < 13 THEN 4 ELSE 5]

Dynamic1(tokens, ll, dl) ==
  [kind |-> "dynamic", tokens |-> tokens, ll |-> ll, dl |-> dl, cl |-> AnyLength]
DynamicBlocks(tokens) ==
  {Dynamic1(tokens, ll, dl) : ll \in CompleteCodes(LengthSymbols(tokens)),
                              dl \in CompleteCodes(DistanceSymbols(tokens))}

\* Files of a single block, with literals of eight and nine bits and with
\* copies that overlap what they produce.
Tokens == {<<0>>, <<144>>, <<255>>, <<3, 1>>, <<10, 2>>}

IsFile(tokens) ==
  \A i \in CopiesOf(tokens) :
    tokens[i][2] <= Len(F!PlainOf(<<Fixed(SubSeq(tokens, 1, i - 1))>>))
Files == {t \in UNION {[1 .. n -> Tokens] : n \in 0 .. 3} : IsFile(t)}

\* Every length symbol, and the distances up to 256, with the lowest and the
\* highest value of their extra bits.
EndsOf(base, bits) == {base, base + 2^bits - 1}
Lengths ==
  UNION {EndsOf(F!LengthBase[s], F!LengthBits(s)) : s \in 257 .. 285}
Distances ==
  UNION {EndsOf(F!DistanceBase[d], F!DistanceBits(d)) : d \in 0 .. 15}

\* One block refers to the output of another.
Blocks == {
  StoredBlock(<<>>), StoredBlock(<<97, 98, 99>>),
  Fixed(<<<<97>>>>), Fixed(<<<<98>>, <<3, 1>>>>),
  Dynamic1(<<<<97>>, <<99>>, <<3, 2>>>>,
           [s \in {97, 99, 256, 257} |-> 2], [d \in {1} |-> 1]) }
Rows == UNION {[1 .. n -> Blocks] : n \in 2 .. 3}
  \cup {<<StoredBlock(<<97, 98, 99>>), Fixed(<<<<5, 3>>>>)>>}

IntactFiles ==
  Rows
  \cup {<<Fixed(t)>> : t \in Files}
  \cup {<<Fixed(<<<<97>>, <<len, 1>>>>)>> : len \in Lengths}
  \cup {<<Fixed(<<<<97>>, <<98>>, <<99>>, <<257, 3>>, <<4, d>>>>)>> : d \in Distances}
  \cup {<<Dynamic1(<<<<97>>, <<3, 1>>>>, (97 :> 2) @@ (256 :> 1) @@ (257 :> 2),
                   [d \in 0 .. 3 |-> 2])>>}   \* a repetition at the boundary
  \cup {<<b>> : b \in UNION {DynamicBlocks(t) : t \in {f \in Files : Len(f) < 3}}}

-----------------------------------------------------------------------------
(* Packages that are put together wrongly                                  *)

Bits1(bits) == <<[bits |-> bits, bytes |-> 0]>>
Raw(chunks) == [kind |-> "raw", chunks |-> chunks]
LastFixed   == <<1, 1, 0>>
LastDynamic == Bits1(<<1, 0, 1>>)

Two  == [s \in {97, 256} |-> 1]
Copy == [s \in {97, 98, 256, 257} |-> 2]
\* The description of a block's codes, without the end of the block.
Description(ll, dl) ==
  LET chunks == F!DynamicChunks(Dynamic1(<<>>, ll, dl))
  IN  LastDynamic \o SubSeq(chunks, 1, Len(chunks) - 1)
List(hlit, hdist, list) == LastDynamic \o F!DescriptionChunks(hlit, hdist, list, AnyLength)
Code(ll, s) == Bits1(F!CanonicalCode(ll)[s])

\* By the status of puff() that stops them (puff.c, lines 697 to 707).
Malformed ==
  {<<-1, Raw(Bits1(<<1, 1, 1>>))>>}
  \cup {<<-2, Raw(Bits1(<<1, 0, 0>>) \o Bits1([i \in 1 .. 5 |-> 1]
                          \o F!LsbFirst(1, 16) \o F!LsbFirst(n, 16) \o F!LsbFirst(97, 8)))>> :
          n \in {65535, 65534 - 256, 1}}
  \cup {<<-3, Raw(List(n[1], n[2], <<<<0, 0, 0>>>>))>> : n \in {<<30, 0>>, <<0, 30>>, <<31, 31>>}}
  \cup {<<-4, Raw(LastDynamic \o F!DescriptionChunks(0, 0, <<<<0, 0, 0>>>>, cl))>> :
          cl \in {[s \in {0} |-> 1], [s \in {0, 1, 18} |-> 1],
                  [s \in {0, 1, 18} |-> 2], [s \in 0 .. 18 |-> 7]}}
  \cup {<<-5, Raw(List(0, 0, <<<<16, 0, 2>>>>))>>}
  \cup {<<-6, Raw(List(0, 0, <<<<18, 127, 7>>, <<18, 107, 7>>, r>>))>> :
          r \in {<<16, 0, 2>>, <<17, 0, 3>>, <<18, 0, 7>>}}
  \cup {<<-7, Raw(Description(ll, [d \in {0} |-> 1]))>> :
          ll \in {[s \in {97, 98, 256} |-> 1], [s \in {97, 256} |-> 2], [s \in {97, 98, 256} |-> 2]}}
  \cup {<<-8, Raw(Description(Two, dl))>> :
          dl \in {[d \in {0, 1, 2} |-> 1], [d \in {0, 1} |-> 2], [d \in {0, 29} |-> 15]}}
  \cup {<<-9, Raw(Bits1(LastFixed) \o Bits1(F!FixedCode[s]))>> : s \in {286, 287}}
  \cup {<<-9, Raw(Bits1(LastFixed) \o Bits1(F!FixedCode[257] \o F!FixedDistance[d]))>> : d \in {30, 31}}
  \cup {<<-9, Raw(Description([s \in {256} |-> 1], <<>>) \o Bits1(<<1>>))>>,
        <<-9, Raw(Description(Copy, <<>>) \o Code(Copy, 257))>>,
        <<-9, Raw(Description(Copy, [d \in {0} |-> 1]) \o Bits1(F!CanonicalCode(Copy)[257] \o <<1>>))>>}
  \cup {<<-10, Raw(Bits1(LastFixed) \o Bits1(F!FixedCode[257] \o F!FixedDistance[d]))>> : d \in {1, 5, 29}}

\* The malformed block comes first, or behind others.
MalformedPackages ==
  {PackageOf(0, before \o <<m[2]>>, <<>>, Zeros(4), Little(0), <<"decompression status", m[1]>>) :
     m \in {n \in Malformed : n[1] # -2},
     before \in {<<>>, <<Dynamic1(<<<<97>>>>, Two, <<>>)>>}}
  \cup {PackageOf(0, <<m[2]>>, <<>>, Zeros(4), Little(0), <<"decompression status", m[1]>>) :
           m \in {n \in Malformed : n[1] = -2}}
  \cup {PackageOf(0, <<Fixed(<<<<97>>>>), Raw(Bits1(LastFixed) \o Bits1(F!FixedCode[257] \o F!FixedDistance[1]))>>,
                   <<>>, Zeros(4), Little(0), <<"decompression status", -10>>)}

Small == <<Fixed(<<<<97>>, <<0>>, <<4, 2>>>>)>>
SmallDynamic == <<Dynamic1(<<<<97>>, <<98>>, <<3, 1>>>>, Copy, [d \in {0} |-> 1])>>

\* The footer of another file, or data that the last block does not cover.
MismatchedPackages ==
  LET crc == CrcBytes(F!PlainOf(Small))
      len == Little(Len(F!PlainOf(Small)))
  IN  {PackageOf(0, Small, <<0>>, crc, len, <<"input length mismatch", 0>>),
       PackageOf(0, Small, <<>>, crc, Little(5), <<"output length mismatch", 0>>),
       PackageOf(0, Small, <<>>, CrcBytes(<<0>>), len, <<"output crc mismatch", 0>>)}

\* One bit flipped, one byte inverted, or two neighbours swapped.
DamagedPackages(package) ==
  LET Damaged(bytes) == [package EXCEPT !.bytes = bytes,
                                        !.verdict = <<"input crc mismatch", 0>>]
      b == package.bytes
      Flip(i, k) == IF (b[i] \div 2^k) % 2 = 1 THEN b[i] - 2^k ELSE b[i] + 2^k
  IN  {Damaged([b EXCEPT ![i] = Flip(i, k)]) : i \in 1 .. package.size, k \in 0 .. 7}
      \cup {Damaged([b EXCEPT ![i] = 255 - @]) : i \in 1 .. package.size}
      \cup {Damaged([b EXCEPT ![i] = b[i + 1], ![i + 1] = b[i]]) :
               i \in {j \in 1 .. package.size - 1 : b[j] # b[j + 1]}}

\* Every choice of optional parts of the gzip header.
GzipPackages ==
  LET plain == F!PlainOf(Small)
  IN  {PackageOf(flg, Small, <<>>, CrcBytes(plain), Little(Len(plain)), <<"runs", 0>>) :
         flg \in 0 .. 31}

TestPackages ==
  {Package(b) : b \in IntactFiles} \cup GzipPackages
  \cup MalformedPackages \cup MismatchedPackages
  \cup UNION {DamagedPackages(Package(b)) : b \in {Small, SmallDynamic}}

=============================================================================
