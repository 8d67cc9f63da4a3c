------------------------------ MODULE Inflate ------------------------------
(***************************************************************************)
(* puff() of the image decompressor (compress/puff.c): turns deflate data  *)
(* back into an image, one block header, code length or symbol per step.   *)
(*                                                                         *)
(* Arrays of the code are sequences here, so that element i of the code is *)
(* element i + 1 of the model.  The constants are those of the format.     *)
(***************************************************************************)
EXTENDS Integers, Sequences, FiniteSets, TLC

MAXBITS   == 15
MAXLCODES == 286
MAXDCODES == 30
FIXLCODES == 288

VARIABLES
  source,   (* source.bytes is the memory behind the source pointer        *)
  out,      (* the output so far; outcnt is its length                     *)
  incnt, bitbuf, bitcnt,  (* the bit reader                                *)
  last,     (* this is the last block                                      *)
  at,       (* what is read next; "done" and "failed" when puff() returned *)
  nlen, ndist, lengths,   (* of a dynamic block: the code lengths so far   *)
  lencode, distcode,      (* the codes in use                              *)
  err       (* what puff() returns                                         *)

reader     == <<incnt, bitbuf, bitcnt>>
tables     == <<nlen, ndist, lengths, lencode, distcode>>
inflateVars == <<source, out, reader, last, at, tables, err>>

in == source.bytes

-----------------------------------------------------------------------------
(* The bit reader.  Offsets count the bits not yet consumed.               *)

Unread(i) ==
  IF i < bitcnt
    THEN (bitbuf \div 2^i) % 2
    ELSE LET j == i - bitcnt
         IN  (in[incnt + 1 + j \div 8] \div 2^(j % 8)) % 2

\* The number in the need bits from offset i on.
Bits(i, need) ==
  LET val[n \in 0 .. need] ==
        IF n = 0 THEN 0 ELSE val[n - 1] + 2^(n - 1) * Unread(i + n - 1)
  IN  val[need]

\* Mutant: bytes are fetched one bit too early.
ConsumeAhead(n) ==
  LET loaded == IF n <= bitcnt THEN 0 ELSE (n - bitcnt + 8) \div 8
      left   == bitcnt + 8 * loaded - n
  IN  /\ incnt' = incnt + loaded
      /\ bitcnt' = left
      /\ bitbuf' = Bits(n, left)

\* n bits are consumed, by one or several calls of bits().
Consume(n) ==
  LET loaded == IF n <= bitcnt THEN 0 ELSE (n - bitcnt + 7) \div 8
      left   == bitcnt + 8 * loaded - n
  IN  /\ incnt' = incnt + loaded
      /\ bitcnt' = left
      /\ bitbuf' = Bits(n, left)

-----------------------------------------------------------------------------
(* Huffman codes.  length[s + 1] is the code length of symbol s.           *)

Construct(length) ==
  LET count == [len \in 0 .. MAXBITS |->
                  Cardinality({s \in DOMAIN length : length[s] = len})]
      left[len \in 0 .. MAXBITS] ==
        IF len = 0 THEN 1 ELSE 2 * left[len - 1] - count[len]
      Before(s, t) == \/ length[s + 1] < length[t + 1]
                      \/ length[s + 1] = length[t + 1] /\ s < t
      sorted == SortSeq([i \in DOMAIN length |-> i - 1], Before)
  IN  [count  |-> count,
       symbol |-> SubSeq(sorted, count[0] + 1, Len(length)),
       left   |-> IF count[0] = Len(length) THEN 0 ELSE left[MAXBITS]]

\* The symbol of the code at offset i, and the offset behind it.
Decode(h, i) ==
  LET code[len \in 0 .. MAXBITS] ==
        IF len = 0 THEN 0 ELSE 2 * code[len - 1] + Unread(i + len - 1)
      first[len \in 1 .. MAXBITS] ==
        IF len = 1 THEN 0 ELSE 2 * (first[len - 1] + h.count[len - 1])
      index[len \in 1 .. MAXBITS] ==
        IF len = 1 THEN 0 ELSE index[len - 1] + h.count[len - 1]
      Found(len) == code[len] < first[len] + h.count[len]
      len == CHOOSE k \in 1 .. MAXBITS :
               Found(k) /\ \A l \in 1 .. k - 1 : ~Found(l)
  IN  IF \A k \in 1 .. MAXBITS : ~Found(k)
        THEN [symbol |-> -9, next |-> i + MAXBITS]
        ELSE [symbol |-> h.symbol[index[len] + code[len] - first[len] + 1],
              next   |-> i + len]

FixedLencode ==
  Construct([s \in 1 .. FIXLCODES |-> CASE s <= 144 -> 8
                                        [] s \in 145 .. 256 -> 9
                                        [] s \in 257 .. 280 -> 7
                                        [] s > 280 -> 8])

FixedDistcode == Construct([s \in 1 .. MAXDCODES |-> 5])

-----------------------------------------------------------------------------
(* Blocks.                                                                 *)

Fail(e, n) ==
  /\ err' = e
  /\ at' = "failed"
  /\ Consume(n)
  /\ UNCHANGED <<source, out, last, tables>>

EndBlock == at' = IF last THEN "done" ELSE "header"

BlockHeader ==
  LET type == Bits(1, 2)
  IN  /\ at = "header"
      /\ last' = (Bits(0, 1) = 1)
      /\ Consume(3)
      /\ at' = <<"stored", "codes", "dynamic", "failed">>[type + 1]
      /\ err' = IF type = 3 THEN -1 ELSE 0
      /\ IF type = 1
           THEN lencode' = FixedLencode /\ distcode' = FixedDistcode
           ELSE UNCHANGED <<lencode, distcode>>
      /\ UNCHANGED <<source, out, nlen, ndist, lengths>>

\* stored(): from the next byte boundary on, the length, its complement and
\* as many bytes.
Stored ==
  LET len == in[incnt + 1] + 256 * in[incnt + 2]
      complemented == /\ in[incnt + 3] = 255 - in[incnt + 1]
                      /\ in[incnt + 4] = 255 - in[incnt + 2]
  IN  /\ at = "stored"
      /\ \/ ~complemented /\ Fail(-2, bitcnt)
         \/ /\ complemented
            /\ out' = out \o SubSeq(in, incnt + 5, incnt + 4 + len)
            /\ incnt' = incnt + 4 + len
            /\ bitbuf' = 0 /\ bitcnt' = 0
            /\ EndBlock
            /\ UNCHANGED <<source, last, tables, err>>

order == <<16, 17, 18, 0, 8, 7, 9, 6, 10, 5, 11, 4, 12, 3, 13, 2, 14, 1, 15>>

\* dynamic(), up to the code that the code lengths are written in.
Dynamic ==
  LET n == Bits(0, 5) + 257
      d == Bits(5, 5) + 1
      ncode == Bits(10, 4) + 4
      position(s) == CHOOSE i \in 1 .. 19 : order[i] = s
      h == Construct([s \in 1 .. 19 |->
             LET i == position(s - 1)
             IN  IF i <= ncode THEN Bits(14 + 3 * (i - 1), 3) ELSE 0])
  IN  /\ at = "dynamic"
      /\ IF n > MAXLCODES \/ d > MAXDCODES THEN Fail(-3, 14)
         ELSE IF h.left # 0 THEN Fail(-4, 14 + 3 * ncode)
         ELSE /\ nlen' = n /\ ndist' = d /\ lengths' = <<>>
              /\ lencode' = h
              /\ Consume(14 + 3 * ncode)
              /\ at' = "lengths"
              /\ UNCHANGED <<source, out, last, distcode, err>>

AddLengths(run, n) ==
  /\ lengths' = lengths \o run
  /\ Consume(n)
  /\ UNCHANGED <<source, out, last, at, nlen, ndist, lencode, distcode, err>>

\* Mutant: a repeat instruction at the boundary between the two sets of
\* lengths starts from a zero length.
LastLengthOfItsSet ==
  IF Len(lengths) = nlen THEN 0 ELSE lengths[Len(lengths)]

LastLength == lengths[Len(lengths)]

\* One symbol of the list of code lengths: a length or a repeat instruction.
LengthSymbol ==
  LET sym == Decode(lencode, 0)
      s   == sym.symbol
      extra == CASE s = 16 -> 2 [] s = 17 -> 3 [] OTHER -> 7
      times == (IF s = 18 THEN 11 ELSE 3) + Bits(sym.next, extra)
      len   == IF s = 16 THEN LastLength ELSE 0
  IN  /\ at = "lengths"
      /\ Len(lengths) < nlen + ndist
      /\ IF s < 16 THEN AddLengths(<<s>>, sym.next)
         ELSE IF s = 16 /\ lengths = <<>> THEN Fail(-5, sym.next)
         ELSE IF Len(lengths) + times > nlen + ndist
           THEN Fail(-6, sym.next + extra)
         ELSE AddLengths([i \in 1 .. times |-> len], sym.next + extra)

\* An incomplete code is allowed if it has just one symbol.
Usable(h, n) == h.left = 0 \/ (h.left > 0 /\ n - h.count[0] = 1)

BuildCodes ==
  LET lh == Construct(SubSeq(lengths, 1, nlen))
      dh == Construct(SubSeq(lengths, nlen + 1, nlen + ndist))
  IN  /\ at = "lengths"
      /\ Len(lengths) = nlen + ndist
      /\ IF ~Usable(lh, nlen) THEN Fail(-7, 0)
         ELSE IF ~Usable(dh, ndist) THEN Fail(-8, 0)
         ELSE /\ lencode' = lh /\ distcode' = dh
              /\ at' = "codes"
              /\ UNCHANGED <<source, out, reader, last, nlen, ndist, lengths, err>>

-----------------------------------------------------------------------------
(* codes(): literals, and copies of earlier output.                        *)

lens == <<3, 4, 5, 6, 7, 8, 9, 10, 11, 13, 15, 17, 19, 23, 27, 31,
          35, 43, 51, 59, 67, 83, 99, 115, 131, 163, 195, 227, 258>>
lext == <<0, 0, 0, 0, 0, 0, 0, 0, 1, 1, 1, 1, 2, 2, 2, 2,
          3, 3, 3, 3, 4, 4, 4, 4, 5, 5, 5, 5, 0>>
dists == <<1, 2, 3, 4, 5, 7, 9, 13, 17, 25, 33, 49, 65, 97, 129, 193,
           257, 385, 513, 769, 1025, 1537, 2049, 3073, 4097, 6145,
           8193, 12289, 16385, 24577>>
dext == <<0, 0, 0, 0, 1, 1, 2, 2, 3, 3, 4, 4, 5, 5, 6, 6,
          7, 7, 8, 8, 9, 9, 10, 10, 11, 11, 12, 12, 13, 13>>

\* out with len bytes from dist bytes back, one after the other.
Copied(len, dist) ==
  LET copy[n \in 1 .. Len(out) + len] ==
        IF n <= Len(out) THEN out[n] ELSE copy[n - dist]
  IN  [n \in 1 .. Len(out) + len |-> copy[n]]

\* A length symbol, its extra bits, a distance symbol and its extra bits.
CopySymbol(sym) ==
  LET s    == sym.symbol - 256
      len  == lens[s] + Bits(sym.next, lext[s])
      dsym == Decode(distcode, sym.next + lext[s])
      d    == dsym.symbol + 1
      dist == dists[d] + Bits(dsym.next, dext[d])
  IN  IF s > 29 THEN Fail(-9, sym.next)
      ELSE IF dsym.symbol < 0 THEN Fail(dsym.symbol, dsym.next)
      ELSE IF dist > Len(out) THEN Fail(-10, dsym.next + dext[d])
      ELSE /\ out' = Copied(len, dist)
           /\ Consume(dsym.next + dext[d])
           /\ UNCHANGED <<source, last, at, tables, err>>

Symbol ==
  LET sym == Decode(lencode, 0)
  IN  /\ at = "codes"
      /\ \/ sym.symbol < 0 /\ Fail(sym.symbol, sym.next)
         \/ /\ sym.symbol \in 0 .. 255
            /\ out' = Append(out, sym.symbol)
            /\ Consume(sym.next)
            /\ UNCHANGED <<source, last, at, tables, err>>
         \/ /\ sym.symbol = 256
            /\ Consume(sym.next)
            /\ EndBlock
            /\ UNCHANGED <<source, out, last, tables, err>>
         \/ sym.symbol > 256 /\ CopySymbol(sym)

-----------------------------------------------------------------------------

Puff == \/ BlockHeader \/ Stored \/ Dynamic \/ LengthSymbol \/ BuildCodes
        \/ Symbol

InflateInit ==
  /\ out = <<>>
  /\ incnt = 0 /\ bitbuf = 0 /\ bitcnt = 0
  /\ last = FALSE
  /\ at = "header"
  /\ nlen = 0 /\ ndist = 0 /\ lengths = <<>>
  /\ lencode = Construct(<<>>) /\ distcode = Construct(<<>>)
  /\ err = 0

=============================================================================
