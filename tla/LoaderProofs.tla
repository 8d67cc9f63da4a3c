---------------------------- MODULE LoaderProofs ----------------------------
(***************************************************************************)
(* The core loop calls complete images only, and reads the header once per *)
(* image, whatever the block source does: for every memory and block size, *)
(* and all images that lie behind their header and inside the address      *)
(* space (SaneHeaders).                                                    *)
(***************************************************************************)
EXTENDS Loader, SequenceTheorems, TLAPS

\* The address map: the arithmetic of the assumption, once and for all.
LEMMA AddressMap ==
  /\ DramBase \in Nat /\ AddrMod \in Nat /\ HeaderSize \in Nat /\ Scratch \in Nat
  /\ HeaderSize >= 1
  /\ HeaderBase \in Nat /\ HeaderBase = DramBase /\ Infinity = AddrMod - 1
  /\ HeaderBase + HeaderSize < Infinity
  /\ HeaderBase \in Dram
  /\ \A n \in BlockSizes : n \in Nat /\ 1 <= n /\ n <= Scratch
  /\ \A a : a \in Addr <=> a \in Int /\ 0 <= a /\ a < AddrMod
  /\ \A a : a \in Dram <=> a \in Int /\ DramBase <= a /\ a < AddrMod
BY LoaderAssumption
   DEF LoaderAssumption, AddrMod, Addr, Dram, HeaderBase, Infinity

\* A header's load address is in DRAM, and a sane one leaves room for the
\* image and what a source writes behind it, so its end does not wrap around.
LEMMA HeaderFields ==
  ASSUME SaneHeaders, NEW h \in Data, IsHeader[h]
  PROVE  /\ Length[h] \in Nat
         /\ LoadBase(h) \in Nat
         /\ LoadBase(h) >= HeaderBase + HeaderSize
         /\ LoadBase(h) + Length[h] + Scratch < AddrMod
         /\ ImageEnd(h) = LoadBase(h) + Length[h]
<1>1. LoadAddr[h] \in Nat /\ Length[h] \in Nat
  BY LoaderAssumption, AddressMap DEF LoaderAssumption
<1>2. LoadBase(h) \in Nat
  BY <1>1, AddressMap DEF LoadBase, OrDramBase
<1>3. /\ LoadBase(h) >= HeaderBase + HeaderSize
      /\ LoadBase(h) + Length[h] + Scratch < AddrMod
  BY DEF SaneHeaders
<1>4. LoadBase(h) + Length[h] \in 0 .. AddrMod - 1
  BY <1>1, <1>2, <1>3, AddressMap
<1>5. ImageEnd(h) = LoadBase(h) + Length[h]
  BY <1>4, AddressMap DEF ImageEnd
<1> QED
  BY <1>1, <1>2, <1>3, <1>5

\* A source leaves memory outside its window as it was.
LEMMA ScribblesFrame ==
  ASSUME LoaderTypeOK, NEW m \in Scribbles
  PROVE  /\ m \in [Dram -> Data]
         /\ \A a \in Dram : a \notin base .. base + Scratch - 1 => m[a] = mem[a]
BY DEF Scribbles, LoaderTypeOK

-----------------------------------------------------------------------------

\* The loop starts with an empty header.
LEMMA StartLoadInv ==
  ASSUME StartLoad, mem' \in [Dram -> Data]
  PROVE  LoaderInv'
<1>1. stream' = <<>> /\ Len(stream') = 0
  BY DEF StartLoad
<1>2. LoaderTypeOK'
  BY <1>1, AddressMap DEF StartLoad, LoaderTypeOK
<1>3. HeaderInv'
  BY <1>1, AddressMap DEF StartLoad, HeaderInv
<1>4. ImageInv' /\ FirstBlockInv'
  BY <1>1, AddressMap DEF ImageInv, FirstBlockInv
<1> QED
  BY <1>2, <1>3, <1>4 DEF LoaderInv

THEOREM LoaderInitInv == LoaderInit => LoaderInv
<1> SUFFICES ASSUME LoaderInit PROVE LoaderInv
  OBVIOUS
<1>1. stream = <<>> /\ Len(stream) = 0
  BY DEF LoaderInit
<1>a. mem \in [Dram -> Data]
  BY LoaderAssumption DEF LoaderInit, LoaderAssumption
<1>2. LoaderTypeOK
  BY <1>1, <1>a, AddressMap DEF LoaderInit, LoaderTypeOK
<1>3. HeaderInv
  BY <1>1, AddressMap DEF LoaderInit, HeaderInv
<1>4. ImageInv /\ FirstBlockInv
  BY <1>1, AddressMap DEF ImageInv, FirstBlockInv
<1> QED
  BY <1>2, <1>3, <1>4 DEF LoaderInv

-----------------------------------------------------------------------------

\* Where the loop may write: behind the header cells received so far, and in
\* the image behind the header and the data received so far.
LEMMA WindowIsFree ==
  ASSUME LoaderInv, SaneHeaders, NEW m \in Scribbles
  PROVE  /\ m \in [Dram -> Data]
         /\ Len(stream) < HeaderSize =>
              \A i \in 1 .. Len(stream) :
                m[HeaderBase + i - 1] = stream[i]
         /\ Len(stream) >= HeaderSize =>
              /\ m[HeaderBase] = stream[1]
              /\ \A i \in HeaderSize + 1 .. Len(stream) :
                   m[LoadBase(stream[1]) + i - HeaderSize - 1] = stream[i]
<1>1. LoaderTypeOK /\ HeaderInv /\ ImageInv
  BY DEF LoaderInv
<1>2. /\ m \in [Dram -> Data]
      /\ \A a \in Dram : a < base => m[a] = mem[a]
  BY <1>1, ScribblesFrame, AddressMap DEF LoaderTypeOK
<1>3. Len(stream) \in Nat /\ base \in Int
  BY <1>1, AddressMap DEF LoaderTypeOK
<1>4. ASSUME Len(stream) < HeaderSize, NEW i \in 1 .. Len(stream)
      PROVE  m[HeaderBase + i - 1] = stream[i]
  <2>1. base = HeaderBase + Len(stream) /\ mem[HeaderBase + i - 1] = stream[i]
    BY <1>1, <1>4 DEF HeaderInv
  <2>2. HeaderBase + i - 1 \in Dram /\ HeaderBase + i - 1 < base
    BY <1>3, <1>4, <2>1, AddressMap
  <2> QED
    BY <1>2, <2>1, <2>2
<1>5. ASSUME Len(stream) >= HeaderSize
      PROVE  /\ m[HeaderBase] = stream[1]
             /\ \A i \in HeaderSize + 1 .. Len(stream) :
                  m[LoadBase(stream[1]) + i - HeaderSize - 1] = stream[i]
  <2> DEFINE h == stream[1]
  <2>1. h \in Data /\ IsHeader[h]
    BY <1>1, <1>3, <1>5, AddressMap DEF LoaderTypeOK, ImageInv
  <2>2. /\ mem[HeaderBase] = h
        /\ base = LoadBase(h) + Len(stream) - HeaderSize
        /\ \A i \in HeaderSize + 1 .. Len(stream) :
             mem[LoadBase(h) + i - HeaderSize - 1] = stream[i]
    BY <1>1, <1>5 DEF ImageInv, Header
  <2>a. base < AddrMod
    BY <1>1, AddressMap DEF LoaderTypeOK
  <2>3. LoadBase(h) \in Nat /\ LoadBase(h) >= HeaderBase + HeaderSize
    BY <2>1, HeaderFields
  <2>4. HeaderBase < base
    BY <1>3, <1>5, <2>2, <2>3, AddressMap
  <2>5. ASSUME NEW i \in HeaderSize + 1 .. Len(stream)
        PROVE  m[LoadBase(h) + i - HeaderSize - 1] = stream[i]
    <3> DEFINE a == LoadBase(h) + i - HeaderSize - 1
    <3>1. a \in Int /\ DramBase <= a /\ a < base
      BY <1>3, <2>2, <2>3, <2>5, AddressMap
    <3>2. a < AddrMod
      BY <1>3, <2>a, <3>1, AddressMap
    <3> HIDE DEF a
    <3>3. a \in Dram
      BY <3>1, <3>2, AddressMap
    <3>4. m[a] = mem[a]
      BY <1>2, <3>1, <3>3
    <3> QED
      BY <2>2, <2>5, <3>4 DEF a
  <2> QED
    BY <1>2, <2>2, <2>4, <2>5, AddressMap
<1> QED
  BY <1>2, <1>4, <1>5

\* get_block() is asked for a header only when none of it was delivered.
LEMMA ExpectHeaderEmpty ==
  ASSUME LoaderInv, SaneHeaders, ExpectHeader
  PROVE  stream = <<>>
<1>1. LoaderTypeOK /\ HeaderInv /\ ImageInv
  BY DEF LoaderInv
<1>2. stream \in Seq(Data) /\ Len(stream) \in Nat /\ base \in Int
  BY <1>1, AddressMap DEF LoaderTypeOK
<1>3. CASE Len(stream) < HeaderSize
  <2>1. Len(stream) = 0
    BY <1>1, <1>2, <1>3, AddressMap DEF HeaderInv, ExpectHeader
  <2> QED
    BY <1>2, <2>1
<1>4. CASE Len(stream) >= HeaderSize
  <2>1. stream[1] \in Data /\ IsHeader[stream[1]]
    BY <1>1, <1>2, <1>4, AddressMap DEF LoaderTypeOK, ImageInv
  <2>2. base = LoadBase(stream[1]) + Len(stream) - HeaderSize
    BY <1>1, <1>4 DEF ImageInv
  <2>3. /\ LoadBase(stream[1]) \in Nat
        /\ LoadBase(stream[1]) >= HeaderBase + HeaderSize
    BY <2>1, HeaderFields
  <2>4. base > HeaderBase
    BY <1>2, <1>4, <2>2, <2>3, AddressMap
  <2> QED
    BY <2>4, AddressMap DEF ExpectHeader
<1> QED
  BY <1>2, <1>3, <1>4, AddressMap

\* A refused block: get_block() returned 0.
LEMMA RetryInv ==
  ASSUME LoaderInv, SaneHeaders, InLoop, mem' \in Scribbles, Retry
  PROVE  LoaderInv' /\ base' = base
<1>1. LoaderTypeOK /\ HeaderInv /\ ImageInv
  BY DEF LoaderInv
<1>2. Len(stream) \in Nat /\ base \in Int /\ stream' = stream
  BY <1>1, AddressMap DEF LoaderTypeOK, Retry
<1>3. base' = base /\ data_end' = data_end
  <2>1. CASE Len(stream) < HeaderSize
    <3>1. base # HeaderBase + HeaderSize
      BY <1>1, <1>2, <2>1, AddressMap DEF HeaderInv
    <3> QED
      BY <3>1 DEF Retry, Advance
  <2>2. CASE Len(stream) >= HeaderSize
    <3> DEFINE h == stream[1]
    <3>1. h \in Data /\ IsHeader[h]
      BY <1>1, <1>2, <2>2, AddressMap DEF LoaderTypeOK, ImageInv
    <3>2. /\ base = LoadBase(h) + Len(stream) - HeaderSize
          /\ data_end = LoadBase(h) + Length[h]
      BY <1>1, <2>2 DEF ImageInv
    <3>3. mem'[HeaderBase] = h
      BY <2>2, WindowIsFree
    <3>4. /\ LoadBase(h) \in Nat /\ LoadBase(h) >= HeaderBase + HeaderSize
          /\ ImageEnd(h) = LoadBase(h) + Length[h]
      BY <3>1, HeaderFields
    <3>5. CASE base = HeaderBase + HeaderSize
      <4>1. base = LoadBase(h)
        BY <1>2, <2>2, <3>2, <3>4, <3>5, AddressMap
      <4> QED
        BY <3>2, <3>3, <3>4, <3>5, <4>1 DEF Retry, Advance
    <3>6. CASE base # HeaderBase + HeaderSize
      BY <3>6 DEF Retry, Advance
    <3> QED
      BY <3>5, <3>6
  <2> QED
    BY <1>2, <2>1, <2>2, AddressMap
<1>4. pc' = "loop" /\ expect_header' \in BOOLEAN
  BY DEF Retry, Advance, ExpectHeader
<1>5. LoaderTypeOK'
  BY <1>1, <1>2, <1>3, <1>4, WindowIsFree DEF LoaderTypeOK
<1>6. HeaderInv'
  BY <1>1, <1>2, <1>3, <1>4, WindowIsFree DEF HeaderInv
<1>7. ImageInv'
  BY <1>1, <1>2, <1>3, <1>4, WindowIsFree DEF ImageInv, Header
<1>8. FirstBlockInv'
  BY <1>2, ExpectHeaderEmpty, AddressMap
     DEF FirstBlockInv, Retry, Advance
<1> QED
  BY <1>3, <1>5, <1>6, <1>7, <1>8 DEF LoaderInv

\* The block just taken follows what was delivered before: the reset of the
\* stream at the first block finds it empty.
LEMMA TookStream ==
  ASSUME LoaderInv, SaneHeaders, NEW n \in BlockSizes,
         mem' \in Scribbles, Deliverable(n), Took(n)
  PROVE  /\ stream' \in Seq(Data)
         /\ Len(stream') = Len(stream) + n
         /\ \A i \in 1 .. Len(stream) : stream'[i] = stream[i]
         /\ \A i \in Len(stream) + 1 .. Len(stream) + n :
              stream'[i] = mem'[base + i - Len(stream) - 1]
         /\ ExpectHeader => stream = <<>>
<1> DEFINE block == [i \in 1 .. n |-> mem'[base + i - 1]]
<1>1. LoaderTypeOK /\ HeaderInv /\ ImageInv
  BY DEF LoaderInv
<1>2. /\ n \in Nat /\ 1 <= n
      /\ stream \in Seq(Data) /\ Len(stream) \in Nat
      /\ base \in Int
  BY <1>1, AddressMap DEF LoaderTypeOK
<1>3. ExpectHeader => stream = <<>>
  BY ExpectHeaderEmpty
<1>4. \A i \in 1 .. n : base + i - 1 \in Dram
  <2>1. DramBase <= base
    <3>1. CASE Len(stream) < HeaderSize
      BY <1>1, <1>2, <3>1, AddressMap DEF HeaderInv
    <3>2. CASE Len(stream) >= HeaderSize
      <4>1. stream[1] \in Data /\ IsHeader[stream[1]]
        BY <1>1, <1>2, <3>2, AddressMap DEF LoaderTypeOK, ImageInv
      <4>2. base = LoadBase(stream[1]) + Len(stream) - HeaderSize
        BY <1>1, <3>2 DEF ImageInv
      <4>3. /\ LoadBase(stream[1]) \in Nat
            /\ LoadBase(stream[1]) >= HeaderBase + HeaderSize
        BY <4>1, HeaderFields
      <4> QED
        BY <1>2, <3>2, <4>2, <4>3, AddressMap
    <3> QED
      BY <1>2, <3>1, <3>2, AddressMap
  <2>2. base + n - 1 < AddrMod
    BY AddressMap DEF Deliverable
  <2> QED
    BY <1>2, <2>1, <2>2, AddressMap
<1>5. mem' \in [Dram -> Data]
  BY WindowIsFree
<1>6. block \in [1 .. n -> Data]
  BY <1>4, <1>5
<1>7. \A i \in 1 .. n : block[i] = mem'[base + i - 1]
  OBVIOUS
<1> HIDE DEF block
<1>8. block \in Seq(Data) /\ Len(block) = n
  <2>1. block \in Seq(Data)
    BY <1>2, <1>6, SeqDef
  <2>2. DOMAIN block = 1 .. n
    BY <1>6
  <2> QED
    BY <1>2, <2>1, <2>2, LenProperties
<1>9. stream' = stream \o block
  <2>1. CASE ExpectHeader
    <3>1. stream = <<>> /\ stream' = block
      BY <1>3, <2>1 DEF Took, block
    <3> QED
      BY <1>8, <3>1, ConcatEmptySeq
  <2>2. CASE ~ExpectHeader
    BY <2>2 DEF Took, block
  <2> QED
    BY <2>1, <2>2
<1>10. /\ stream' \in Seq(Data)
       /\ Len(stream') = Len(stream) + n
       /\ \A i \in 1 .. Len(stream) : stream'[i] = stream[i]
  BY <1>2, <1>8, <1>9, ConcatProperties
<1>11. ASSUME NEW i \in Len(stream) + 1 .. Len(stream) + n
       PROVE  stream'[i] = mem'[base + i - Len(stream) - 1]
  <2>1. i - Len(stream) \in 1 .. n
    BY <1>2, <1>11
  <2>2. stream'[i] = block[i - Len(stream)]
    BY <1>2, <1>8, <1>9, <1>11, ConcatProperties
  <2>3. base + (i - Len(stream)) - 1 = base + i - Len(stream) - 1
    BY <1>2, <1>11
  <2> QED
    BY <1>7, <2>1, <2>2, <2>3
<1> QED
  BY <1>3, <1>10, <1>11

\* A block taken: of the header, the last of the header, or of the image.
LEMMA TookInv ==
  ASSUME LoaderInv, SaneHeaders, InLoop, NEW n \in BlockSizes,
         mem' \in Scribbles, Deliverable(n), Took(n)
  PROVE  /\ LoaderInv'
         /\ Len(stream) >= HeaderSize => base' = base + n
<1> DEFINE h == stream'[1]
<1>1. LoaderTypeOK /\ HeaderInv /\ ImageInv
  BY DEF LoaderInv
<1>2. /\ n \in Nat /\ 1 <= n /\ n <= Scratch
      /\ Len(stream) \in Nat /\ base \in Int
      /\ HeaderSize \in Nat /\ AddrMod \in Nat /\ Scratch \in Nat
  BY <1>1, AddressMap DEF LoaderTypeOK
<1>3. /\ stream' \in Seq(Data)
      /\ Len(stream') = Len(stream) + n
      /\ \A i \in 1 .. Len(stream) : stream'[i] = stream[i]
      /\ \A i \in Len(stream) + 1 .. Len(stream) + n :
           stream'[i] = mem'[base + i - Len(stream) - 1]
      /\ ExpectHeader => stream = <<>>
  BY TookStream
<1>4. pc' = "loop" /\ expect_header' \in BOOLEAN
  BY DEF Took, Advance, ExpectHeader
<1>5. mem' \in [Dram -> Data] /\ h \in Data
  BY <1>2, <1>3, WindowIsFree
<1>6. FirstBlockInv'
  <2> SUFFICES ASSUME ExpectHeader PROVE Len(stream') <= HeaderSize
    BY DEF FirstBlockInv, Took, Advance
  <2>1. Len(stream) = 0
    BY <1>3
  <2> QED
    BY <1>2, <1>3, <2>1, AddressMap DEF Deliverable
<1>7. CASE Len(stream) < HeaderSize
  <2>1. base = HeaderBase + Len(stream) /\ data_end = Infinity
    BY <1>1, <1>7 DEF HeaderInv
  <2>2. Len(stream) + n <= HeaderSize
    BY <1>7 DEF Deliverable
  <2>3. (base + n) % AddrMod = base + n
    <3>1. base + n \in 0 .. AddrMod - 1
      BY <1>2, <2>1, <2>2, AddressMap
    <3> QED
      BY <1>2, <3>1
  <2>4. ASSUME NEW i \in 1 .. Len(stream')
        PROVE  mem'[HeaderBase + i - 1] = stream'[i]
    <3>1. CASE i <= Len(stream)
      BY <1>2, <1>3, <1>7, <2>4, <3>1, WindowIsFree
    <3>2. CASE i > Len(stream)
      <4>1. stream'[i] = mem'[base + i - Len(stream) - 1]
        BY <1>2, <1>3, <2>4, <3>2
      <4>2. base + i - Len(stream) - 1 = HeaderBase + i - 1
        BY <1>2, <1>3, <2>1, <2>4, AddressMap
      <4> QED
        BY <4>1, <4>2
    <3> QED
      BY <1>2, <1>3, <2>4, <3>1, <3>2
  <2>5. IsHeader[h]
    <3>1. CASE Len(stream) = 0
      <4>1. ExpectHeader
        BY <1>2, <2>1, <3>1, AddressMap DEF ExpectHeader
      <4>2. IsHeader[mem'[base]]
        BY <4>1 DEF Deliverable
      <4>3. h = mem'[base]
        <5>1. stream'[1] = mem'[HeaderBase + 1 - 1]
          BY <1>2, <1>3, <2>4
        <5> QED
          BY <1>2, <2>1, <3>1, <5>1, AddressMap
      <4> QED
        BY <4>2, <4>3
    <3>2. CASE Len(stream) # 0
      <4>1. stream # <<>> /\ stream'[1] = stream[1]
        BY <1>2, <1>3, <3>2
      <4> QED
        BY <1>1, <1>7, <4>1 DEF HeaderInv
    <3> QED
      BY <3>1, <3>2
  <2>6. CASE Len(stream) + n < HeaderSize
    <3>1. base + n # HeaderBase + HeaderSize
      BY <1>2, <2>1, <2>6, AddressMap
    <3>2. base' = base + n /\ data_end' = Infinity
      BY <2>1, <2>3, <3>1 DEF Took, Advance
    <3>3. LoaderTypeOK'
      <4>1. base' \in Addr /\ data_end' \in Addr
        BY <1>2, <2>1, <2>2, <3>2, AddressMap
      <4> QED
        BY <1>3, <1>4, <1>5, <4>1 DEF LoaderTypeOK
    <3>4. base' = HeaderBase + Len(stream')
      BY <1>2, <1>3, <2>1, <3>2, AddressMap
    <3>5. HeaderInv'
      BY <1>4, <2>4, <2>5, <3>2, <3>4 DEF HeaderInv
    <3>6. ImageInv'
      BY <1>2, <1>3, <2>6 DEF ImageInv
    <3> QED
      BY <1>6, <1>2, <1>7, <3>3, <3>5, <3>6 DEF LoaderInv
  <2>7. CASE Len(stream) + n = HeaderSize
    <3>1. base + n = HeaderBase + HeaderSize
      BY <1>2, <2>1, <2>7, AddressMap
    <3>2. mem'[HeaderBase] = h
      <4>1. stream'[1] = mem'[HeaderBase + 1 - 1]
        BY <1>2, <1>3, <2>4
      <4> QED
        BY <4>1, AddressMap
    <3>3. /\ Length[h] \in Nat /\ LoadBase(h) \in Nat
          /\ LoadBase(h) + Length[h] + Scratch < AddrMod
          /\ ImageEnd(h) = LoadBase(h) + Length[h]
      BY <1>5, <2>5, HeaderFields
    <3>4. base' = LoadBase(h) /\ data_end' = LoadBase(h) + Length[h]
      BY <2>3, <3>1, <3>2, <3>3 DEF Took, Advance
    <3> HIDE DEF h
    <3>5. LoaderTypeOK'
      <4>1. base' \in Addr /\ data_end' \in Addr
        BY <1>2, <3>3, <3>4 DEF Addr
      <4> QED
        BY <1>3, <1>4, <1>5, <4>1 DEF LoaderTypeOK
    <3>6. HeaderInv'
      BY <1>2, <1>3, <2>7 DEF HeaderInv
    <3>7. ImageInv'
      <4>1. base' = LoadBase(h) + Len(stream') - HeaderSize
        BY <1>2, <1>3, <2>7, <3>3, <3>4
      <4>2. base' <= data_end' + Scratch
        BY <1>2, <3>3, <3>4
      <4>3. HeaderSize + 1 .. Len(stream') = {}
        BY <1>2, <1>3, <2>7
      <4> QED
        BY <1>4, <2>5, <3>2, <3>4, <4>1, <4>2, <4>3 DEF ImageInv, Header, h
    <3> QED
      BY <1>6, <1>2, <1>7, <3>5, <3>6, <3>7 DEF LoaderInv
  <2> QED
    BY <1>2, <2>2, <2>6, <2>7
<1>8. CASE Len(stream) >= HeaderSize
  <2>1. h = stream[1]
    BY <1>2, <1>3, <1>8, AddressMap
  <2> HIDE DEF h
  <2>2. /\ IsHeader[h]
        /\ base = LoadBase(h) + Len(stream) - HeaderSize
        /\ data_end = LoadBase(h) + Length[h]
    BY <1>1, <1>8, <2>1 DEF ImageInv
  <2>3. base <= data_end
    BY DEF InLoop
  <2>4. /\ Length[h] \in Nat /\ LoadBase(h) \in Nat
        /\ LoadBase(h) >= HeaderBase + HeaderSize
        /\ LoadBase(h) + Length[h] + Scratch < AddrMod
    BY <1>5, <2>2, HeaderFields
  <2>5. /\ base + n \in 0 .. AddrMod - 1
        /\ base + n <= data_end + Scratch
    <3>1. data_end \in Nat /\ data_end + Scratch < AddrMod
      BY <1>2, <2>2, <2>4, SMTT(30)
    <3>2. base >= 0
      BY <1>1, AddressMap DEF LoaderTypeOK
    <3> QED
      BY <1>2, <2>3, <3>1, <3>2
  <2>6. (base + n) % AddrMod = base + n
    BY <1>2, <2>5
  <2>7. base + n # HeaderBase + HeaderSize
    BY <1>2, <1>8, <2>2, <2>4, AddressMap
  <2>8. base' = base + n /\ data_end' = data_end
    BY <2>6, <2>7 DEF Took, Advance
  <2>9. LoaderTypeOK'
    <3>1. base' \in Addr /\ data_end' \in Addr
      BY <1>1, <1>2, <2>5, <2>8, AddressMap DEF LoaderTypeOK
    <3> QED
      BY <1>3, <1>4, <1>5, <3>1 DEF LoaderTypeOK
  <2>10. HeaderInv'
    BY <1>2, <1>3, <1>8 DEF HeaderInv
  <2>11. ASSUME NEW i \in HeaderSize + 1 .. Len(stream')
         PROVE  mem'[LoadBase(h) + i - HeaderSize - 1] = stream'[i]
    <3>1. CASE i <= Len(stream)
      BY <1>2, <1>3, <1>8, <2>1, <2>11, <3>1, WindowIsFree
    <3>2. CASE i > Len(stream)
      <4>1. stream'[i] = mem'[base + i - Len(stream) - 1]
        BY <1>2, <1>3, <2>11, <3>2
      <4>2. base + i - Len(stream) - 1 = LoadBase(h) + i - HeaderSize - 1
        BY <1>2, <2>2, <2>4, <2>11
      <4> QED
        BY <4>1, <4>2
    <3> QED
      BY <1>2, <1>3, <2>11, <3>1, <3>2
  <2>12. ImageInv'
    <3>1. mem'[HeaderBase] = h
      BY <1>8, <2>1, WindowIsFree
    <3>2. base' = LoadBase(h) + Len(stream') - HeaderSize
      BY <1>2, <1>3, <2>2, <2>4, <2>8
    <3> QED
      BY <1>4, <2>2, <2>5, <2>8, <2>11, <3>1, <3>2 DEF ImageInv, Header, h
  <2> QED
    BY <1>6, <2>8, <2>9, <2>10, <2>12 DEF LoaderInv
<1> QED
  BY <1>2, <1>7, <1>8

-----------------------------------------------------------------------------

\* The end of the loop: the image is called only if base got to its end, and
\* while a header is received base stays short of Infinity.
LEMMA EndLoadInv ==
  ASSUME LoaderInv, SaneHeaders, EndLoad
  PROVE  LoaderInv'
<1>1. LoaderTypeOK /\ HeaderInv /\ ImageInv
  BY DEF LoaderInv
<1>2. CASE base >= data_end /\ ~expect_header
  <2>1. /\ pc' = "image"
        /\ UNCHANGED <<base, data_end, expect_header, mem, stream>>
    BY <1>2 DEF EndLoad
  <2>2. ~(Len(stream) < HeaderSize)
    <3> SUFFICES ASSUME Len(stream) < HeaderSize PROVE FALSE
      OBVIOUS
    <3>1. base = HeaderBase + Len(stream) /\ data_end = Infinity
      BY <1>1 DEF HeaderInv
    <3>2. Len(stream) \in Nat
      BY <1>1 DEF LoaderTypeOK
    <3> QED
      BY <1>2, <3>1, <3>2, AddressMap
  <2>3. LoaderTypeOK'
    BY <1>1, <2>1 DEF LoaderTypeOK
  <2>4. HeaderInv'
    BY <2>1, <2>2 DEF HeaderInv
  <2>5. ImageInv'
    BY <1>1, <1>2, <2>1 DEF ImageInv, Header
  <2>6. FirstBlockInv'
    BY <1>2, <2>1 DEF FirstBlockInv
  <2> QED
    BY <2>3, <2>4, <2>5, <2>6 DEF LoaderInv
<1>3. CASE ~(base >= data_end /\ ~expect_header)
  <2>1. StartLoad /\ mem' = mem
    BY <1>3 DEF EndLoad
  <2> QED
    BY <1>1, <2>1, StartLoadInv DEF LoaderTypeOK
<1> QED
  BY <1>2, <1>3

\* Any end of the source's delivery leaves what was delivered in place.
LEMMA StopInv ==
  ASSUME LoaderInv, SaneHeaders, mem' \in Scribbles, Stop
  PROVE  LoaderInv'
<1>1. LoaderTypeOK /\ HeaderInv /\ ImageInv
  BY DEF LoaderInv
<1>2. /\ pc' = "end" /\ expect_header' \in BOOLEAN
      /\ UNCHANGED <<base, data_end, stream>>
  BY DEF Stop, ExpectHeader
<1>3. LoaderTypeOK'
  BY <1>1, <1>2, WindowIsFree DEF LoaderTypeOK
<1>4. HeaderInv'
  BY <1>1, <1>2, WindowIsFree DEF HeaderInv
<1>5. ImageInv'
  BY <1>1, <1>2, WindowIsFree DEF ImageInv, Header
<1>6. FirstBlockInv'
  BY <1>2, ExpectHeaderEmpty, AddressMap DEF FirstBlockInv, Stop
<1> QED
  BY <1>3, <1>4, <1>5, <1>6 DEF LoaderInv

THEOREM LoaderNextInv ==
  ASSUME LoaderInv, SaneHeaders, [LoaderNext]_loaderVars
  PROVE  LoaderInv'
<1>1. CASE GetBlock
  <2>1. InLoop /\ mem' \in Scribbles
    BY <1>1 DEF GetBlock
  <2>2. ASSUME NEW n \in BlockSizes, Deliverable(n), Took(n)
        PROVE  LoaderInv'
    BY <2>1, <2>2, TookInv
  <2>3. CASE Retry
    BY <2>1, <2>3, RetryInv
  <2>4. CASE Stop
    BY <2>1, <2>4, StopInv
  <2> QED
    BY <1>1, <2>2, <2>3, <2>4 DEF GetBlock
<1>2. CASE EndLoad
  BY <1>2, EndLoadInv
<1>3. CASE ImageReturns
  <2>1. mem' \in [Dram -> Data]
    BY <1>3, LoaderAssumption DEF ImageReturns, LoaderAssumption
  <2>2. StartLoad
    BY <1>3 DEF ImageReturns
  <2> QED
    BY <2>1, <2>2, StartLoadInv
<1>4. CASE UNCHANGED loaderVars
  BY <1>4 DEF LoaderInv, LoaderTypeOK, HeaderInv, ImageInv, FirstBlockInv,
              Header, loaderVars
<1> QED
  BY <1>1, <1>2, <1>3, <1>4 DEF LoaderNext

\* The inductive invariant holds in every state the core loop reaches, with
\* any source that keeps the contract of GetBlock.
THEOREM LoaderInvariant == SaneHeaders => (LoaderSpec => []LoaderInv)
<1> SUFFICES ASSUME SaneHeaders PROVE LoaderSpec => []LoaderInv
  OBVIOUS
<1>1. LoaderInit => LoaderInv
  BY LoaderInitInv
<1>2. LoaderInv /\ [LoaderNext]_loaderVars => LoaderInv'
  BY LoaderNextInv
<1> QED
  BY <1>1, <1>2, PTL DEF LoaderSpec

\* Every variable of the loader keeps its type; base and data_end stay inside
\* the 32-bit address space without wrapping around.
THEOREM LoaderTypeCorrect == SaneHeaders => (LoaderSpec => []LoaderTypeOK)
<1>1. LoaderInv => LoaderTypeOK
  BY DEF LoaderInv
<1> QED
  BY <1>1, LoaderInvariant, PTL

\* What the invariant says of an image about to run.
LEMMA InvImageComplete == LoaderInv => ImageComplete
<1> SUFFICES ASSUME LoaderInv, pc = "image" PROVE ImageComplete
  BY DEF ImageComplete
<1> DEFINE h == stream[1]
<1>1. LoaderTypeOK /\ HeaderInv /\ ImageInv
  BY DEF LoaderInv
<1>2. Len(stream) \in Nat /\ HeaderSize \in Nat /\ HeaderSize >= 1
  BY <1>1, AddressMap DEF LoaderTypeOK
<1>3. Len(stream) >= HeaderSize
  BY <1>1, <1>2 DEF HeaderInv
<1>4. /\ IsHeader[h] /\ Header = h
      /\ base = LoadBase(h) + Len(stream) - HeaderSize
      /\ base >= LoadBase(h) + Length[h]
      /\ \A i \in HeaderSize + 1 .. Len(stream) :
           mem[LoadBase(h) + i - HeaderSize - 1] = stream[i]
  BY <1>1, <1>3 DEF ImageInv
<1>5. h \in Data /\ Length[h] \in Nat /\ LoadBase(h) \in Nat
  <2>1. h \in Data
    BY <1>1, <1>2, <1>3 DEF LoaderTypeOK
  <2>2. Length[h] \in Nat /\ LoadAddr[h] \in Nat
    BY <2>1, LoaderAssumption, AddressMap DEF LoaderAssumption
  <2> QED
    BY <2>1, <2>2, AddressMap DEF LoadBase, OrDramBase
<1> HIDE DEF h
<1>6. Len(stream) >= HeaderSize + Length[h]
  BY <1>2, <1>4, <1>5
<1>7. ASSUME NEW i \in 0 .. Length[h] - 1
      PROVE  mem[Entry + i] = stream[HeaderSize + 1 + i]
  <2>1. HeaderSize + 1 + i \in HeaderSize + 1 .. Len(stream)
    BY <1>2, <1>5, <1>6, <1>7
  <2>2. LoadBase(h) + (HeaderSize + 1 + i) - HeaderSize - 1 = LoadBase(h) + i
    BY <1>2, <1>5, <1>7
  <2> QED
    BY <1>4, <2>1, <2>2 DEF Entry
<1> QED
  BY <1>4, <1>6, <1>7 DEF ImageComplete, Entry, h

\* The core loop's promise: whatever a source refuses, repeats or cuts off,
\* only an image delivered completely is called, at its own entry point.
THEOREM OnlyCompleteImagesRun == SaneHeaders => (LoaderSpec => []ImageComplete)
  BY LoaderInvariant, InvImageComplete, PTL

\* An attempt that has passed the end of its image is over: what follows is
\* the call, never another header.
LEMMA PastEndIsCalled ==
  ASSUME LoaderInv, SaneHeaders, Len(stream) >= HeaderSize, EndLoad,
         pc = "loop"
  PROVE  pc' = "image"
<1> DEFINE h == stream[1]
<1>1. LoaderTypeOK /\ ImageInv /\ FirstBlockInv
  BY DEF LoaderInv
<1>2. base > data_end
  BY DEF EndLoad
<1>3. /\ Len(stream) \in Nat /\ HeaderSize \in Nat
      /\ base \in Nat /\ data_end \in Nat
  BY <1>1, AddressMap DEF LoaderTypeOK
<1>4. h \in Data /\ IsHeader[h]
  BY <1>1, <1>3, AddressMap DEF LoaderTypeOK, ImageInv
<1>5. /\ base = LoadBase(h) + Len(stream) - HeaderSize
      /\ data_end = LoadBase(h) + Length[h]
  BY <1>1 DEF ImageInv
<1>6. LoadBase(h) \in Nat /\ Length[h] \in Nat
  BY <1>4, HeaderFields
<1> HIDE DEF h
<1>7. Len(stream) > HeaderSize
  BY <1>2, <1>3, <1>5, <1>6, SMTT(30)
<1>8. ~expect_header
  BY <1>1, <1>3, <1>7 DEF FirstBlockInv
<1> QED
  BY <1>2, <1>3, <1>8 DEF EndLoad

\* The load address moves with every block of the image and with nothing
\* else: the header is evaluated once, and no block lands twice.
THEOREM LoadMovesForward == SaneHeaders => (LoaderSpec => MovesForward)
<1> DEFINE Moves ==
      pc = "loop" /\ pc' = "loop" /\ Len(stream) >= HeaderSize =>
        IF stream' = stream THEN base' = base ELSE base' > base
<1>1. ASSUME SaneHeaders, LoaderInv, [LoaderNext]_loaderVars
      PROVE  [Moves]_loaderVars
  <2> SUFFICES ASSUME LoaderNext, pc = "loop", pc' = "loop",
                      Len(stream) >= HeaderSize
               PROVE  IF stream' = stream THEN base' = base ELSE base' > base
    BY <1>1
  <2>1. Len(stream) \in Nat /\ base \in Int
    BY <1>1, AddressMap DEF LoaderInv, LoaderTypeOK
  <2>2. CASE GetBlock
    <3>1. InLoop /\ mem' \in Scribbles
      BY <2>2 DEF GetBlock
    <3>2. ASSUME NEW n \in BlockSizes, Deliverable(n), Took(n)
          PROVE  base' > base /\ stream' # stream
      <4>1. n \in Nat /\ 1 <= n
        BY AddressMap
      <4>2. base' = base + n
        BY <1>1, <3>1, <3>2, TookInv
      <4>3. Len(stream') = Len(stream) + n
        BY <1>1, <3>1, <3>2, TookStream
      <4> QED
        BY <2>1, <4>1, <4>2, <4>3
    <3>3. CASE Retry
      <4>1. base' = base
        BY <1>1, <3>1, <3>3, RetryInv
      <4> QED
        BY <3>3, <4>1 DEF Retry
    <3>4. CASE Stop
      BY <3>4 DEF Stop
    <3> QED
      BY <2>2, <3>2, <3>3, <3>4 DEF GetBlock
  <2>3. CASE EndLoad
    BY <1>1, <2>3, PastEndIsCalled
  <2>4. CASE ImageReturns
    BY <2>4 DEF ImageReturns
  <2> QED
    BY <2>2, <2>3, <2>4 DEF LoaderNext
<1> SUFFICES ASSUME SaneHeaders PROVE LoaderSpec => MovesForward
  OBVIOUS
<1>2. LoaderSpec => []LoaderInv
  BY LoaderInvariant
<1>3. LoaderInv /\ [LoaderNext]_loaderVars => [Moves]_loaderVars
  BY <1>1
<1> QED
  BY <1>2, <1>3, PTL DEF LoaderSpec, MovesForward

-----------------------------------------------------------------------------
(* The header stays in memory *)

\* main.c reads only the first cell of the header, but all of it stays where
\* it was received: an image's data go behind it.
WholeHeaderKept ==
  \A i \in 1 .. HeaderSize : i <= Len(stream) => mem[HeaderBase + i - 1] = stream[i]

\* A source writes behind the header cells received.
LEMMA HeaderOutsideWindow ==
  ASSUME LoaderInv, SaneHeaders, WholeHeaderKept, NEW m \in Scribbles
  PROVE  \A i \in 1 .. HeaderSize :
           i <= Len(stream) => m[HeaderBase + i - 1] = stream[i]
<1> SUFFICES ASSUME NEW i \in 1 .. HeaderSize, i <= Len(stream)
             PROVE  m[HeaderBase + i - 1] = stream[i]
  OBVIOUS
<1>1. LoaderTypeOK /\ HeaderInv /\ ImageInv
  BY DEF LoaderInv
<1>2. Len(stream) \in Nat /\ base \in Int /\ HeaderSize \in Nat /\ HeaderSize >= 1
  BY <1>1, AddressMap DEF LoaderTypeOK
<1> DEFINE a == HeaderBase + i - 1
<1>3. a < base
  <2>1. CASE Len(stream) < HeaderSize
    BY <1>1, <1>2, <2>1, AddressMap DEF HeaderInv
  <2>2. CASE Len(stream) >= HeaderSize
    <3>1. stream[1] \in Data /\ IsHeader[stream[1]]
      BY <1>1, <1>2, <2>2, AddressMap DEF LoaderTypeOK, ImageInv
    <3>2. base = LoadBase(stream[1]) + Len(stream) - HeaderSize
      BY <1>1, <2>2 DEF ImageInv
    <3>3. /\ LoadBase(stream[1]) \in Nat
          /\ LoadBase(stream[1]) >= HeaderBase + HeaderSize
      BY <3>1, HeaderFields
    <3> QED
      BY <1>2, <2>2, <3>2, <3>3, AddressMap
  <2> QED
    BY <1>2, <2>1, <2>2, AddressMap
<1>4. a \in Dram
  BY <1>2, AddressMap
<1>5. a \notin base .. base + Scratch - 1
  BY <1>2, <1>3, AddressMap
<1>6. m[a] = mem[a]
  BY <1>1, <1>4, <1>5, ScribblesFrame
<1>7. mem[a] = stream[i]
  BY DEF WholeHeaderKept
<1> QED
  BY <1>6, <1>7

LEMMA WholeHeaderKeptStep ==
  ASSUME LoaderInv, SaneHeaders, WholeHeaderKept, [LoaderNext]_loaderVars
  PROVE  WholeHeaderKept'
<1>1. Len(stream) \in Nat /\ base \in Int /\ HeaderSize \in Nat /\ HeaderSize >= 1
  BY AddressMap DEF LoaderInv, LoaderTypeOK
<1>2. CASE stream' = <<>>
  BY <1>2, AddressMap DEF WholeHeaderKept
<1>3. CASE GetBlock
  <2>1. InLoop /\ mem' \in Scribbles
    BY <1>3 DEF GetBlock
  <2>2. \A i \in 1 .. HeaderSize :
          i <= Len(stream) => mem'[HeaderBase + i - 1] = stream[i]
    BY <2>1, HeaderOutsideWindow
  <2>3. CASE stream' = stream
    BY <2>2, <2>3 DEF WholeHeaderKept
  <2>4. ASSUME NEW n \in BlockSizes, Deliverable(n), Took(n)
        PROVE  WholeHeaderKept'
    <3>1. /\ Len(stream') = Len(stream) + n
          /\ \A i \in 1 .. Len(stream) : stream'[i] = stream[i]
          /\ \A i \in Len(stream) + 1 .. Len(stream) + n :
               stream'[i] = mem'[base + i - Len(stream) - 1]
      BY <2>1, <2>4, TookStream
    <3>2. n \in Nat
      BY AddressMap
    <3> SUFFICES ASSUME NEW i \in 1 .. HeaderSize, i <= Len(stream')
                 PROVE  mem'[HeaderBase + i - 1] = stream'[i]
      BY DEF WholeHeaderKept
    <3>3. CASE i <= Len(stream)
      BY <1>1, <2>2, <3>1, <3>3
    <3>4. CASE i > Len(stream)
      <4>1. Len(stream) < HeaderSize
        BY <1>1, <3>4
      <4>2. base = HeaderBase + Len(stream)
        BY <4>1 DEF LoaderInv, HeaderInv
      <4>3. i \in Len(stream) + 1 .. Len(stream) + n
        BY <1>1, <3>1, <3>2, <3>4
      <4>4. base + i - Len(stream) - 1 = HeaderBase + i - 1
        BY <1>1, <4>2, AddressMap
      <4> QED
        BY <3>1, <4>3, <4>4
    <3> QED
      BY <1>1, <3>3, <3>4
  <2> QED
    BY <1>3, <2>3, <2>4 DEF GetBlock, Retry, Stop
<1>4. CASE UNCHANGED <<mem, stream>>
  BY <1>4 DEF WholeHeaderKept
<1> QED
  BY <1>2, <1>3, <1>4
     DEF LoaderNext, EndLoad, ImageReturns, StartLoad, loaderVars

\* However many blocks are refused, repeated or cut off, the header received
\* is in memory at DRAM_BASE while its image is loaded and when it runs
\* (main.c, lines 66 to 82 and 97).
THEOREM HeaderStays == SaneHeaders => (LoaderSpec => []WholeHeaderKept)
<1> SUFFICES ASSUME SaneHeaders PROVE LoaderSpec => []WholeHeaderKept
  OBVIOUS
<1>1. LoaderInit => WholeHeaderKept
  BY AddressMap DEF LoaderInit, WholeHeaderKept
<1>2. LoaderInv /\ WholeHeaderKept /\ [LoaderNext]_loaderVars => WholeHeaderKept'
  BY WholeHeaderKeptStep
<1>3. LoaderSpec => []LoaderInv
  BY LoaderInvariant
<1> QED
  BY <1>1, <1>2, <1>3, PTL DEF LoaderSpec

-----------------------------------------------------------------------------
(* For the sources *)

\* Where a source is asked to put a block, and the room it has there.
LEMMA BaseInDram ==
  ASSUME LoaderInv, SaneHeaders, InLoop
  PROVE  /\ base \in Nat /\ base \in Dram /\ Len(stream) \in Nat
         /\ Len(stream) < HeaderSize => base = HeaderBase + Len(stream)
         /\ Len(stream) >= HeaderSize => base + Scratch < AddrMod
<1>1. LoaderTypeOK /\ HeaderInv /\ ImageInv
  BY DEF LoaderInv
<1>2. Len(stream) \in Nat /\ base \in Int /\ base < AddrMod /\ base <= data_end
  BY <1>1, AddressMap DEF LoaderTypeOK, InLoop
<1>3. CASE Len(stream) < HeaderSize
  <2>1. base = HeaderBase + Len(stream)
    BY <1>1, <1>3 DEF HeaderInv
  <2> QED
    BY <1>2, <1>3, <2>1, AddressMap
<1>4. CASE Len(stream) >= HeaderSize
  <2> DEFINE h == stream[1]
  <2>1. h \in Data /\ IsHeader[h]
    BY <1>1, <1>2, <1>4, AddressMap DEF LoaderTypeOK, ImageInv
  <2>2. /\ base = LoadBase(h) + Len(stream) - HeaderSize
        /\ data_end = LoadBase(h) + Length[h]
    BY <1>1, <1>4 DEF ImageInv
  <2> HIDE DEF h
  <2>3. /\ Length[h] \in Nat /\ LoadBase(h) \in Nat
        /\ LoadBase(h) >= HeaderBase + HeaderSize
        /\ LoadBase(h) + Length[h] + Scratch < AddrMod
    BY <2>1, HeaderFields
  <2>4. base >= HeaderBase /\ base + Scratch < AddrMod
    BY <1>2, <1>4, <2>2, <2>3, AddressMap, SMTT(30)
  <2> QED
    BY <1>2, <1>4, <2>4, AddressMap
<1> QED
  BY <1>2, <1>3, <1>4, AddressMap

\* A source that stores nothing, or one cell at base, keeps to its window.
LEMMA NothingScribbled ==
  ASSUME LoaderTypeOK, mem' = mem PROVE mem' \in Scribbles
BY DEF LoaderTypeOK, Scribbles

\* The cells of two sequences put together.
LEMMA ConcatCells ==
  ASSUME NEW s \in Seq(Data), NEW t \in Seq(Data)
  PROVE  /\ s \o t \in Seq(Data) /\ Len(s \o t) = Len(s) + Len(t)
         /\ \A i \in 1 .. Len(s) : (s \o t)[i] = s[i]
         /\ \A i \in 1 .. Len(t) : (s \o t)[Len(s) + i] = t[i]
<1> DEFINE u == s \o t
<1>1. /\ u \in Seq(Data) /\ Len(u) = Len(s) + Len(t)
      /\ \A i \in 1 .. Len(s) : u[i] = s[i]
      /\ \A i \in Len(s) + 1 .. Len(s) + Len(t) : u[i] = t[i - Len(s)]
  BY ConcatProperties
<1>2. Len(s) \in Nat /\ Len(t) \in Nat
  BY LenProperties
<1> HIDE DEF u
<1>3. ASSUME NEW i \in 1 .. Len(t) PROVE u[Len(s) + i] = t[i]
  <2>1. Len(s) + i \in Len(s) + 1 .. Len(s) + Len(t) /\ Len(s) + i - Len(s) = i
    BY <1>2
  <2> QED
    BY <1>1, <2>1, SMTT(30)
<1> QED
  BY <1>1, <1>3 DEF u

=============================================================================
