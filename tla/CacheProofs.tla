---------------------------- MODULE CacheProofs -----------------------------
(***************************************************************************)
(* The core loop on the caches is the core loop: the data cache is never   *)
(* noticed, and an image is executed as it was received.  For every size   *)
(* of the caches, every mapping of cells to sets and every content of the  *)
(* caches at power-up.                                                     *)
(***************************************************************************)
EXTENDS Cache, LoaderProofs

\* What the caches need of the loader; it holds for any header, sane or not.
CoreOK ==
  /\ base \in Addr /\ data_end \in Addr
  /\ mem \in [Dram -> Data]

LEMMA CoreInit == LoaderInit => CoreOK
<1> SUFFICES ASSUME LoaderInit PROVE CoreOK
  OBVIOUS
<1>1. mem \in [Dram -> Data]
  BY LoaderAssumption DEF LoaderInit, LoaderAssumption
<1> QED
  BY <1>1, AddressMap DEF LoaderInit, CoreOK

\* Load addresses and ends of images are 32-bit numbers.
LEMMA HeaderInRange ==
  ASSUME NEW h \in Data
  PROVE  LoadBase(h) \in Addr /\ ImageEnd(h) \in Addr
<1>1. /\ LoadAddr[h] \in Int /\ 0 <= LoadAddr[h] /\ LoadAddr[h] < AddrMod
      /\ Length[h] \in Int
  BY LoaderAssumption, AddressMap DEF LoaderAssumption
<1>2. AddrMod = 2 * DramBase /\ DramBase \in Nat /\ AddrMod > 0
  BY AddressMap DEF AddrMod
<1>3. LoadBase(h) \in Int /\ 0 <= LoadBase(h) /\ LoadBase(h) < AddrMod
  BY <1>1, <1>2 DEF LoadBase, OrDramBase
<1>4. (LoadBase(h) + Length[h]) % AddrMod \in 0 .. AddrMod - 1
  BY <1>1, <1>2, <1>3
<1> QED
  BY <1>2, <1>3, <1>4, AddressMap DEF ImageEnd

LEMMA CoreNext ==
  ASSUME CoreOK, [LoaderNext]_loaderVars
  PROVE  CoreOK'
<1>1. HeaderBase \in Addr /\ Infinity \in Addr
  BY AddressMap
<1>2. CASE GetBlock
  <2>1. mem' \in [Dram -> Data]
    BY <1>2 DEF GetBlock, Scribbles
  <2>2. /\ LoadBase(mem'[HeaderBase]) \in Addr
        /\ ImageEnd(mem'[HeaderBase]) \in Addr
    BY <2>1, AddressMap, HeaderInRange
  <2>3. ASSUME NEW b \in Addr, Advance(b)
        PROVE  base' \in Addr /\ data_end' \in Addr
    BY <2>2, <2>3 DEF Advance, CoreOK
  <2>4. ASSUME NEW n \in BlockSizes, Took(n)
        PROVE  base' \in Addr /\ data_end' \in Addr
    <3>1. (base + n) % AddrMod \in Addr
      <4>1. base + n \in Int /\ AddrMod \in Nat /\ AddrMod > 0
        BY AddressMap DEF CoreOK
      <4>2. \A k \in Int : k % AddrMod \in 0 .. AddrMod - 1
        BY <4>1
      <4> QED
        BY <4>1, <4>2 DEF Addr
    <3>2. Advance((base + n) % AddrMod)
      BY <2>4 DEF Took
    <3> QED
      BY <2>3, <3>1, <3>2
  <2>5. CASE Retry
    BY <2>1, <2>3, <2>5 DEF Retry, CoreOK
  <2>6. CASE Stop
    BY <2>1, <2>6 DEF Stop, CoreOK
  <2> QED
    BY <1>2, <2>1, <2>4, <2>5, <2>6 DEF GetBlock, CoreOK
<1>3. CASE EndLoad
  BY <1>1, <1>3 DEF EndLoad, StartLoad, CoreOK
<1>4. CASE ImageReturns
  <2>1. mem' \in [Dram -> Data]
    BY <1>4, LoaderAssumption DEF ImageReturns, LoaderAssumption
  <2> QED
    BY <1>1, <1>4, <2>1 DEF ImageReturns, StartLoad, CoreOK
<1>5. CASE UNCHANGED loaderVars
  BY <1>5 DEF loaderVars, CoreOK
<1> QED
  BY <1>2, <1>3, <1>4, <1>5 DEF LoaderNext

-----------------------------------------------------------------------------
(* Lines *)

\* The lines of a cache, and what is in them.
LEMMA LineFacts ==
  /\ Invalid \in Lines /\ Invalid.state = "invalid"
  /\ \A a \in Dram, d \in Data :
       /\ Clean(a, d) \in Lines /\ Clean(a, d).state = "clean"
       /\ Clean(a, d).tag = a /\ Clean(a, d).data = d
       /\ Dirty(a, d) \in Lines /\ Dirty(a, d).state = "dirty"
       /\ Dirty(a, d).tag = a /\ Dirty(a, d).data = d
<1>1. Invalid \in Lines
  BY DEF Lines
<1>2. Invalid.state = "invalid"
  BY DEF Invalid
<1>3. ASSUME NEW a \in Dram, NEW d \in Data
      PROVE  /\ Clean(a, d).state = "clean" /\ Clean(a, d).tag = a /\ Clean(a, d).data = d
             /\ Dirty(a, d).state = "dirty" /\ Dirty(a, d).tag = a /\ Dirty(a, d).data = d
  BY DEF Clean, Dirty
<1>4. ASSUME NEW a \in Dram, NEW d \in Data
      PROVE  Clean(a, d) \in Lines /\ Dirty(a, d) \in Lines
  <2>1. Clean(a, d) \in {Clean(b, e) : b \in Dram, e \in Data}
    OBVIOUS
  <2>2. Dirty(a, d) \in {Dirty(b, e) : b \in Dram, e \in Data}
    OBVIOUS
  <2> QED
    BY <2>1, <2>2 DEF Lines
<1> QED
  BY <1>1, <1>2, <1>3, <1>4

LEMMA LineType ==
  ASSUME NEW l \in Lines
  PROVE  l.state # "invalid" => l.tag \in Dram /\ l.data \in Data
BY DEF Lines, Invalid, Clean, Dirty

\* A dirty line replaced takes its data to memory, and the line that comes
\* instead is read from memory: what the program sees stays what it was.
LEMMA ReplaceInv ==
  ASSUME CoreOK, CacheTypeOK, MemoryInv, cached, cached', mem' = mem,
         NEW i \in Index, NEW l \in Lines,
         \/ l = Invalid
         \/ \E a \in Dram : /\ ~\E j \in Index : Holds(dcache, j, a)
                            /\ l = Clean(a, dram[a]),
         dram' = WrittenBack(dcache[i]),
         dcache' = [dcache EXCEPT ![i] = l]
  PROVE  /\ dram' \in [Dram -> Data]
         /\ dcache' \in [Index -> Lines]
         /\ MemoryInv'
         /\ \A j \in Index : dcache'[j].state = "dirty" =>
              j # i /\ dcache[j].state = "dirty"
<1>1. /\ dram \in [Dram -> Data] /\ dcache \in [Index -> Lines]
      /\ mem \in [Dram -> Data]
  BY DEF CacheTypeOK, CoreOK
<1>2. /\ dcache' \in [Index -> Lines]
      /\ dcache'[i] = l
      /\ \A j \in Index : j # i => dcache'[j] = dcache[j]
  BY <1>1
<1>3. /\ \A j \in Index : dcache[j].state # "invalid" => dcache[j].data = mem[dcache[j].tag]
      /\ \A a \in Dram :
           (\A j \in Index : dcache[j].state = "dirty" => dcache[j].tag # a)
             => dram[a] = mem[a]
  BY DEF MemoryInv
<1>4. dcache[i].state # "invalid" => dcache[i].tag \in Dram /\ dcache[i].data \in Data
  BY <1>1, LineType
<1>5. /\ dram' \in [Dram -> Data]
      /\ \A a \in Dram :
           dram'[a] = IF dcache[i].state = "dirty" /\ dcache[i].tag = a
                        THEN dcache[i].data ELSE dram[a]
  BY <1>1, <1>4 DEF WrittenBack
<1>6. /\ l.state # "dirty"
      /\ l.state # "invalid" => l.data = mem[l.tag]
  <2>1. CASE l = Invalid
    BY <2>1, LineFacts
  <2>2. ASSUME NEW a \in Dram, ~\E j \in Index : Holds(dcache, j, a),
               l = Clean(a, dram[a])
        PROVE  l.state # "dirty" /\ l.data = mem[l.tag]
    <3>1. l.state = "clean" /\ l.tag = a /\ l.data = dram[a]
      BY <1>1, <2>2, LineFacts
    <3>2. \A j \in Index : dcache[j].state = "dirty" => dcache[j].tag # a
      BY <2>2 DEF Holds
    <3>3. dram[a] = mem[a]
      BY <1>3, <3>2
    <3> QED
      BY <3>1, <3>3
  <2> QED
    BY <2>1, <2>2
<1>7. \A j \in Index : dcache'[j].state = "dirty" => j # i /\ dcache[j].state = "dirty"
  BY <1>2, <1>6
<1>8. \A j \in Index : dcache'[j].state # "invalid" => dcache'[j].data = mem[dcache'[j].tag]
  BY <1>2, <1>3, <1>6
<1>9. ASSUME NEW a \in Dram,
             \A j \in Index : dcache'[j].state = "dirty" => dcache'[j].tag # a
      PROVE  dram'[a] = mem[a]
  <2>1. CASE dcache[i].state = "dirty" /\ dcache[i].tag = a
    BY <1>3, <1>5, <2>1
  <2>2. CASE ~(dcache[i].state = "dirty" /\ dcache[i].tag = a)
    <3>1. \A j \in Index : dcache[j].state = "dirty" => dcache[j].tag # a
      BY <1>2, <1>9, <2>2
    <3> QED
      BY <1>3, <1>5, <2>2, <3>1
  <2> QED
    BY <2>1, <2>2
<1>10. MemoryInv'
  BY <1>8, <1>9 DEF MemoryInv
<1> QED
  BY <1>2, <1>5, <1>7, <1>10

\* A store goes to the line that has the cell, which is dirty from then on, or
\* to memory if there is none.
LEMMA StoreInv ==
  ASSUME CoreOK, CacheTypeOK, MemoryInv, cached, cached',
         mem' \in [Dram -> Data], StoreThrough
  PROVE  /\ dram' \in [Dram -> Data]
         /\ dcache' \in [Index -> Lines]
         /\ MemoryInv'
<1>1. /\ dram \in [Dram -> Data] /\ dcache \in [Index -> Lines]
      /\ mem \in [Dram -> Data]
  BY DEF CacheTypeOK, CoreOK
<1>2. \A i \in Index :
        dcache[i].state # "invalid" => dcache[i].tag \in Dram /\ dcache[i].data \in Data
  BY <1>1, LineType
<1> DEFINE Changed(i) == dcache[i].state # "invalid" /\ mem'[dcache[i].tag] # mem[dcache[i].tag]
<1>3. \A i \in Index :
        dcache'[i] = IF Changed(i) THEN Dirty(dcache[i].tag, mem'[dcache[i].tag]) ELSE dcache[i]
  BY DEF StoreThrough
<1>4. ASSUME NEW i \in Index, Changed(i)
      PROVE  /\ dcache'[i] \in Lines
             /\ dcache'[i].state = "dirty" /\ dcache'[i].tag = dcache[i].tag
             /\ dcache'[i].data = mem'[dcache[i].tag]
  <2>1. dcache[i].tag \in Dram /\ mem'[dcache[i].tag] \in Data
    BY <1>2, <1>4
  <2> QED
    BY <1>3, <1>4, <2>1, LineFacts
<1>5. ASSUME NEW i \in Index, ~Changed(i)
      PROVE  dcache'[i] = dcache[i]
  BY <1>3, <1>5
<1>6. /\ \A i \in Index : dcache[i].state # "invalid" => dcache[i].data = mem[dcache[i].tag]
      /\ \A a \in Dram :
           (\A i \in Index : dcache[i].state = "dirty" => dcache[i].tag # a)
             => dram[a] = mem[a]
  BY DEF MemoryInv
<1>7. dcache' \in [Index -> Lines]
  <2>1. \A i \in Index : dcache'[i] \in Lines
    BY <1>1, <1>4, <1>5
  <2> QED
    BY <2>1 DEF StoreThrough
<1>8. /\ dram' \in [Dram -> Data]
      /\ \A a \in Dram :
           dram'[a] = IF mem'[a] # mem[a] /\ ~\E i \in Index : Holds(dcache, i, a)
                        THEN mem'[a] ELSE dram[a]
  BY <1>1 DEF StoreThrough
<1>9. ASSUME NEW i \in Index, dcache'[i].state # "invalid"
      PROVE  dcache'[i].data = mem'[dcache'[i].tag]
  <2>1. CASE Changed(i)
    BY <1>4, <2>1
  <2>2. CASE ~Changed(i)
    BY <1>5, <1>6, <1>9, <2>2
  <2> QED
    BY <2>1, <2>2
<1>10. ASSUME NEW a \in Dram,
              \A i \in Index : dcache'[i].state = "dirty" => dcache'[i].tag # a
       PROVE  dram'[a] = mem'[a]
  <2>1. \A i \in Index : Changed(i) => dcache[i].tag # a
    BY <1>4, <1>10
  <2>2. \A i \in Index : dcache[i].state = "dirty" => dcache[i].tag # a
    BY <1>5, <1>10, <2>1
  <2>3. dram[a] = mem[a]
    BY <1>6, <2>2
  <2>4. CASE \E i \in Index : Holds(dcache, i, a)
    <3>1. mem'[a] = mem[a]
      BY <2>1, <2>4 DEF Holds
    <3> QED
      BY <1>8, <2>3, <3>1
  <2>5. CASE ~\E i \in Index : Holds(dcache, i, a)
    BY <1>8, <2>3, <2>5
  <2> QED
    BY <2>4, <2>5
<1>11. MemoryInv'
  BY <1>9, <1>10 DEF MemoryInv
<1> QED
  BY <1>7, <1>8, <1>11

-----------------------------------------------------------------------------
(* The actions *)

LEMMA IndexFacts ==
  /\ Entries \in Nat /\ Entries > 0
  /\ \A i : i \in Index <=> i \in Int /\ 0 <= i /\ i < Entries
BY CacheAssumption DEF CacheAssumption, Index

\* The loop goes on only while a call of get_block() is still to come.
LEMMA InLoopIsNotAtCall == ASSUME CoreOK, InLoop PROVE ~AtCall
BY AddressMap DEF CoreOK, InLoop, AtCall

LEMMA CacheInitInv == CacheInit => CacheInv
<1> SUFFICES ASSUME CacheInit PROVE CacheInv
  OBVIOUS
<1>1. CoreOK /\ pc = "loop"
  BY CoreInit DEF CacheInit, LoaderInit
<1>2. CacheTypeOK
  <2>1. dram \in [Dram -> Data] /\ cached \in BOOLEAN /\ index = 0
    BY <1>1 DEF CacheInit, CoreOK
  <2>2. dcache \in [Index -> Lines] /\ icache \in [Index -> Lines]
    BY CacheAssumption DEF CacheInit, CacheAssumption
  <2>3. 0 \in 0 .. Entries
    BY IndexFacts
  <2> QED
    BY <2>1, <2>2, <2>3 DEF CacheTypeOK
<1>3. MemoryInv
  BY IndexFacts DEF CacheInit, MemoryInv
<1>4. FlushInv /\ ImageCacheInv
  BY <1>1 DEF CacheInit, FlushInv, ImageCacheInv
<1> QED
  BY <1>2, <1>3, <1>4 DEF CacheInv

\* Before the caches are enabled only memory counts.
LEMMA InitStepInv ==
  ASSUME CoreOK, CacheInv, InitStep
  PROVE  CacheInv'
<1>1. CacheTypeOK /\ MemoryInv /\ ImageCacheInv
  BY DEF CacheInv
<1>2. /\ ~cached /\ cached' = cached /\ index \in Int /\ 0 <= index /\ index < Entries
      /\ index \in Index /\ index' = index + 1
      /\ pc # "image" /\ UNCHANGED loaderVars
  BY <1>1, IndexFacts DEF InitStep, CacheTypeOK, ImageCacheInv
<1> DEFINE d == [dcache EXCEPT ![index] = Invalid]
<1>3. d \in [Index -> Lines] /\ d[index] = Invalid
  BY <1>1, <1>2, LineFacts DEF CacheTypeOK
<1>4. dram' = dram
  BY <1>3, LineFacts DEF InitStep, InvalidateWriteback, WrittenBack
<1>5. dcache' \in [Index -> Lines] /\ dcache' = d
  BY <1>1, <1>2, <1>3, LineFacts DEF InitStep, InvalidateWriteback
<1>6. icache' \in [Index -> Lines]
  BY <1>1, <1>2, LineFacts DEF InitStep, InvalidateInstructions, CacheTypeOK
<1>7. CacheTypeOK'
  <2>1. index' \in 0 .. Entries
    BY <1>2, IndexFacts
  <2>2. cached' \in BOOLEAN
    BY <1>1, <1>2 DEF CacheTypeOK
  <2> HIDE DEF d
  <2> QED
    BY <1>1, <1>4, <1>5, <1>6, <2>1, <2>2 DEF CacheTypeOK
<1>8. MemoryInv'
  <2>1. dram = mem /\ \A i \in Index : i < index => dcache[i] = Invalid
    BY <1>1, <1>2 DEF MemoryInv
  <2>2. \A i \in Index : i < index + 1 => i = index \/ i < index
    BY <1>2, IndexFacts
  <2>3. \A i \in Index : i < index' => dcache'[i] = Invalid
    BY <1>1, <1>2, <1>5, <2>1, <2>2 DEF CacheTypeOK
  <2> QED
    BY <1>2, <1>4, <2>1, <2>3 DEF MemoryInv, loaderVars
<1> QED
  BY <1>2, <1>7, <1>8 DEF CacheInv, FlushInv, ImageCacheInv, loaderVars

\* The caches are enabled empty.
LEMMA EnableCacheInv ==
  ASSUME CoreOK, CacheInv, EnableCache
  PROVE  CacheInv'
<1>1. CacheTypeOK /\ MemoryInv /\ ImageCacheInv
  BY DEF CacheInv
<1>2. /\ ~cached /\ cached' /\ cached' = TRUE /\ index = Entries /\ index' = 0
      /\ pc # "image" /\ UNCHANGED <<dram, dcache, icache, loaderVars>>
  BY <1>1 DEF EnableCache, ImageCacheInv
<1>3. CacheTypeOK'
  BY <1>1, <1>2, IndexFacts DEF CacheTypeOK
<1>4. dram = mem /\ \A i \in Index : dcache[i] = Invalid
  BY <1>1, <1>2, IndexFacts DEF MemoryInv
<1>5. MemoryInv'
  BY <1>2, <1>4, LineFacts DEF MemoryInv, loaderVars
<1> QED
  BY <1>2, <1>3, <1>5 DEF CacheInv, FlushInv, ImageCacheInv, loaderVars

LEMMA CachedGetBlockInv ==
  ASSUME CoreOK, CacheInv, CachedGetBlock
  PROVE  CacheInv'
<1>1. CacheTypeOK /\ MemoryInv /\ FlushInv
  BY DEF CacheInv
<1>2. /\ cached /\ cached' = cached /\ index' = index /\ GetBlock
      /\ StoreThrough /\ icache' = icache
  BY DEF CachedGetBlock, StoreThrough
<1>3. index = 0
  BY <1>1, <1>2, InLoopIsNotAtCall, IndexFacts
     DEF GetBlock, FlushInv, CacheTypeOK
<1>4. mem' \in [Dram -> Data]
  BY <1>2 DEF GetBlock, Scribbles
<1>5. dram' \in [Dram -> Data] /\ dcache' \in [Index -> Lines] /\ MemoryInv'
  BY <1>1, <1>2, <1>4, StoreInv
<1>6. CacheTypeOK'
  BY <1>1, <1>2, <1>5 DEF CacheTypeOK
<1>7. pc' # "image"
  BY <1>2 DEF GetBlock, Took, Retry, Stop, Advance
<1> QED
  BY <1>2, <1>3, <1>5, <1>6, <1>7 DEF CacheInv, FlushInv, ImageCacheInv

\* The flush takes one more line of both caches away.
LEMMA FlushStepInv ==
  ASSUME CoreOK, CacheInv, FlushStep
  PROVE  CacheInv'
<1>1. CacheTypeOK /\ MemoryInv /\ FlushInv
  BY DEF CacheInv
<1>2. /\ cached /\ cached' /\ cached' = cached /\ index \in Int /\ 0 <= index
      /\ index < Entries /\ index \in Index /\ index' = index + 1
      /\ AtCall /\ UNCHANGED loaderVars
  BY <1>1, IndexFacts DEF FlushStep, CacheTypeOK
<1>3. mem' = mem /\ AtCall' /\ pc' # "image"
  BY <1>2 DEF AtCall, loaderVars
<1>4. /\ dram' = WrittenBack(dcache[index])
      /\ dcache' = [dcache EXCEPT ![index] = Invalid]
      /\ icache' = [icache EXCEPT ![index] = Invalid]
  BY DEF FlushStep, InvalidateWriteback, InvalidateInstructions
<1>5. /\ dram' \in [Dram -> Data]
      /\ dcache' \in [Index -> Lines]
      /\ MemoryInv'
      /\ \A j \in Index : dcache'[j].state = "dirty" =>
           j # index /\ dcache[j].state = "dirty"
  BY <1>1, <1>2, <1>3, <1>4, ReplaceInv, LineFacts
<1>6. /\ icache' \in [Index -> Lines] /\ icache'[index] = Invalid
      /\ \A j \in Index : j # index => icache'[j] = icache[j]
  BY <1>1, <1>2, <1>4, LineFacts DEF CacheTypeOK
<1>7. CacheTypeOK'
  BY <1>1, <1>2, <1>5, <1>6, IndexFacts DEF CacheTypeOK
<1>8. \A i \in Index : i < index =>
        icache[i] = Invalid /\ dcache[i].state # "dirty"
  BY <1>1, <1>2, IndexFacts DEF FlushInv
<1>9. \A i \in Index : i < index + 1 => i = index \/ i < index
  BY <1>2, IndexFacts
<1>10. FlushInv'
  BY <1>2, <1>3, <1>5, <1>6, <1>8, <1>9 DEF FlushInv
<1> QED
  BY <1>3, <1>5, <1>7, <1>10 DEF CacheInv, ImageCacheInv

\* The image is called with both caches flushed.
LEMMA CallImageInv ==
  ASSUME CoreOK, CacheInv, CallImage
  PROVE  CacheInv'
<1>1. CacheTypeOK /\ MemoryInv /\ FlushInv
  BY DEF CacheInv
<1>2. /\ cached /\ cached' = cached /\ index = Entries /\ index' = 0
      /\ mem' = mem /\ UNCHANGED <<dram, dcache, icache>>
  BY DEF CallImage, EndLoad
<1>3. CacheTypeOK' /\ MemoryInv'
  BY <1>1, <1>2, IndexFacts DEF CacheTypeOK, MemoryInv
<1>4. \A i \in Index : icache[i] = Invalid /\ dcache[i].state # "dirty"
  BY <1>1, <1>2, IndexFacts DEF FlushInv
<1>5. ImageCacheInv'
  BY <1>2, <1>4, LineFacts DEF ImageCacheInv
<1> QED
  BY <1>2, <1>3, <1>5, IndexFacts DEF CacheInv, FlushInv

LEMMA GiveUpInv ==
  ASSUME CoreOK, CacheInv, GiveUp
  PROVE  CacheInv'
<1>1. CacheTypeOK /\ MemoryInv /\ FlushInv
  BY DEF CacheInv
<1>2. /\ cached /\ ~AtCall /\ mem' = mem
      /\ UNCHANGED <<dram, dcache, icache, cached, index>>
  BY DEF GiveUp, EndLoad, cacheVars
<1>3. pc' = "loop"
  BY DEF GiveUp, EndLoad, StartLoad, AtCall
<1>4. index = 0
  BY <1>1, <1>2, IndexFacts DEF FlushInv, CacheTypeOK
<1>5. CacheTypeOK' /\ MemoryInv'
  BY <1>1, <1>2 DEF CacheTypeOK, MemoryInv
<1> QED
  BY <1>2, <1>3, <1>4, <1>5 DEF CacheInv, FlushInv, ImageCacheInv

LEMMA CachedImageReturnsInv ==
  ASSUME CoreOK, CacheInv, CachedImageReturns
  PROVE  CacheInv'
<1>1. CacheTypeOK /\ MemoryInv /\ ImageCacheInv
  BY DEF CacheInv
<1>2. /\ cached /\ cached' = cached /\ index = 0 /\ index' = index
      /\ StoreThrough /\ icache' = icache
  BY <1>1 DEF CachedImageReturns, ImageReturns, StoreThrough, ImageCacheInv
<1>3. mem' \in [Dram -> Data]
  BY LoaderAssumption
     DEF CachedImageReturns, ImageReturns, LoaderAssumption
<1>4. dram' \in [Dram -> Data] /\ dcache' \in [Index -> Lines] /\ MemoryInv'
  BY <1>1, <1>2, <1>3, StoreInv
<1>5. CacheTypeOK'
  BY <1>1, <1>2, <1>4 DEF CacheTypeOK
<1>6. pc' # "image"
  BY DEF CachedImageReturns, ImageReturns, StartLoad
<1> QED
  BY <1>2, <1>4, <1>5, <1>6 DEF CacheInv, FlushInv, ImageCacheInv

\* A replacement may come between any two steps of a flush.
LEMMA CacheReplaceInv ==
  ASSUME CoreOK, CacheInv, Replace
  PROVE  CacheInv'
<1>1. CacheTypeOK /\ MemoryInv /\ FlushInv /\ ImageCacheInv
  BY DEF CacheInv
<1>2. cached /\ cached' /\ UNCHANGED <<icache, cached, index, loaderVars>>
  BY DEF Replace
<1>3. mem' = mem /\ pc' = pc /\ AtCall' = AtCall
  BY <1>2 DEF AtCall, loaderVars
<1>4. PICK i \in Index, l \in Lines :
        /\ dram' = WrittenBack(dcache[i])
        /\ dcache' = [dcache EXCEPT ![i] = l]
        /\ \/ l = Invalid
           \/ \E a \in Dram : /\ ~\E j \in Index : Holds(dcache, j, a)
                              /\ l = Clean(a, dram[a])
  <2>1. PICK i \in Index :
          /\ dram' = WrittenBack(dcache[i])
          /\ \/ dcache' = [dcache EXCEPT ![i] = Invalid]
             \/ \E a \in Dram :
                  /\ ~\E j \in Index : Holds(dcache, j, a)
                  /\ dcache' = [dcache EXCEPT ![i] = Clean(a, dram[a])]
    BY DEF Replace
  <2>2. \A a \in Dram : Clean(a, dram[a]) \in Lines
    BY <1>1, LineFacts DEF CacheTypeOK
  <2> QED
    BY <2>1, <2>2, LineFacts
<1>5. /\ dram' \in [Dram -> Data]
      /\ dcache' \in [Index -> Lines]
      /\ MemoryInv'
      /\ \A j \in Index : dcache'[j].state = "dirty" =>
           j # i /\ dcache[j].state = "dirty"
  BY <1>1, <1>2, <1>3, <1>4, ReplaceInv
<1>6. CacheTypeOK'
  BY <1>1, <1>2, <1>5 DEF CacheTypeOK
<1>7. FlushInv'
  BY <1>1, <1>2, <1>3, <1>5 DEF FlushInv
<1>8. ImageCacheInv'
  BY <1>1, <1>2, <1>3, <1>5 DEF ImageCacheInv
<1> QED
  BY <1>5, <1>6, <1>7, <1>8 DEF CacheInv

\* With no dirty line left, an instruction fetched from memory is the one the
\* program stored.
LEMMA FetchInv ==
  ASSUME CoreOK, CacheInv, Fetch
  PROVE  CacheInv'
<1>1. CacheTypeOK /\ MemoryInv /\ ImageCacheInv
  BY DEF CacheInv
<1>2. /\ pc = "image" /\ cached /\ index = 0
      /\ \A i \in Index : dcache[i].state # "dirty"
      /\ \A i \in Index : icache[i].state # "invalid" => icache[i].data = mem[icache[i].tag]
      /\ UNCHANGED <<dram, dcache, cached, index, loaderVars>>
  BY <1>1 DEF Fetch, ImageCacheInv
<1>3. PICK i \in Index, a \in Dram : icache' = [icache EXCEPT ![i] = Clean(a, dram[a])]
  BY DEF Fetch
<1>4. dram[a] = mem[a] /\ dram[a] \in Data
  BY <1>1, <1>2 DEF MemoryInv, CacheTypeOK
<1>5. /\ icache' \in [Index -> Lines]
      /\ \A j \in Index : icache'[j] = IF j = i THEN Clean(a, dram[a]) ELSE icache[j]
  BY <1>1, <1>3, <1>4, LineFacts DEF CacheTypeOK
<1>6. CacheTypeOK' /\ MemoryInv'
  BY <1>1, <1>2, <1>5 DEF CacheTypeOK, MemoryInv, loaderVars
<1>7. \A j \in Index : icache'[j].state # "invalid" => icache'[j].data = mem[icache'[j].tag]
  <2> SUFFICES ASSUME NEW j \in Index, icache'[j].state # "invalid"
               PROVE  icache'[j].data = mem[icache'[j].tag]
    OBVIOUS
  <2>1. CASE j = i
    BY <1>4, <1>5, <2>1, LineFacts
  <2>2. CASE j # i
    BY <1>2, <1>5, <2>2
  <2> QED
    BY <2>1, <2>2
<1>8. ImageCacheInv'
  BY <1>2, <1>7 DEF ImageCacheInv, loaderVars
<1> QED
  BY <1>2, <1>6, <1>8 DEF CacheInv, FlushInv

LEMMA CacheNextInv ==
  ASSUME CoreOK, CacheInv, [CacheNext]_cachedVars
  PROVE  CacheInv'
<1>1. CASE UNCHANGED cachedVars
  BY <1>1 DEF cachedVars, cacheVars, loaderVars, CacheInv, CacheTypeOK, MemoryInv,
              FlushInv, ImageCacheInv, AtCall
<1> QED
  BY <1>1, InitStepInv, EnableCacheInv, CachedGetBlockInv, FlushStepInv,
     CallImageInv, GiveUpInv, CachedImageReturnsInv, CacheReplaceInv, FetchInv
     DEF CacheNext

-----------------------------------------------------------------------------
(* The theorems *)

LEMMA CachedStep == [CacheNext]_cachedVars => [LoaderNext]_loaderVars
<1> SUFFICES ASSUME [CacheNext]_cachedVars PROVE [LoaderNext]_loaderVars
  OBVIOUS
<1>1. CASE InitStep \/ EnableCache \/ FlushStep \/ Replace \/ Fetch
  BY <1>1 DEF InitStep, EnableCache, FlushStep, Replace, Fetch
<1>2. CASE CachedGetBlock
  BY <1>2 DEF CachedGetBlock, LoaderNext
<1>3. CASE CallImage \/ GiveUp
  BY <1>3 DEF CallImage, GiveUp, LoaderNext
<1>4. CASE CachedImageReturns
  BY <1>4 DEF CachedImageReturns, LoaderNext
<1>5. CASE UNCHANGED cachedVars
  BY <1>5 DEF cachedVars
<1> QED
  BY <1>1, <1>2, <1>3, <1>4, <1>5 DEF CacheNext

\* The core loop on the caches, with its flush entry by entry, implements the
\* core loop on plain memory: every theorem of LoaderProofs holds of it.
THEOREM CachedLoaderIsLoader == CacheSpec => LoaderSpec
<1>1. CacheInit => LoaderInit
  BY DEF CacheInit
<1> QED
  BY <1>1, CachedStep, PTL DEF CacheSpec, LoaderSpec

\* The invariant of the caches holds whatever the headers say.
THEOREM CacheInvariant == CacheSpec => [](CoreOK /\ CacheInv)
<1>1. CacheInit => CoreOK /\ CacheInv
  BY CoreInit, CacheInitInv DEF CacheInit
<1>2. CoreOK /\ CacheInv /\ [CacheNext]_cachedVars => (CoreOK /\ CacheInv)'
  BY CoreNext, CacheNextInv, CachedStep
<1> QED
  BY <1>1, <1>2, PTL DEF CacheSpec

LEMMA InvLoadsSeeStores == CacheInv => LoadsSeeStores
<1> SUFFICES ASSUME CacheInv, NEW a \in Dram PROVE Loaded(a) = mem[a]
  BY DEF LoadsSeeStores
<1>1. MemoryInv
  BY DEF CacheInv
<1>2. CASE ~cached
  BY <1>1, <1>2 DEF MemoryInv, Loaded
<1>3. CASE cached /\ \E i \in Index : Holds(dcache, i, a)
  <2> DEFINE i == CHOOSE i \in Index : Holds(dcache, i, a)
  <2>1. i \in Index /\ Holds(dcache, i, a)
    BY <1>3
  <2>2. Loaded(a) = dcache[i].data
    BY <1>3 DEF Loaded, Through
  <2> HIDE DEF i
  <2> QED
    BY <1>1, <1>3, <2>1, <2>2 DEF MemoryInv, Holds
<1>4. CASE cached /\ ~\E i \in Index : Holds(dcache, i, a)
  <2>1. dram[a] = mem[a]
    BY <1>1, <1>4 DEF MemoryInv, Holds
  <2> QED
    BY <1>4, <2>1 DEF Loaded, Through
<1> QED
  BY <1>2, <1>3, <1>4

\* The data cache is never noticed: from power-up on, whatever it holds then,
\* and through flushes, replacements and returning images.
THEOREM DataCacheUnseen == CacheSpec => []LoadsSeeStores
BY CacheInvariant, InvLoadsSeeStores, PTL

\* While an image runs, an instruction fetch sees what was stored last.
LEMMA FetchesSeeStores ==
  ASSUME CacheInv, pc = "image", NEW a \in Dram
  PROVE  Fetched(a) = mem[a]
<1>1. MemoryInv /\ ImageCacheInv
  BY DEF CacheInv
<1>2. CASE \E i \in Index : Holds(icache, i, a)
  <2> DEFINE i == CHOOSE i \in Index : Holds(icache, i, a)
  <2>1. i \in Index /\ Holds(icache, i, a)
    BY <1>2
  <2>2. Fetched(a) = icache[i].data
    BY <1>2 DEF Fetched, Through
  <2> HIDE DEF i
  <2> QED
    BY <1>1, <2>1, <2>2 DEF ImageCacheInv, Holds
<1>3. CASE ~\E i \in Index : Holds(icache, i, a)
  <2>1. dram[a] = mem[a]
    BY <1>1 DEF MemoryInv, ImageCacheInv
  <2> QED
    BY <1>3, <2>1 DEF Fetched, Through
<1> QED
  BY <1>2, <1>3

LEMMA InvExecutesImage ==
  ASSUME SaneHeaders, LoaderInv, CacheInv
  PROVE  ExecutesImage
<1> DEFINE h == stream[1]
<1> SUFFICES ASSUME pc = "image", NEW i \in 0 .. Length[h] - 1
             PROVE  Fetched(LoadBase(h) + i) = stream[HeaderSize + 1 + i]
  BY DEF ExecutesImage
<1>1. /\ Len(stream) >= HeaderSize + Length[h] /\ IsHeader[h]
      /\ mem[LoadBase(h) + i] = stream[HeaderSize + 1 + i]
  BY InvImageComplete DEF ImageComplete
<1>2. h \in Data
  <2>1. LoaderTypeOK /\ HeaderInv /\ Len(stream) \in Nat
    BY DEF LoaderInv, LoaderTypeOK
  <2>2. ~(Len(stream) < HeaderSize)
    BY <2>1 DEF HeaderInv
  <2> QED
    BY <2>1, <2>2, AddressMap DEF LoaderTypeOK
<1> HIDE DEF h
<1>3. /\ Length[h] \in Nat /\ LoadBase(h) \in Nat
      /\ LoadBase(h) >= HeaderBase + HeaderSize
      /\ LoadBase(h) + Length[h] + Scratch < AddrMod
  BY <1>1, <1>2, HeaderFields
<1>4. LoadBase(h) + i \in Dram
  <2>1. LoadBase(h) + i \in Int /\ DramBase <= LoadBase(h) + i
    BY <1>3, AddressMap
  <2>2. LoadBase(h) + i < AddrMod
    BY <1>3, AddressMap
  <2> QED
    BY <2>1, <2>2, AddressMap
<1> QED
  BY <1>1, <1>4, FetchesSeeStores

\* What the CPU executes is the image as it was received, up to the length
\* its header names: neither stale instructions nor bytes still in the data
\* cache get in between.
THEOREM ImageIsExecuted == SaneHeaders => (CacheSpec => []ExecutesImage)
<1> SUFFICES ASSUME SaneHeaders PROVE CacheSpec => []ExecutesImage
  OBVIOUS
<1>1. LoaderInv /\ CacheInv => ExecutesImage
  BY InvExecutesImage
<1> QED
  BY <1>1, CachedLoaderIsLoader, LoaderInvariant, CacheInvariant, PTL

=============================================================================
