------------------------------- MODULE Cache --------------------------------
(***************************************************************************)
(* The caches of the CPU, the maintenance operations of cache.h, and the   *)
(* core loop (Loader) running on them: init.c prepares them, main.c        *)
(* flushes them before it calls an image.                                  *)
(*                                                                         *)
(* The data cache writes back: what is stored stays in it until its line   *)
(* is replaced.  The instruction cache fills from DRAM, not from the data  *)
(* cache, and keeps what it has.  A cell of memory stands for one line.    *)
(* Entry i of a cache holds cells of set i modulo the number of sets; the  *)
(* index operations count through all entries.                             *)
(***************************************************************************)
EXTENDS Loader

CONSTANTS
  Entries,  (* ICACHE_ENTRIES = DCACHE_ENTRIES                             *)
  ISets,    (* sets of the instruction cache                               *)
  DSets,    (* sets of the data cache                                      *)
  Garbage   (* what the entries of a cache may hold at power-up            *)

Index == 0 .. Entries - 1

Invalid     == [state |-> "invalid"]
Clean(a, d) == [state |-> "clean", tag |-> a, data |-> d]
Dirty(a, d) == [state |-> "dirty", tag |-> a, data |-> d]

Lines == {Invalid} \cup {Clean(a, d) : a \in Dram, d \in Data}
                   \cup {Dirty(a, d) : a \in Dram, d \in Data}

ASSUME CacheAssumption ==
  /\ Entries \in Nat \ {0} /\ ISets \in Nat \ {0} /\ DSets \in Nat \ {0}
  /\ Garbage \subseteq [Index -> Lines]

VARIABLES
  dram,    (* what the memory chips hold; mem is what the program sees     *)
  dcache,  (* entries of the data cache                                    *)
  icache,  (* entries of the instruction cache                             *)
  cached,  (* the caches are enabled                                       *)
  index    (* the next entry in the loop of cache_init() or cache_flush()  *)

cacheVars  == <<dram, dcache, icache, cached, index>>
cachedVars == <<loaderVars, cacheVars>>

-----------------------------------------------------------------------------

Holds(cache, i, a) == cache[i].state # "invalid" /\ cache[i].tag = a

\* What a read of cell a returns through a cache.
Through(cache, a) ==
  IF \E i \in Index : Holds(cache, i, a)
    THEN cache[CHOOSE i \in Index : Holds(cache, i, a)].data
    ELSE dram[a]

\* A load by the program, and an instruction fetch.
Loaded(a)  == IF cached THEN Through(dcache, a) ELSE dram[a]
Fetched(a) == Through(icache, a)

\* Memory after a line has been written back.
WrittenBack(line) ==
  IF line.state = "dirty" THEN [dram EXCEPT ![line.tag] = line.data] ELSE dram

\* ICACHE_INDEX_INVALIDATE, DCACHE_INDEX_INVALIDATE_WRITEBACK
InvalidateInstructions(i) == icache' = [icache EXCEPT ![i] = Invalid]

InvalidateWriteback(cache, i) ==
  /\ dram'   = WrittenBack(cache[i])
  /\ dcache' = [cache EXCEPT ![i] = Invalid]

\* Stores that make memory what mem' is: in the line, if the data cache has
\* it, else in memory.  (Stores that allocate are a Replace before.)
StoreThrough ==
  /\ dcache' = [i \in Index |->
       IF dcache[i].state # "invalid" /\ mem'[dcache[i].tag] # mem[dcache[i].tag]
         THEN Dirty(dcache[i].tag, mem'[dcache[i].tag])
         ELSE dcache[i]]
  /\ dram' = [a \in Dram |->
       IF mem'[a] # mem[a] /\ ~\E i \in Index : Holds(dcache, i, a)
         THEN mem'[a] ELSE dram[a]]
  /\ UNCHANGED icache

-----------------------------------------------------------------------------
(* The caches by themselves *)

\* An entry of the data cache is replaced at any time: by another line of its
\* set, or by a line from outside this memory.
Replace ==
  /\ cached
  /\ \E i \in Index :
       /\ dram' = WrittenBack(dcache[i])
       /\ \/ dcache' = [dcache EXCEPT ![i] = Invalid]
          \/ \E a \in Dram :
               /\ a % DSets = i % DSets
               /\ ~\E j \in Index : Holds(dcache, j, a)
               /\ dcache' = [dcache EXCEPT ![i] = Clean(a, dram[a])]
  /\ UNCHANGED <<icache, cached, index, loaderVars>>

\* The image is executed: its lines come into the instruction cache.
Fetch ==
  /\ pc = "image"
  /\ \E i \in Index, a \in Entry .. Entry + Length[Header] - 1 :
       /\ a \in Dram
       /\ a % ISets = i % ISets
       /\ ~\E j \in Index : Holds(icache, j, a)
       /\ icache' = [icache EXCEPT ![i] = Clean(a, dram[a])]
  /\ UNCHANGED <<dram, dcache, cached, index, loaderVars>>

-----------------------------------------------------------------------------
(* init.c: cache_init() and cache_enable() *)

\* Mutant: the tags are taken as they are found.
InitStepUntagged ==
  /\ ~cached /\ index < Entries
  /\ InvalidateInstructions(index)
  /\ InvalidateWriteback(dcache, index)
  /\ index' = index + 1
  /\ UNCHANGED <<cached, loaderVars>>

\* DCACHE_INDEX_STORE_TAG makes the line invalid before it is written back.
InitStep ==
  /\ ~cached /\ index < Entries
  /\ InvalidateInstructions(index)
  /\ InvalidateWriteback([dcache EXCEPT ![index] = Invalid], index)
  /\ index' = index + 1
  /\ UNCHANGED <<cached, loaderVars>>

EnableCache ==
  /\ ~cached /\ index = Entries
  /\ cached' = TRUE /\ index' = 0
  /\ UNCHANGED <<dram, dcache, icache, loaderVars>>

-----------------------------------------------------------------------------
(* main.c *)

\* A block is received, with its bytes stored through the data cache.
CachedGetBlock ==
  /\ cached
  /\ \E bytes \in [0 .. Scratch - 1 -> Data] :
       mem' = [a \in Dram |-> IF a - base \in DOMAIN bytes THEN bytes[a - base] ELSE mem[a]]
  /\ GetBlock
  /\ StoreThrough
  /\ UNCHANGED <<cached, index>>

\* load_and_call_image() has a complete image.
AtCall ==
  /\ pc = "end" \/ (pc = "loop" /\ base > data_end)
  /\ base >= data_end /\ ~expect_header

\* Mutant: what is still in the instruction cache is left there.
FlushStepDataOnly ==
  /\ cached /\ AtCall /\ index < Entries
  /\ InvalidateWriteback(dcache, index)
  /\ index' = index + 1
  /\ UNCHANGED <<icache, cached, loaderVars>>

\* cache_flush(), entry by entry.
FlushStep ==
  /\ cached /\ AtCall /\ index < Entries
  /\ InvalidateInstructions(index)
  /\ InvalidateWriteback(dcache, index)
  /\ index' = index + 1
  /\ UNCHANGED <<cached, loaderVars>>

CallImage ==
  /\ cached /\ AtCall /\ index = Entries
  /\ EndLoad
  /\ index' = 0
  /\ UNCHANGED <<dram, dcache, icache, cached>>

GiveUp ==
  /\ cached /\ ~AtCall
  /\ EndLoad
  /\ UNCHANGED cacheVars

\* The image leaves its own stores in the data cache.
CachedImageReturns ==
  /\ ImageReturns
  /\ StoreThrough
  /\ UNCHANGED <<cached, index>>

\* At power-up the caches hold anything.
CacheInit ==
  /\ LoaderInit
  /\ dram = mem
  /\ dcache \in Garbage /\ icache \in Garbage
  /\ cached = FALSE
  /\ index = 0

CacheNext ==
  \/ InitStep \/ EnableCache
  \/ CachedGetBlock \/ FlushStep \/ CallImage \/ GiveUp \/ CachedImageReturns
  \/ Replace \/ Fetch

CacheSpec == CacheInit /\ [][CacheNext]_cachedVars

-----------------------------------------------------------------------------

\* The program never notices the data cache: a load sees what was stored last,
\* through power-up, replacement, flushes and images that return.  In
\* particular the garbage of power-up is not written back over the loader or
\* the memory (init.c, lines 14 to 47, cache.h, lines 89 to 100).
LoadsSeeStores == \A a \in Dram : Loaded(a) = mem[a]

\* The CPU executes the image that was received and not what an earlier image
\* or stale memory holds at its addresses (main.c, lines 16 to 26;
\* decompress.c, lines 68 to 71).
ExecutesImage ==
  pc = "image" =>
    LET h == stream[1]
    IN  \A i \in 0 .. Length[h] - 1 :
          Fetched(LoadBase(h) + i) = stream[HeaderSize + 1 + i]

\* The invariant both rest on.  Once the caches are enabled, a line of the data
\* cache holds what the program sees, and so does memory, but for dirty lines;
\* before, only memory counts, and the lines already gone through are invalid.
MemoryInv ==
  IF cached
    THEN /\ \A i \in Index : dcache[i].state # "invalid" => dcache[i].data = mem[dcache[i].tag]
         /\ \A a \in Dram :
              (\A i \in Index : dcache[i].state = "dirty" => dcache[i].tag # a)
                => dram[a] = mem[a]
    ELSE /\ dram = mem
         /\ \A i \in Index : i < index => dcache[i] = Invalid

\* A flush has emptied the entries it has gone through, and nothing is fetched
\* or stored until it is over.
FlushInv ==
  cached /\ index > 0 =>
    /\ AtCall
    /\ \A i \in Index : i < index => icache[i] = Invalid /\ dcache[i].state # "dirty"

\* A running image has found both caches flushed.
ImageCacheInv ==
  pc = "image" =>
    /\ cached /\ index = 0
    /\ \A i \in Index : dcache[i].state # "dirty"
    /\ \A i \in Index : icache[i].state # "invalid" => icache[i].data = mem[icache[i].tag]

CacheTypeOK ==
  /\ dram \in [Dram -> Data]
  /\ dcache \in [Index -> Lines] /\ icache \in [Index -> Lines]
  /\ cached \in BOOLEAN
  /\ index \in 0 .. Entries

CacheInv == CacheTypeOK /\ MemoryInv /\ FlushInv /\ ImageCacheInv

=============================================================================
