---------------------------- MODULE BFCAllocator ----------------------------
(***************************************************************************)
(* tensorflow/core/common_runtime/bfc_allocator.{cc,h}: the best-fit       *)
(* allocator with coalescing, as operators on the state a of one           *)
(* BFCAllocator.  Each is applied with lock_ held.                         *)
(*                                                                         *)
(* Sizes and addresses are counted in units of kMinAllocationSize, of      *)
(* which every size the allocator works with is a multiple; only requests  *)
(* are in bytes.  The operators that are a relation end with the state b   *)
(* they lead to.  Handles are opaque, so the order of free_chunks_list_    *)
(* does not matter and the list is a set.  An allocation_id is only ever   *)
(* compared with -1, so the one of a chunk in use is 1.  The CHECKs of the *)
(* code that fail are remembered, by line.                                 *)
(***************************************************************************)
EXTENDS Integers, FiniteSets

CONSTANTS
    MaxAddress,   \* the device's memory is the units 0 .. MaxAddress
    kNumBins,
    kFirstRegion  \* in bytes, the 1048576 of the constructor, in scale with
                  \* the device

ASSUME BFCAssumption ==
    MaxAddress \in Nat /\ kNumBins \in Nat \ {0} /\ kFirstRegion \in Nat

kMinAllocationSize == 256
kInvalid == -1              \* kInvalidChunkHandle, kInvalidBinNum

Address == 0..MaxAddress
BinNums == 0..(kNumBins - 1)

(* RoundedBytes, and the rounding down of memory_limit_, to units.         *)
RoundedBytes(bytes) == (bytes + (kMinAllocationSize - 1)) \div kMinAllocationSize
RoundedDown(bytes) == bytes \div kMinAllocationSize

(* The backpedalled size, RoundedBytes(bytes * kBackpedalFactor).          *)
Backpedalled(bytes) == (9 * bytes + 9) \div 10

(* The floor of log2(size), at most kNumBins - 1.                          *)
BinNumForSize(size) == Cardinality({b \in 1..(kNumBins - 1) : 2^b <= size})

Chunks == [ptr : Address, size : Nat, allocation_id : {-1, 1},
           prev : Int, next : Int, bin_num : Int]
NewChunk == [ptr |-> 0, size |-> 0, allocation_id |-> -1,
             prev |-> kInvalid, next |-> kInvalid, bin_num |-> kInvalid]

(* chunks has the handles 0 .. n - 1; handles is what the regions'         *)
(* handles_ say of each address; got is what SubAllocator gave for a       *)
(* region, memory_size what the region was recorded with.                  *)
NewAllocator(total_memory, allow_growth) ==
    [chunks |-> << >>, n |-> 0, free_chunks |-> {},
     bins |-> [b \in BinNums |-> {}],
     handles |-> [p \in Address |-> kInvalid], regions |-> {},
     memory_limit |-> total_memory,
     curr |-> RoundedBytes(IF allow_growth /\ kFirstRegion < total_memory
                           THEN kFirstRegion ELSE total_memory),
     total |-> 0,
     backpedal |-> "no", bytes_in_use |-> 0, failed |-> {}]

in_use(a, h) == a.chunks[h].allocation_id # -1
Live(a) == 0..(a.n - 1) \ a.free_chunks
Failed(a, line, check) == IF check THEN a.failed ELSE a.failed \cup {line}

-----------------------------------------------------------------------------
(* AllocateChunk takes one of FreshHandles.                                *)
FreshHandles(a) == IF a.free_chunks = {} THEN {a.n} ELSE a.free_chunks

AllocateChunk(a, h) ==
    [a EXCEPT !.free_chunks = @ \ {h},
              !.n = IF h = a.n THEN @ + 1 ELSE @,
              !.chunks = IF h = a.n
                         THEN [i \in 0..h |-> IF i = h THEN NewChunk ELSE @[i]]
                         ELSE @]

InsertFreeChunkIntoBin(a, h) ==
    LET b == BinNumForSize(a.chunks[h].size)
    IN  [a EXCEPT !.chunks[h].bin_num = b, !.bins[b] = @ \cup {h},
                  !.failed = Failed(a, 436, /\ ~in_use(a, h)
                                            /\ a.chunks[h].bin_num = kInvalid)]

(* RemoveFreeChunkFromBin and RemoveFreeChunkIterFromBin.                  *)
RemoveFreeChunkFromBin(a, h) ==
    LET b == a.chunks[h].bin_num
    IN  [a EXCEPT !.chunks[h].bin_num = kInvalid,
                  !.bins = [@ EXCEPT ![b] = @ \ {h}],
                  !.failed = Failed(a, 455, /\ ~in_use(a, h)
                                            /\ b \in BinNums
                                            /\ h \in a.bins[b])]

(* The chunk i, if there is one, gets h as its previous chunk.             *)
SetNoPrev(chunks, i, h) == chunks
SetPrev(chunks, i, h) ==
    [j \in DOMAIN chunks |-> IF j = i THEN [chunks[j] EXCEPT !.prev = h]
                                      ELSE chunks[j]]

(* SplitChunk(h, num_bytes), with h_new_chunk from AllocateChunk.          *)
SplitChunk(a, h, num_bytes, h_new_chunk) ==
    LET c == a.chunks[h]
        a1 == AllocateChunk(a, h_new_chunk)
        new_chunk == [a1.chunks[h_new_chunk] EXCEPT
                        !.ptr = c.ptr + num_bytes, !.size = c.size - num_bytes,
                        !.allocation_id = -1, !.prev = h, !.next = c.next]
        chunks == [a1.chunks EXCEPT ![h_new_chunk] = new_chunk,
                                    ![h].size = num_bytes,
                                    ![h].next = h_new_chunk]
    IN  InsertFreeChunkIntoBin(
          [a1 EXCEPT !.chunks = SetPrev(chunks, c.next, h_new_chunk),
                     !.handles[new_chunk.ptr] = h_new_chunk,
                     !.failed = Failed(a1, 341, /\ ~in_use(a1, h)
                                                /\ c.bin_num = kInvalid)],
          h_new_chunk)

(* The order of a bin's free_chunks: by size, then by address.             *)
Before(a, h1, h2) ==
    \/ a.chunks[h1].size < a.chunks[h2].size
    \/ /\ a.chunks[h1].size = a.chunks[h2].size
       /\ a.chunks[h1].ptr < a.chunks[h2].ptr

(* The search of FindChunkPtr: h is the first chunk that fits, of the      *)
(* first bin that holds one, from the bin of rounded_bytes on.             *)
FitsLarger(a, b, h, rounded_bytes) ==
    h \in a.bins[b] /\ a.chunks[h].size > rounded_bytes
Fits(a, b, h, rounded_bytes) ==
    h \in a.bins[b] /\ a.chunks[h].size >= rounded_bytes
FirstFit(a, rounded_bytes, h) ==
    \E b \in BinNumForSize(rounded_bytes)..(kNumBins - 1) :
       /\ Fits(a, b, h, rounded_bytes)
       /\ \A g \in a.bins[b] : Fits(a, b, g, rounded_bytes) => ~Before(a, g, h)
       /\ \A b2 \in BinNumForSize(rounded_bytes)..(b - 1) :
             \A g \in a.bins[b2] : ~Fits(a, b2, g, rounded_bytes)
FindsNothing(a, rounded_bytes) ==
    \A b \in BinNumForSize(rounded_bytes)..(kNumBins - 1) :
       \A h \in a.bins[b] : ~Fits(a, b, h, rounded_bytes)

(* The rest of FindChunkPtr, on the chunk it found.                        *)
MustSplit(a, h, rounded_bytes) == a.chunks[h].size >= 2 * rounded_bytes
TakeChunk(a, h, rounded_bytes, h_new_chunk, b) ==
    \E a1 \in {RemoveFreeChunkFromBin(a, h)} :
    \E a2 \in {IF MustSplit(a, h, rounded_bytes)
               THEN SplitChunk(a1, h, rounded_bytes, h_new_chunk) ELSE a1} :
       b = [a2 EXCEPT !.chunks[h].allocation_id = 1,
                      !.bytes_in_use = @ + a2.chunks[h].size]

-----------------------------------------------------------------------------
(* Merge(h1, h2) and the DeleteChunk(h2) it ends with.                     *)
Merge(a, h1, h2) ==
    LET h3 == a.chunks[h2].next
        chunks == [a.chunks EXCEPT ![h1].size = @ + a.chunks[h2].size,
                                   ![h1].next = h3]
    IN  [a EXCEPT !.chunks = SetPrev(chunks, h3, h1),
                  !.handles[a.chunks[h2].ptr] = kInvalid,
                  !.free_chunks = @ \cup {h2},
                  !.failed = Failed(a, 402, /\ ~in_use(a, h1) /\ ~in_use(a, h2)
                                            /\ a.chunks[h2].prev = h1)]

(* FreeAndMaybeCoalesce(h): the next chunk is merged into h if it is free, *)
(* then h into the previous one if that is free.                           *)
Joins(a, h) == h # kInvalid /\ ~in_use(a, h)
FreeChunk(a, h) ==
    [a EXCEPT !.chunks[h].allocation_id = -1,
              !.bytes_in_use = @ - a.chunks[h].size,
              !.failed = Failed(a, 463, /\ in_use(a, h)
                                        /\ a.chunks[h].bin_num = kInvalid)]
MergeNext(a, h) ==
    LET next == a.chunks[h].next
    IN  IF Joins(a, next) THEN Merge(RemoveFreeChunkFromBin(a, next), h, next)
                          ELSE a
MergePrev(a, h) ==
    LET prev == a.chunks[h].prev
    IN  IF Joins(a, prev)
        THEN InsertFreeChunkIntoBin(
               Merge(RemoveFreeChunkFromBin(a, prev), prev, h), prev)
        ELSE InsertFreeChunkIntoBin(a, h)
FreeAndMaybeCoalesce(a, h, b) ==
    \E a1 \in {FreeChunk(a, h)} : \E a2 \in {MergeNext(a1, h)} :
       b = MergePrev(a2, h)

(* DeallocateRawInternal.                                                  *)
DeallocateRawInternal(a, ptr, b) ==
    IF a.handles[ptr] = kInvalid THEN b = [a EXCEPT !.failed = @ \cup {385}]
                                 ELSE FreeAndMaybeCoalesce(a, a.handles[ptr], b)

-----------------------------------------------------------------------------
(* Extend, up to the call of SubAllocator: what may still be asked for,    *)
(* the value curr_region_allocation_bytes_ is doubled to, the one it is to *)
(* have once there is memory, and what is asked for.                       *)
available_bytes(a) == RoundedDown(a.memory_limit) - a.total
Doubled(a, rounded_bytes, curr) ==
    \E k \in 0..rounded_bytes :
       /\ curr = a.curr * 2^k /\ curr >= rounded_bytes
       /\ k > 0 => a.curr * 2^(k - 1) < rounded_bytes
NextCurr(a, curr) == IF curr = a.curr THEN 2 * curr ELSE curr
Asked(a, curr) == IF curr <= available_bytes(a) THEN curr ELSE available_bytes(a)

(* SubAllocator may put a region anywhere it has given nothing yet.        *)
HasRoom(a, base, got) ==
    /\ got > 0 /\ base \in Address /\ base + got - 1 \in Address
    /\ \A r \in a.regions : base + got <= r.ptr \/ r.ptr + r.got <= base

(* Extend, from there: a region of bytes units, one free chunk.            *)
AddRegion(a, base, got, bytes, curr, h) ==
    LET a1 == AllocateChunk(a, h)
        c == [a1.chunks[h] EXCEPT !.ptr = base, !.size = bytes,
                !.allocation_id = -1, !.prev = kInvalid, !.next = kInvalid]
    IN  InsertFreeChunkIntoBin(
          [a1 EXCEPT !.curr = curr, !.total = @ + bytes,
                     !.regions = @ \cup {[ptr |-> base, got |-> got,
                                          memory_size |-> bytes]},
                     !.chunks[h] = c, !.handles[base] = h], h)
=============================================================================
