--------------------------- MODULE AllocatorRetry ---------------------------
(***************************************************************************)
(* BFCAllocator::AllocateRaw and DeallocateRaw called by several threads,  *)
(* with the waiting of tensorflow/core/common_runtime/allocator_retry.cc   *)
(* when there is no memory.                                                *)
(*                                                                         *)
(* What a call does under lock_ is one step, but for the loop of Extend    *)
(* that asks SubAllocator for less and less, which is one step each time   *)
(* round.  A request for 0 bytes changes nothing and is left out.          *)
(***************************************************************************)
EXTENDS BFCAllocator, Sequences

CONSTANTS
    Thread,        \* those that call DeallocateRaw
    Client,        \* those of them that call AllocateRaw as well
    Nobody,
    Base,          \* where SubAllocator may put a region
    Stream,        \* of the device
    Scenarios      \* what the clients will ask for, total_memory in bytes,
                   \* allow_growth, and in units the sizes SubAllocator
                   \* refuses

(* A call of AllocateRaw, with no_retry_on_failure ("once") or without     *)
(* ("fast"), and what is done with the memory: it is freed, or a kernel on *)
(* a stream uses it and the event manager frees it or calls back.          *)
Request ==
    [bytes : Nat \ {0}, try : {"once", "fast"},
     use : {"free", "buffer", "tensors", "execute"}, stream : Stream]

NoRequest == [bytes |-> 0, try |-> "once", use |-> "free", stream |-> Nobody]

ASSUME RetryAssumption ==
    /\ Client \subseteq Thread /\ Nobody \notin Thread
    /\ \A x \in Scenarios :
          /\ x.plan \in [Client -> Seq(Request)]
          /\ x.refused \subseteq Nat /\ x.allow_growth \in BOOLEAN
          /\ x.total_memory \in Nat
    /\ Base \subseteq Address

VARIABLES
    bfc,        \* the allocator
    lock_,      \* who keeps lock_ from one step to the next
    refused,    \* the sizes SubAllocator refuses
    plan, ask,  \* Client -> its further requests, the one it is at
    pc, todo,   \* of a thread: where it is, what FreeMemory has to do still
    try,        \* Client -> which of its attempts this is
    late,       \* Client -> whether its deadline has passed
    bytes, curr,\* Client -> of Extend: bytes, and curr_... if it succeeds
    mem         \* Client -> the address it was given, or kInvalid

asks == <<refused, plan, ask>>
calls == <<asks, try, late, bytes, curr>>
retry_vars == <<bfc, lock_, pc, todo, calls, mem>>

(* Where a thread goes on when it has nothing to free.                     *)
Home(t) == CASE t \notin Client -> "poll"
             [] mem[t] = kInvalid -> "idle"
             [] OTHER -> "holds"

RetryInit ==
    /\ \E x \in Scenarios :
       /\ bfc = NewAllocator(x.total_memory, x.allow_growth)
       /\ plan = x.plan /\ refused = x.refused
    /\ lock_ = Nobody
    /\ ask = [c \in Client |-> NoRequest]
    /\ pc = [t \in Thread |-> IF t \in Client THEN "idle" ELSE "poll"]
    /\ todo = [t \in Thread |-> << >>]
    /\ try = [c \in Client |-> "none"]
    /\ late = [c \in Client |-> "no"]
    /\ bytes = [c \in Client |-> 0]
    /\ curr = [c \in Client |-> 0]
    /\ mem = [c \in Client |-> kInvalid]

Goto(t, place) == pc' = [pc EXCEPT ![t] = place]
rounded_bytes(c) == RoundedBytes(ask[c].bytes)

(* AllocateRaw is called.                                                  *)
AllocateRaw(c) ==
    /\ pc[c] = "idle" /\ plan[c] # << >>
    /\ ask' = [ask EXCEPT ![c] = Head(plan[c])]
    /\ try' = [try EXCEPT ![c] = Head(plan[c]).try]
    /\ plan' = [plan EXCEPT ![c] = Tail(@)]
    /\ late' = [late EXCEPT ![c] = "no"]
    /\ Goto(c, "attempt")
    /\ UNCHANGED <<bfc, lock_, refused, todo, bytes, curr, mem>>

(* AllocateRawInternal returns the first chunk that fits, in state a.      *)
Gets(c, a) ==
    /\ \E h \in Live(a), h_new \in FreshHandles(a) :
       /\ FirstFit(a, rounded_bytes(c), h)
       /\ TakeChunk(a, h, rounded_bytes(c), h_new, bfc')
       /\ mem' = [mem EXCEPT ![c] = a.chunks[h].ptr]
    /\ try' = [try EXCEPT ![c] = "none"]
    /\ Goto(c, "holds")

(* AllocateRawInternal returns null.                                       *)
Fails(c, a) ==
    /\ bfc' = a
    /\ try' = [try EXCEPT ![c] = CASE @ = "fast" -> "first"
                                   [] @ \in {"first", "again"} -> @
                                   [] OTHER -> "none"]
    /\ Goto(c, CASE try[c] = "fast" -> "attempt"
                 [] try[c] \in {"first", "again"} -> "failed"
                 [] OTHER -> "idle")
    /\ UNCHANGED mem

(* The second FindChunkPtr, of a that Extend has added a region to.        *)
SearchAgain(c, a) ==
    IF FindsNothing(a, rounded_bytes(c)) THEN Fails(c, a) ELSE Gets(c, a)

-----------------------------------------------------------------------------
(* AllocateRawInternal finds a chunk at once.                              *)
FindChunkPtr(c) ==
    /\ pc[c] = "attempt" /\ lock_ = Nobody
    /\ Gets(c, bfc)
    /\ UNCHANGED <<lock_, todo, asks, late, bytes, curr>>

(* It does not, and Extend has no memory to ask for.                       *)
NoMoreMemory(c) ==
    /\ pc[c] = "attempt" /\ lock_ = Nobody
    /\ FindsNothing(bfc, rounded_bytes(c))
    /\ rounded_bytes(c) > available_bytes(bfc)
    /\ Fails(c, bfc)
    /\ UNCHANGED <<lock_, todo, asks, late, bytes, curr>>

Extends(c, k) ==
    /\ pc[c] = "attempt" /\ lock_ = Nobody
    /\ FindsNothing(bfc, rounded_bytes(c))
    /\ rounded_bytes(c) <= available_bytes(bfc)
    /\ Doubled(bfc, rounded_bytes(c), k)

Doublings == {bfc.curr * 2^k : k \in 0..RoundedDown(bfc.memory_limit)}

(* SubAllocator, external: there are sizes it refuses, and it may have no  *)
(* room for the others.                                                    *)
Refuses(a, n) ==
    n \in refused \/ \A base \in Base : ~HasRoom(a, base, n)

(* Extend gets what it asks for.                                           *)
Extend(c) ==
    /\ \E k \in Doublings :
       /\ Extends(c, k)
       /\ \E base \in Base, h \in FreshHandles(bfc) :
          /\ ~Refuses(bfc, Asked(bfc, k)) /\ HasRoom(bfc, base, Asked(bfc, k))
          /\ \E a \in {AddRegion(bfc, base, Asked(bfc, k), Asked(bfc, k),
                                 NextCurr(bfc, k), h)} : SearchAgain(c, a)
    /\ UNCHANGED <<lock_, todo, asks, late, bytes, curr>>

(* It is refused, and may not ask for less: "Only backpedal once".         *)
ExtendFails(c) ==
    /\ bfc.backpedal = "yes"
    /\ \E k \in Doublings :
       /\ Extends(c, k) /\ Refuses(bfc, Asked(bfc, k))
       /\ Fails(c, [bfc EXCEPT !.curr = k])
    /\ UNCHANGED <<lock_, todo, asks, late, bytes, curr>>

StartBackpedal(c) ==
    /\ bfc.backpedal = "no"
    /\ \E k \in Doublings :
       /\ Extends(c, k) /\ Refuses(bfc, Asked(bfc, k))
       /\ bfc' = [bfc EXCEPT !.curr = k, !.backpedal = "yes"]
       /\ bytes' = [bytes EXCEPT ![c] = Backpedalled(Asked(bfc, k))]
       /\ curr' = [curr EXCEPT ![c] = NextCurr(bfc, k)]
    /\ lock_' = c /\ Goto(c, "backpedal")
    /\ UNCHANGED <<todo, asks, try, late, mem>>

(* The loop: its Alloc succeeds, or does not, or the loop is over.  The    *)
(* size is reduced after an Alloc that succeeds as well.                   *)
BackpedalGets(c) ==
    /\ pc[c] = "backpedal" /\ bytes[c] > rounded_bytes(c)
    /\ \E base \in Base, h \in FreshHandles(bfc) :
       /\ ~Refuses(bfc, bytes[c]) /\ HasRoom(bfc, base, bytes[c])
       /\ \E a \in {AddRegion(bfc, base, bytes[c], Backpedalled(bytes[c]),
                              curr[c], h)} : SearchAgain(c, a)
    /\ lock_' = Nobody
    /\ UNCHANGED <<todo, asks, late, bytes, curr>>

Backpedal(c) ==
    /\ pc[c] = "backpedal" /\ bytes[c] > rounded_bytes(c)
    /\ Refuses(bfc, bytes[c])
    /\ bytes' = [bytes EXCEPT ![c] = Backpedalled(@)]
    /\ UNCHANGED <<bfc, lock_, pc, todo, asks, try, late, curr, mem>>

BackpedalFails(c) ==
    /\ pc[c] = "backpedal" /\ bytes[c] <= rounded_bytes(c)
    /\ Fails(c, bfc) /\ lock_' = Nobody
    /\ UNCHANGED <<todo, asks, late, bytes, curr>>

-----------------------------------------------------------------------------
(* AllocatorRetry::AllocateRaw after a failure, outside lock_: it waits on *)
(* memory_returned_, or tries for the last time.                           *)
WaitForMilliseconds(c) ==
    /\ pc[c] = "failed"
    /\ IF try[c] = "again" /\ late[c] = "yes"
       THEN Goto(c, "attempt") /\ try' = [try EXCEPT ![c] = "last"]
       ELSE Goto(c, "waiting") /\ try' = [try EXCEPT ![c] = "again"]
    /\ UNCHANGED <<bfc, lock_, todo, asks, late, bytes, curr, mem>>

DeadlinePasses(c) ==
    /\ try[c] = "again" /\ late[c] = "no"
    /\ late' = [late EXCEPT ![c] = "yes"]
    /\ UNCHANGED <<bfc, lock_, pc, todo, asks, try, bytes, curr, mem>>

(* The wait is over by itself: at the deadline, or sooner, as it is of     *)
(* whole milliseconds and a condition variable may wake for nothing.       *)
NeverTimesOut(c) ==
    /\ pc[c] = "waiting" /\ FALSE
    /\ Goto(c, "attempt") /\ UNCHANGED <<bfc, lock_, todo, calls, mem>>
TimesOut(c) ==
    /\ pc[c] = "waiting"
    /\ Goto(c, "attempt")
    /\ UNCHANGED <<bfc, lock_, todo, calls, mem>>

(* DeallocateRaw: the release under lock_, then NotifyDealloc.             *)
Release(c) ==
    /\ pc[c] = "holds"
    /\ todo' = [todo EXCEPT ![c] = <<<<"free", mem[c]>>>>]
    /\ mem' = [mem EXCEPT ![c] = kInvalid]
    /\ Goto(c, "free")
    /\ UNCHANGED <<bfc, lock_, calls>>

DeallocateRaw(t) ==
    /\ pc[t] = "free" /\ lock_ = Nobody
    /\ Head(todo[t])[1] = "free"
    /\ DeallocateRawInternal(bfc, Head(todo[t])[2], bfc')
    /\ todo' = [todo EXCEPT ![t] = Tail(@)]
    /\ Goto(t, "notify")
    /\ UNCHANGED <<lock_, calls, mem>>

DoneAfterOne(t) == Home(t)
Done(t) == IF todo[t] = << >> THEN Home(t) ELSE "free"

NotifyDealloc(t) ==
    /\ pc[t] = "notify"
    /\ pc' = [u \in Thread |-> IF u = t THEN Done(t)
                               ELSE IF pc[u] = "waiting" THEN "attempt"
                               ELSE pc[u]]
    /\ UNCHANGED <<bfc, lock_, todo, calls, mem>>

-----------------------------------------------------------------------------
Attempt(c) ==
    \/ FindChunkPtr(c) \/ NoMoreMemory(c) \/ Extend(c) \/ ExtendFails(c)
    \/ StartBackpedal(c)
    \/ BackpedalGets(c) \/ Backpedal(c) \/ BackpedalFails(c)

CallStep(c) ==
    Attempt(c) \/ WaitForMilliseconds(c) \/ TimesOut(c)

FreeStep(t) == DeallocateRaw(t) \/ NotifyDealloc(t)

RetryNext ==
    \/ \E c \in Client : \/ AllocateRaw(c) \/ CallStep(c) \/ Release(c)
                         \/ DeadlinePasses(c)
    \/ \E t \in Thread : FreeStep(t)

RetrySpec == RetryInit /\ [][RetryNext]_retry_vars

RetryFairness ==
    /\ \A c \in Client : /\ WF_retry_vars(CallStep(c))
                         /\ WF_retry_vars(DeadlinePasses(c))
    /\ \A t \in Thread : WF_retry_vars(FreeStep(t))

-----------------------------------------------------------------------------
End(a, h) == a.chunks[h].ptr + a.chunks[h].size

(* The chunks that exist are parts of the recorded regions, no two of them *)
(* overlap, each begins where its previous one ends and knows it, the      *)
(* first and the last reach the ends of their region, and handles_ finds   *)
(* exactly the chunks: what SplitChunk, Merge and Extend keep up.          *)
ChunksTile(a) ==
    /\ \A h \in Live(a) :
       /\ \E r \in a.regions :
          /\ r.ptr <= a.chunks[h].ptr /\ End(a, h) <= r.ptr + r.memory_size
          /\ a.chunks[h].prev = kInvalid => a.chunks[h].ptr = r.ptr
          /\ a.chunks[h].next = kInvalid => End(a, h) = r.ptr + r.memory_size
       /\ a.chunks[h].size > 0
       /\ a.chunks[h].next # kInvalid =>
             /\ a.chunks[h].next \in Live(a)
             /\ a.chunks[a.chunks[h].next].prev = h
             /\ a.chunks[a.chunks[h].next].ptr = End(a, h)
       /\ a.chunks[h].prev # kInvalid =>
             /\ a.chunks[h].prev \in Live(a)
             /\ a.chunks[a.chunks[h].prev].next = h
       /\ a.handles[a.chunks[h].ptr] = h
       /\ \A g \in Live(a) \ {h} :
             End(a, g) <= a.chunks[h].ptr \/ End(a, h) <= a.chunks[g].ptr
    /\ \A p \in Address : a.handles[p] # kInvalid =>
          /\ a.handles[p] \in Live(a) /\ a.chunks[a.handles[p]].ptr = p

MemoryIsTiled == ChunksTile(bfc)

(* The bins hold exactly the chunks not in use, each in the bin of its     *)
(* size, where FindChunkPtr looks for it, and no two neighbours are both   *)
(* free: FreeAndMaybeCoalesce has merged them.                             *)
FreeIsFound(a) ==
    /\ \A h \in Live(a), b \in BinNums :
          h \in a.bins[b] <=> /\ ~in_use(a, h) /\ a.chunks[h].bin_num = b
    /\ \A b \in BinNums : a.bins[b] \subseteq Live(a)
    /\ \A h \in Live(a) :
          /\ a.chunks[h].bin_num =
                IF in_use(a, h) THEN kInvalid
                                ELSE BinNumForSize(a.chunks[h].size)
          /\ a.chunks[h].next # kInvalid /\ ~in_use(a, h) =>
                in_use(a, a.chunks[h].next)
    /\ a.failed = {}

FreeMemoryIsFound == FreeIsFound(bfc)

(* Both, in every state: what the allocator knows of its memory is sound   *)
(* while clients wait, retry, free and extend it.                          *)
HeapIsSound == MemoryIsTiled /\ FreeMemoryIsFound
=============================================================================
