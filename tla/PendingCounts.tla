--------------------------- MODULE PendingCounts ---------------------------
(***************************************************************************)
(* tensorflow/core/common_runtime/pending_counts.h: the pending count, the *)
(* dead-input count and the state of one node in one loop iteration.       *)
(*                                                                         *)
(* A count is a record with the fields of PackedCounts / LargeCounts.  The *)
(* packed representation has 3 bits for each count, and its arithmetic     *)
(* wraps as the C++ bit fields do; the 31 and 32 bits of the large one     *)
(* exceed the number of edges a graph can have.                            *)
(***************************************************************************)
EXTENDS Integers

kMaxCountForPackedCounts == 7

(* Layout::CreateHandle decides the representation from the maxima.        *)
HandleByPendingOnly(max_pending_count, max_dead_count) ==
    IF max_pending_count > kMaxCountForPackedCounts THEN "large" ELSE "packed"
CreateHandle(max_pending_count, max_dead_count) ==
    IF \/ max_pending_count > kMaxCountForPackedCounts
       \/ max_dead_count > kMaxCountForPackedCounts
    THEN "large" ELSE "packed"

Wrap(repr, n) ==
    IF repr = "large" THEN n ELSE n % (kMaxCountForPackedCounts + 1)

set_initial_count(repr, pending_count) ==
    [pending |-> Wrap(repr, pending_count), dead_count |-> 0,
     has_started |-> 0, repr |-> repr]

(* NodeStateForStruct: the pending field doubles as the state of a node    *)
(* that has started.                                                       *)
node_state(c) ==
    IF c.has_started = 1
    THEN IF c.pending = 0 THEN "STARTED" ELSE "COMPLETED"
    ELSE IF c.pending = 0 THEN "PENDING_READY" ELSE "PENDING_NOTREADY"

NotReady(c) == node_state(c) = "PENDING_NOTREADY"

pending(c) == IF NotReady(c) THEN c.pending ELSE 0

mark_started(c) == [c EXCEPT !.has_started = 1]
mark_completed(c) == [c EXCEPT !.pending = 1]

decrement_pending(c, v) == [c EXCEPT !.pending = Wrap(c.repr, @ - v)]

(* mark_live clears the low bit of a merge node's pending count.           *)
MarkLiveClearsAll(c) == IF NotReady(c) THEN [c EXCEPT !.pending = 0] ELSE c
mark_live(c) ==
    IF NotReady(c) THEN [c EXCEPT !.pending = @ - (@ % 2)] ELSE c

increment_dead_count(c) ==
    IF NotReady(c)
    THEN [c EXCEPT !.dead_count = Wrap(c.repr, @ + 1)]
    ELSE c

(* adjust_for_activation_shared: the state is read before pending changes. *)
AdjustPendingFirst(c, increment_dead) ==
    LET d == decrement_pending(c, 1)
    IN IF increment_dead THEN increment_dead_count(d) ELSE d
adjust_for_activation(c, increment_dead) ==
    [c EXCEPT
        !.dead_count = IF increment_dead /\ NotReady(c)
                       THEN Wrap(c.repr, @ + 1) ELSE @,
        !.pending = Wrap(c.repr, @ - 1)]
=============================================================================
