---------------------------- MODULE NodeArrival ----------------------------
(***************************************************************************)
(* What the arrival of one input does to a node's count: the branches of   *)
(* the loop bodies of FrameState::ActivateNodes and of DeleteFrame         *)
(* (tensorflow/core/common_runtime/executor.cc).                           *)
(***************************************************************************)
EXTENDS PendingCounts

(* What arriving on an edge does to the destination's count: the new       *)
(* count, whether the destination becomes ready, whether it is then dead,  *)
(* and whether it takes the value.                                         *)
Arrival(count, ready, dead, need) ==
    [count |-> count, ready |-> ready, dead |-> dead, need |-> need]

MergeControl(c, num_inputs) ==
    LET c2 == decrement_pending(c, 2)
        dead == c2.dead_count = num_inputs
    IN Arrival(c2, pending(c2) = 0 \/ (pending(c2) = 1 /\ dead), dead, FALSE)

MergeLiveAnyPending(c) == Arrival(mark_live(c), TRUE, FALSE, pending(c) % 2 = 1)
MergeLive(c) ==
    Arrival(mark_live(c), pending(c) = 1, FALSE, pending(c) % 2 = 1)

(* A dead Enter kills the merge at once: its back edge never arrives.      *)
MergeDead(c, num_inputs, from_enter) ==
    LET c2 == increment_dead_count(c)
        dead == c2.dead_count = num_inputs \/ from_enter
    IN Arrival(c2, pending(c2) = 1 /\ dead, dead, FALSE)

NotMerge(c, increment_dead, need) ==
    LET c2 == adjust_for_activation(c, increment_dead)
    IN Arrival(c2, c2.pending = 0, c2.dead_count > 0, need)
=============================================================================
