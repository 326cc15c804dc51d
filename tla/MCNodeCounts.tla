---------------------------- MODULE MCNodeCounts ----------------------------
(***************************************************************************)
(* NodeCounts for nodes on both sides of the limit of the packed counts.   *)
(***************************************************************************)
EXTENDS NodeCounts

Plain(d, k) ==
    [kind |-> "plain", data |-> d, control |-> k]
Merge(d, k) ==
    [kind |-> "merge", data |-> d, control |-> k]
LoopMerge ==
    [kind |-> "loop_merge", data |-> 2, control |-> 0]

SmallShapes ==
    {Plain(d, k) : d \in 0..3, k \in 0..2}
    \cup {Plain(5, 3), Plain(5, 2), Plain(4, 3)}
    \cup {Merge(d, k) : d \in 1..8, k \in 0..4}
    \cup {LoopMerge}
=============================================================================
