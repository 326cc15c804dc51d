----------------------------- MODULE MCEventMgr -----------------------------
(* EventMgr for TLC: a device of 32 units, two clients and two streams.    *)
EXTENDS EventMgr

CONSTANTS c1, c2, s1, s2

Ask(n, t, u, s) == [bytes |-> n, try |-> t, use |-> u, stream |-> s]
Scenario(total, growth, no, p1, p2) ==
    [total_memory |-> total, allow_growth |-> growth,
     refused |-> no, plan |-> [c \in Client |-> IF c = c1 THEN p1 ELSE p2]]

MCScenarios == {
    \* All of the memory at once: fragments, and their coalescing.
    Scenario(3100, FALSE, {}, <<Ask(700, "fast", "buffer", s1), Ask(1280, "fast", "free", s1)>>,
                     <<Ask(700, "fast", "free", s1), Ask(256, "fast", "free", s1)>>),
    \* Backpedalling to 10 units, of which 9 are used; a second region.
    Scenario(3100, FALSE, {11, 12},
             <<Ask(1280, "fast", "execute", s1), Ask(256, "once", "free", s1)>>,
             <<Ask(700, "fast", "buffer", s2)>>),
    \* The second region is refused.
    Scenario(3100, FALSE, {3, 11, 12}, <<Ask(1700, "fast", "execute", s1)>>,
                              <<Ask(700, "fast", "free", s1)>>),
    \* Nothing smaller will do.
    Scenario(3100, FALSE, {11, 12}, <<Ask(3000, "once", "free", s1)>>,
                           <<Ask(100, "fast", "free", s1)>>),
    \* Backpedalling to 20 units, of which 18 are used, too few for 19.
    Scenario(5632, FALSE, {22}, <<Ask(4864, "fast", "free", s1)>>, << >>),
    \* Growth; tensors of two streams are accumulated.
    Scenario(3100, TRUE, {}, <<Ask(700, "fast", "tensors", s1), Ask(512, "once", "tensors", s2)>>,
                    <<Ask(300, "fast", "tensors", s1)>>)}

(* A device that has no memory left when the first region is asked for.    *)
ExhaustedDevice == {
    Scenario(3072, FALSE, 1..12, <<Ask(256, "once", "free", s1)>>, << >>)}
=============================================================================
