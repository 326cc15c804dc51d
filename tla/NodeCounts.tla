----------------------------- MODULE NodeCounts -----------------------------
(***************************************************************************)
(* One node in one iteration: its PendingCounts entry while the inputs     *)
(* arrive, in any order, and while VLOG marks the node started and         *)
(* completed (tensorflow/core/common_runtime/executor.cc, pending_counts.h)*)
(*                                                                         *)
(* shape says what the node is: its kind and its numbers of data and of    *)
(* control inputs.  A "loop_merge" is the merge of a loop variable: of its *)
(* two data inputs only one arrives, that of Enter in iteration 0 and that *)
(* of NextIteration afterwards.                                            *)
(***************************************************************************)
EXTENDS NodeArrival

CONSTANT Shapes

ASSUME ShapesAssumption ==
    \A s \in Shapes :
        /\ s.kind \in {"plain", "merge", "loop_merge"}
        /\ s.data \in Nat /\ s.control \in Nat
        /\ s.kind = "merge" => s.data > 0
        /\ s.kind = "loop_merge" => s.data = 2

VARIABLES
    shape,         \* the node
    c,             \* its count, in the representation that was chosen
    exact,         \* the same count without any width
    live, dead,    \* how many live and dead data inputs have arrived
    control,       \* how many control inputs have arrived
    deadControl,   \* how many of them came from a dead node
    readied,       \* how often the node was made ready
    verdict,       \* "none", or whether it was made ready "live" or "dead"
    phase          \* "waiting", "started" or "completed"

IsMerge(s) == s.kind # "plain"
IsLoopMerge(s) == s.kind = "loop_merge"

vars == <<shape, c, exact, live, dead, control, deadControl, readied, verdict,
          phase>>

(* GetMaxPendingCounts.                                                    *)
MaxPending(s) == IF IsMerge(s) THEN 1 + 2 * s.control ELSE s.data + s.control
MaxDead(s) == s.data + s.control

Init ==
    /\ shape \in Shapes
    /\ c = set_initial_count(CreateHandle(MaxPending(shape), MaxDead(shape)),
                             MaxPending(shape))
    /\ exact = set_initial_count("large", MaxPending(shape))
    /\ live = 0 /\ dead = 0 /\ control = 0 /\ deadControl = 0
    /\ readied = 0 /\ phase = "waiting"
    /\ verdict = "none"

Apply(a, b) ==
    /\ c' = a.count
    /\ exact' = b.count
    /\ readied' = IF a.ready THEN readied + 1 ELSE readied
    /\ verdict' = IF ~a.ready THEN verdict
                  ELSE IF a.dead THEN "dead" ELSE "live"
    /\ UNCHANGED <<shape, phase>>

DataLeft == live + dead < (IF IsLoopMerge(shape) THEN 1 ELSE shape.data)

ArriveLive ==
    /\ DataLeft
    /\ live' = live + 1
    /\ IF IsMerge(shape) THEN Apply(MergeLive(c), MergeLive(exact))
                      ELSE Apply(NotMerge(c, FALSE, TRUE),
                                 NotMerge(exact, FALSE, TRUE))
    /\ UNCHANGED <<dead, control, deadControl>>

ArriveDead ==
    /\ DataLeft
    /\ dead' = dead + 1
    /\ IF IsMerge(shape) THEN Apply(MergeDead(c, shape.data, IsLoopMerge(shape)),
                                 MergeDead(exact, shape.data, IsLoopMerge(shape)))
                      ELSE Apply(NotMerge(c, TRUE, TRUE),
                                 NotMerge(exact, TRUE, TRUE))
    /\ UNCHANGED <<live, control, deadControl>>

ArriveControl(from_dead) ==
    /\ control < shape.control
    /\ control' = control + 1
    /\ deadControl' = IF from_dead THEN deadControl + 1 ELSE deadControl
    /\ IF IsMerge(shape) THEN Apply(MergeControl(c, shape.data),
                                 MergeControl(exact, shape.data))
                      ELSE Apply(NotMerge(c, from_dead, FALSE),
                                 NotMerge(exact, from_dead, FALSE))
    /\ UNCHANGED <<live, dead>>

(* With VLOG on, Process marks the node started, then completed.           *)
Start ==
    /\ phase = "waiting" /\ readied > 0
    /\ phase' = "started"
    /\ c' = mark_started(c) /\ exact' = mark_started(exact)
    /\ UNCHANGED <<shape, live, dead, control, deadControl, readied, verdict>>

Complete ==
    /\ phase = "started"
    /\ phase' = "completed"
    /\ c' = mark_completed(c) /\ exact' = mark_completed(exact)
    /\ UNCHANGED <<shape, live, dead, control, deadControl, readied, verdict>>

Next ==
    \/ ArriveLive \/ ArriveDead
    \/ \E from_dead \in BOOLEAN : ArriveControl(from_dead)
    \/ Start \/ Complete

Spec == Init /\ [][Next]_vars

-----------------------------------------------------------------------------
(* A node is due when every input it waits for is there; a merge waits for *)
(* its control inputs and one live value, or the death of all its inputs.  *)
Due ==
    /\ control = shape.control
    /\ IF IsMerge(shape)
       THEN live > 0 \/ dead = (IF IsLoopMerge(shape) THEN 1 ELSE shape.data)
       ELSE live + dead = shape.data

DueDead == IF IsMerge(shape) THEN live = 0 ELSE dead + deadControl > 0

(* The representation CreateHandle chose never loses a count: after any    *)
(* arrivals it holds what unbounded counters would.                        *)
RepresentationIsExact == [c EXCEPT !.repr = "large"] = exact

(* A node with inputs is made ready exactly once, when it is due, and with *)
(* the deadness the whole set of its inputs determines: the order in which *)
(* ActivateNodes delivers them does not matter.                            *)
ReadyWhenDue ==
    MaxDead(shape) > 0 =>
        /\ readied = (IF Due THEN 1 ELSE 0)
        /\ verdict = IF ~Due THEN "none" ELSE IF DueDead THEN "dead" ELSE "live"

TypeOK ==
    /\ shape \in Shapes
    /\ c \in [pending : Nat, dead_count : Nat, has_started : 0..1,
              repr : {"large", "packed"}]
    /\ exact \in [pending : Nat, dead_count : Nat, has_started : 0..1,
                  repr : {"large"}]
    /\ live \in Nat /\ dead \in Nat /\ control \in Nat /\ deadControl \in Nat
    /\ readied \in Nat /\ verdict \in {"none", "live", "dead"}
    /\ phase \in {"waiting", "started", "completed"}
=============================================================================
