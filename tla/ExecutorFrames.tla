--------------------------- MODULE ExecutorFrames ---------------------------
(***************************************************************************)
(* FrameState and IterationState of tensorflow/core/common_runtime/        *)
(* executor.cc: the operations that run with FrameState::mu held, as       *)
(* operators on w = [f |-> the frame, ready |-> the nodes made ready].     *)
(*                                                                         *)
(* A frame is identified by <<parent, parent iteration, frame_name>>, the  *)
(* root frame by <<>> (MakeFrameName).  f.iterations is the circular       *)
(* buffer: a function on the slots that hold an iteration.  A value is     *)
(* NoValue (has_value is false) or the boolean it stands for.              *)
(***************************************************************************)
EXTENDS DataflowGraph, NodeArrival

NoValue == "none"

RootFrame == <<>>
ChildFrame(fid, iter, name) == <<fid, iter, name>>
ParentOf(fid) == fid[1]
ParentIter(fid) == fid[2]
NameOf(fid) == IF fid = RootFrame THEN RootName ELSE fid[3]

max_parallel_iterations(fid) ==
    IF fid = RootFrame THEN 1 ELSE ParallelIterations[NameOf(fid)]
BufferSize(fid) ==
    IF fid = RootFrame THEN 1 ELSE max_parallel_iterations(fid) + 1

TaggedNode(n, fid, iter, dead) ==
    [node |-> n, frame |-> fid, iter |-> iter, dead |-> dead]

NewIteration(fid, iter) ==
    LET nodes == FrameNodes(NameOf(fid)) IN
    [iter |-> iter, outstanding_ops |-> 0, outstanding_frame_count |-> 0,
     counts |-> InitialCounts(NameOf(fid)),
     input_tensors |->
        [n \in nodes |-> [i \in 1..NumInputs(n) |-> NoValue]]]

NewFrame(fid) ==
    [id |-> fid, num_pending_inputs |-> InputCount(NameOf(fid)),
     iteration_count |-> 0, num_outstanding_iterations |-> 1,
     next_iter_roots |-> <<>>, inv_values |-> <<>>, dead_exits |-> <<>>,
     iterations |-> (0 :> NewIteration(fid, 0))]

SlotOf(f, iter) == iter % BufferSize(f.id)
HasIteration(f, iter) == SlotOf(f, iter) \in DOMAIN f.iterations
GetIteration(f, iter) == f.iterations[SlotOf(f, iter)]
SetIteration(f, iter, state) ==
    [f EXCEPT !.iterations = (SlotOf(f, iter) :> state) @@ @]
DeleteIteration(f, iter) ==
    [f EXCEPT !.iterations =
        [s \in DOMAIN @ \ {SlotOf(f, iter)} |-> @[s]]]

-----------------------------------------------------------------------------
(* The arrival of what node n sends along edge e (the loop body of         *)
(* ActivateNodes).                                                         *)
ArrivalOn(c, n, is_dead, outputs, e) ==
    LET control == e.slot = kControlSlot
        value == IF control THEN NoValue ELSE outputs[e.slot]
    IN IF Op[e.dst] = "Merge"
       THEN IF control THEN MergeControl(c, NumInputs(e.dst))
            ELSE IF value # NoValue THEN MergeLive(c)
                                    ELSE MergeDead(c, NumInputs(e.dst), Op[n] = "Enter")
       ELSE NotMerge(c, is_dead \/ (~control /\ value = NoValue), ~control)

(* The same for a dead exit (the loop body of DeleteFrame).                *)
DeadExitArrivalOn(c, e) ==
    LET control == e.slot = kControlSlot IN
    IF Op[e.dst] = "Merge"
    THEN IF control THEN MergeControl(c, NumInputs(e.dst))
         ELSE MergeDead(c, NumInputs(e.dst), FALSE)
    ELSE LET c2 == decrement_pending(increment_dead_count(c), 1)
         IN Arrival(c2, c2.pending = 0, TRUE, FALSE)

(* Records arrival a on edge e at iteration iter, and makes e.dst ready.   *)
Deliver(w, e, iter, a, value) ==
    LET it == GetIteration(w.f, iter)
        it2 == [it EXCEPT
                  !.counts[e.dst] = a.count,
                  !.input_tensors[e.dst] =
                     IF a.need THEN [@ EXCEPT ![e.input] = value] ELSE @,
                  !.outstanding_ops = IF a.ready THEN @ + 1 ELSE @]
        dead == a.dead /\ Op[e.dst] # "ControlTrigger"
    IN [f |-> [w.f EXCEPT !.iterations[SlotOf(w.f, iter)] = it2],
        ready |-> IF a.ready
                  THEN Append(w.ready, TaggedNode(e.dst, w.f.id, iter, dead))
                  ELSE w.ready]

RECURSIVE ActivateEdges(_, _, _, _, _, _)
ActivateEdges(w, n, is_dead, iter, outputs, k) ==
    IF k > Len(OutEdges[n]) THEN w
    ELSE LET e == OutEdges[n][k]
             c == GetIteration(w.f, iter).counts[e.dst]
             value == IF e.slot = kControlSlot THEN NoValue
                                               ELSE outputs[e.slot]
             w2 == IF Op[e.dst] = "Sink" THEN w
                   ELSE Deliver(w, e, iter,
                                ArrivalOn(c, n, is_dead, outputs, e), value)
         IN ActivateEdges(w2, n, is_dead, iter, outputs, k + 1)

ActivateNodes(w, n, is_dead, iter, outputs) ==
    ActivateEdges(w, n, is_dead, iter, outputs, 1)

(* Propagates one dead exit into the parent frame w.f.                     *)
RECURSIVE ActivateDeadExit(_, _, _, _)
ActivateDeadExit(w, n, iter, k) ==
    IF k > Len(OutEdges[n]) THEN w
    ELSE LET e == OutEdges[n][k]
             c == GetIteration(w.f, iter).counts[e.dst]
         IN ActivateDeadExit(
              IF Op[e.dst] = "Sink" THEN w
              ELSE Deliver(w, e, iter, DeadExitArrivalOn(c, e), NoValue),
              n, iter, k + 1)

(* ActivateNexts and ActivateLoopInvs: replay (node, entry) pairs in iter. *)
RECURSIVE ActivateEntries(_, _, _)
ActivateEntries(w, entries, iter) ==
    IF entries = <<>> THEN w
    ELSE LET e == Head(entries)
         IN ActivateEntries(
              ActivateNodes(w, e.node, e.value = NoValue, iter, <<e.value>>),
              Tail(entries), iter)

IncrementIteration(w) ==
    LET next == w.f.iteration_count + 1
        f1 == [SetIteration(w.f, next, NewIteration(w.f.id, next)) EXCEPT
                  !.iteration_count = next,
                  !.num_outstanding_iterations = @ + 1,
                  !.dead_exits = <<>>,
                  !.next_iter_roots = <<>>]
        w1 == ActivateEntries([w EXCEPT !.f = f1], w.f.next_iter_roots, next)
    IN ActivateEntries(w1, w.f.inv_values, next)

(* AddLoopInv makes the value available to iterations 0..iteration_count.  *)
RECURSIVE ActivateInIterations(_, _, _, _)
ActivateInIterations(w, n, value, i) ==
    IF i > w.f.iteration_count THEN w
    ELSE ActivateInIterations(
            ActivateNodes(w, n, value = NoValue, i, <<value>>), n, value, i + 1)

AddLoopInv(w, n, value) ==
    ActivateInIterations(
        [w EXCEPT !.f.inv_values = Append(@, [node |-> n, value |-> value])],
        n, value, 0)

IterationDoneIgnoresFrames(f, iter) ==
    LET it == GetIteration(f, iter) IN
    /\ it.outstanding_ops = 0
    /\ IF iter = 0 THEN f.num_pending_inputs = 0
                   ELSE ~HasIteration(f, iter - 1)
IsIterationDone(f, iter) ==
    LET it == GetIteration(f, iter) IN
    /\ it.outstanding_ops = 0
    /\ it.outstanding_frame_count = 0
    /\ IF iter = 0 THEN f.num_pending_inputs = 0
                   ELSE ~HasIteration(f, iter - 1)

IsFrameDone(f) ==
    f.num_pending_inputs = 0 /\ f.num_outstanding_iterations = 0

(* Deletes finished iterations from iter on, starting a deferred iteration *)
(* whenever one ends.                                                      *)
RECURSIVE CleanupIterations(_, _)
CleanupIterations(w, iter) ==
    IF iter > w.f.iteration_count \/ ~IsIterationDone(w.f, iter) THEN w
    ELSE LET w1 == [w EXCEPT
                      !.f = [DeleteIteration(w.f, iter) EXCEPT
                               !.num_outstanding_iterations = @ - 1]]
             w2 == IF w1.f.next_iter_roots = <<>> THEN w1
                                                  ELSE IncrementIteration(w1)
         IN CleanupIterations(w2, iter + 1)

DecrementOutstandingOps(w, iter) ==
    LET s == SlotOf(w.f, iter)
        w1 == [w EXCEPT !.f.iterations[s].outstanding_ops = @ - 1]
    IN IF w1.f.iterations[s].outstanding_ops # 0 THEN w1
       ELSE CleanupIterations(w1, iter)
=============================================================================
