------------------------------ MODULE Executor ------------------------------
(***************************************************************************)
(* ExecutorState of tensorflow/core/common_runtime/executor.cc: one step   *)
(* of one graph partition, executed by a pool of threads.                  *)
(*                                                                         *)
(* A thread is one invocation of Process, or the done callback of an       *)
(* asynchronous kernel.  Its record holds its local variables: inline (the *)
(* inline_ready queue), node (the tagged node it works on), outputs,       *)
(* ready, s, completed, and at, the place it has reached.  Every action is *)
(* one critical section, or one stretch of code that touches nothing other *)
(* threads can see; frame is the frame being deleted or cleaned up.        *)
(***************************************************************************)
EXTENDS ExecutorFrames

Expensive == graph.partition.expensive   \* nodes whose kernel is expensive
Async == graph.partition.async           \* nodes with an asynchronous kernel
MayFail == graph.partition.may_fail      \* nodes whose kernel or inputs may fail
MaxTrips == graph.partition.max_trips    \* bound: a predicate is false from this
                                         \* iteration on
Vlog == graph.partition.vlog             \* whether VLOG(1) is on

VARIABLES
    frames,                \* outstanding_frames_: frame id -> FrameState
    threads,               \* the threads that still have work
    num_outstanding_ops,   \* the atomic counter
    status,                \* status_: "ok" or "error"
    aborted,               \* the rendezvous and the manager were cancelled
    run,                   \* "new", "running", "done_ok" or "done_error"
    dones,                 \* how many times the done callback was called
    executed,              \* history: node, frame and iteration of every node
                           \* taken up -> whether it was dead, its outputs
    dropped                \* history: tagged nodes that never propagated

vars == <<graph, frames, threads, num_outstanding_ops, status, aborted, run, dones,
          executed, dropped>>

Thread(at, node, inline) ==
    [at |-> at, node |-> node, inline |-> inline, outputs |-> <<>>,
     ready |-> <<>>, s |-> "ok", completed |-> FALSE, frame |-> RootFrame,
     iter |-> 0, async |-> at = "async"]

NoNode == TaggedNode("none", RootFrame, 0, FALSE)

Untag(t) == <<t.node, t.frame, t.iter>>
Executed(t, outputs) ==
    (Untag(t) :> [dead |-> t.dead, outputs |-> outputs]) @@ executed

Init ==
    /\ graph \in {Initialize(g) : g \in Graphs}
    /\ frames = (RootFrame :> NewFrame(RootFrame))
    /\ threads = {} /\ num_outstanding_ops = 0
    /\ status = "ok" /\ aborted = FALSE
    /\ run = "new" /\ dones = 0
    /\ executed = <<>> /\ dropped = {}

(* RunAsync: FillContextMap may fail; no root node means nothing to do.    *)
RunAsyncFails ==
    /\ run = "new"
    /\ MayFail # {}
    /\ run' = "done_error" /\ dones' = dones + 1
    /\ UNCHANGED <<graph, frames, threads, num_outstanding_ops, status, aborted,
                   executed, dropped>>

RunAsync ==
    /\ run = "new"
    /\ LET roots == {TaggedNode(n, RootFrame, 0, FALSE) : n \in RootNodes} IN
          /\ run' = IF roots = {} THEN "done_ok" ELSE "running"
          /\ dones' = IF roots = {} THEN dones + 1 ELSE dones
          /\ threads' = {Thread("loop", NoNode, <<t>>) : t \in roots}
          /\ num_outstanding_ops' = Cardinality(roots)
          /\ frames' = [frames EXCEPT
                ![RootFrame].iterations[0].outstanding_ops = Cardinality(roots)]
    /\ UNCHANGED <<graph, status, aborted, executed, dropped>>

-----------------------------------------------------------------------------
(* The values a live kernel may produce (kernels/control_flow_ops.cc,      *)
(* kernels/sendrecv_ops.cc); Failure when the kernel fails.                *)
Failure == <<"error">>

MergeOutput(in) ==
    LET live == {i \in DOMAIN in : in[i] # NoValue} IN
    IF Cardinality(live) # 1 THEN Failure ELSE <<in[CHOOSE i \in live : TRUE]>>

Results(t, in) ==
    LET n == t.node IN
    (CASE Op[n] = "Switch" -> {IF in[2] = "true" THEN <<NoValue, in[1]>>
                                                 ELSE <<in[1], NoValue>>}
       [] Op[n] = "Merge" -> {MergeOutput(in)}
       [] Op[n] \in {"Enter", "Exit", "NextIteration", "LoopCond"} -> {<<in[1]>>}
       [] Op[n] = "Pred" -> {<<"false">>} \cup
                            (IF t.iter < MaxTrips THEN {<<"true">>} ELSE {})
       [] Op[n] = "Recv" -> {<<"true">>, <<NoValue>>}
       [] NumOutputs(n) = 0 -> {<<>>}
       [] OTHER -> {<<"true">>})
    \cup (IF n \in MayFail \/ (n \in Async /\ aborted) THEN {Failure} ELSE {})

Inputs(t) == GetIteration(frames[t.frame], t.iter).input_tensors[t.node]

(* With VLOG on, the node's count also records its state.                  *)
Traced(t, Mark(_)) ==
    IF Vlog
    THEN [frames EXCEPT
            ![t.frame].iterations[t.iter % BufferSize(t.frame)].counts[t.node]
                = Mark(@)]
    ELSE frames
Started(c) == mark_started(c)
StartedAndCompleted(c) == mark_completed(mark_started(c))

(* s is not reset when a dead node follows a failed one in this thread.    *)
AfterKernel(p, t, result) ==
    IF result = Failure
    THEN [p EXCEPT !.at = "nodedone", !.node = t, !.s = "error",
                   !.ready = <<>>, !.outputs = <<>>]
    ELSE [p EXCEPT !.at = "propagate", !.node = t, !.s = "ok",
                   !.ready = <<>>, !.outputs = result]

SkipDead(p, t) ==
    [p EXCEPT !.at = IF p.s = "ok" THEN "propagate" ELSE "nodedone",
              !.node = t, !.ready = <<>>,
              !.outputs = [i \in 1..NumOutputs(t.node) |-> NoValue]]

Replace(p, q) == threads' = (threads \ {p}) \cup q

(* What is left of a thread whose round is over.                           *)
Rest(p) ==
    IF p.inline # <<>> THEN {[p EXCEPT !.at = "loop", !.node = NoNode]}
    ELSE IF p.completed THEN {[p EXCEPT !.at = "finish", !.node = NoNode]}
    ELSE {}

(* One round of the loop of Process, up to the outcome of the kernel.      *)
ProcessDead(p) ==
    /\ p.at = "loop"
    /\ LET t == Head(p.inline)
           q == SkipDead([p EXCEPT !.inline = Tail(@)], t) IN
          /\ t.dead /\ ~IsTransferNode(t.node)
          /\ Replace(p, {q})
          /\ frames' = Traced(t, StartedAndCompleted)
          /\ executed' = Executed(t, q.outputs)
          /\ dropped' = IF q.s = "ok" THEN dropped ELSE dropped \cup {Untag(t)}
    /\ UNCHANGED <<graph, num_outstanding_ops, status, aborted, run, dones>>

PrepareInputsFails(p) ==
    /\ p.at = "loop"
    /\ LET t == Head(p.inline) IN
          /\ ~t.dead \/ IsTransferNode(t.node)
          /\ t.node \in MayFail
          /\ Replace(p, {AfterKernel([p EXCEPT !.inline = Tail(@)], t, Failure)})
          /\ frames' = Traced(t, StartedAndCompleted)
          /\ executed' = Executed(t, <<>>)
          /\ dropped' = dropped \cup {Untag(t)}
    /\ UNCHANGED <<graph, num_outstanding_ops, status, aborted, run, dones>>

ProcessSync(p) ==
    /\ p.at = "loop"
    /\ LET t == Head(p.inline) IN
          /\ ~t.dead \/ IsTransferNode(t.node)
          /\ t.node \notin Async
          /\ \E result \in Results(t, Inputs(t)) :
                /\ Replace(p, {AfterKernel([p EXCEPT !.inline = Tail(@)],
                                           t, result)})
                /\ dropped' = IF result = Failure THEN dropped \cup {Untag(t)}
                                                  ELSE dropped
                /\ executed' = Executed(t, result)
          /\ frames' = Traced(t, StartedAndCompleted)
    /\ UNCHANGED <<graph, num_outstanding_ops, status, aborted, run, dones>>

(* An asynchronous kernel is launched and the loop goes on without it.     *)
ProcessAsync(p) ==
    /\ p.at = "loop"
    /\ LET t == Head(p.inline)
           rest == [p EXCEPT !.inline = Tail(@), !.s = "ok"] IN
          /\ ~t.dead \/ IsTransferNode(t.node)
          /\ t.node \in Async
          /\ Replace(p, {Thread("async", t, <<>>)} \cup
                        Rest(rest))
          /\ frames' = Traced(t, Started)
          /\ executed' = Executed(t, <<>>)
    /\ UNCHANGED <<graph, num_outstanding_ops, status, aborted, run, dones, dropped>>

AsyncDone(p) ==
    /\ p.at = "async"
    /\ \E result \in Results(p.node, Inputs(p.node)) :
          /\ Replace(p, {AfterKernel(p, p.node, result)})
          /\ dropped' = IF result = Failure THEN dropped \cup {Untag(p.node)}
                                            ELSE dropped
          /\ executed' = Executed(p.node, result)
    /\ frames' = Traced(p.node, mark_completed)
    /\ UNCHANGED <<graph, num_outstanding_ops, status, aborted, run, dones>>

-----------------------------------------------------------------------------
(* PropagateOutputs.  World(p, fid) pairs the frame with p's ready list.   *)
World(p, fid) == [f |-> frames[fid], ready |-> p.ready]

(* After frame w.f has changed p deletes it if it is done.  (IsFrameDone   *)
(* implies that DecrementOutstandingOps reached zero: see FrameCounters.)  *)
LeaveFrame(p, w) ==
    /\ frames' = [frames EXCEPT ![w.f.id] = w.f]
    /\ Replace(p, {[p EXCEPT
          !.ready = w.ready,
          !.at = IF IsFrameDone(w.f) THEN "delete" ELSE "nodedone",
          !.frame = IF IsFrameDone(w.f) THEN w.f.id ELSE RootFrame,
          !.iter = 0]})

PropagateUnchanged ==
    UNCHANGED <<graph, num_outstanding_ops, status, aborted, run, dones, executed,
                dropped>>

PropagateNormal(p) ==
    /\ p.at = "propagate" /\ ~IsEnterExitOrNextIter(p.node.node)
    /\ LET t == p.node
           w == ActivateNodes(World(p, t.frame), t.node, t.dead, t.iter,
                              p.outputs)
       IN LeaveFrame(p, DecrementOutstandingOps(w, t.iter))
    /\ PropagateUnchanged

(* Enter, first critical section of FindOrCreateChildFrame.                *)
FindChildFrame(p) ==
    /\ p.at = "propagate" /\ Op[p.node.node] = "Enter"
    /\ LET t == p.node
           child == ChildFrame(t.frame, t.iter, FrameName[t.node])
       IN Replace(p, {[p EXCEPT !.frame = child,
                         !.at = IF child \in DOMAIN frames THEN "enter"
                                                           ELSE "create"]})
    /\ UNCHANGED frames /\ PropagateUnchanged

(* Its second one: another Enter may have created the frame meanwhile.     *)
CreateWithoutRecheck(p) ==
    /\ p.at = "create"
    /\ LET t == p.node IN
       frames' = (p.frame :> NewFrame(p.frame)) @@
                 [frames EXCEPT
                    ![t.frame].iterations[t.iter % BufferSize(t.frame)]
                    .outstanding_frame_count = @ + 1]
    /\ Replace(p, {[p EXCEPT !.at = "enter"]})
    /\ PropagateUnchanged
CreateChildFrame(p) ==
    /\ p.at = "create"
    /\ LET t == p.node IN
       frames' = IF p.frame \in DOMAIN frames THEN frames
                 ELSE [frames EXCEPT
                         ![t.frame].iterations[t.iter % BufferSize(t.frame)]
                         .outstanding_frame_count = @ + 1]
                      @@ (p.frame :> NewFrame(p.frame))
    /\ Replace(p, {[p EXCEPT !.at = "enter"]})
    /\ PropagateUnchanged

EnterFrame(p) ==
    /\ p.at = "enter"
    /\ LET t == p.node
           w0 == World(p, p.frame)
           w == IF t.node \in LoopInvariant
                THEN AddLoopInv(w0, t.node, p.outputs[1])
                ELSE ActivateNodes(w0, t.node, t.dead, 0, p.outputs)
       IN /\ frames' = [frames EXCEPT
                ![p.frame] = [w.f EXCEPT !.num_pending_inputs = @ - 1]]
          /\ Replace(p, {[p EXCEPT !.ready = w.ready, !.at = "leave"]})
    /\ PropagateUnchanged

PropagateExit(p) ==
    /\ p.at = "propagate" /\ Op[p.node.node] = "Exit" /\ ~p.node.dead
    /\ LET t == p.node
           w == ActivateNodes(World(p, ParentOf(t.frame)), t.node, FALSE,
                              ParentIter(t.frame), p.outputs)
       IN /\ frames' = [frames EXCEPT ![w.f.id] = w.f]
          /\ Replace(p, {[p EXCEPT !.ready = w.ready, !.at = "leave"]})
    /\ PropagateUnchanged

(* DecrementOutstandingOps of the input frame, after an Enter or an Exit.  *)
LeaveInputFrame(p) ==
    /\ p.at = "leave"
    /\ LeaveFrame(p, DecrementOutstandingOps(World(p, p.node.frame),
                                             p.node.iter))
    /\ PropagateUnchanged

(* A dead exit counts only in the highest iteration reached so far.        *)
RecordsEveryDeadExit(f, t) ==
    [f EXCEPT !.dead_exits = Append(@, t.node)]
RecordDeadExit(f, t) ==
    IF t.iter = f.iteration_count
    THEN [f EXCEPT !.dead_exits = Append(@, t.node)] ELSE f

PropagateDeadExit(p) ==
    /\ p.at = "propagate" /\ Op[p.node.node] = "Exit" /\ p.node.dead
    /\ LET t == p.node
           w == World(p, t.frame)
       IN LeaveFrame(p, DecrementOutstandingOps(
                           [w EXCEPT !.f = RecordDeadExit(@, t)], t.iter))
    /\ PropagateUnchanged

(* The next iteration is deferred when the frame runs as many as it may.   *)
MustDefer(f, t) ==
    /\ t.iter = f.iteration_count
    /\ f.num_outstanding_iterations = max_parallel_iterations(f.id)

NextIterationInto(w, t, outputs) ==
    IF t.dead THEN w
    ELSE IF MustDefer(w.f, t)
    THEN [w EXCEPT !.f.next_iter_roots =
            Append(@, [node |-> t.node, value |-> outputs[1]])]
    ELSE ActivateNodes(
            IF t.iter = w.f.iteration_count THEN IncrementIteration(w) ELSE w,
            t.node, FALSE, t.iter + 1, outputs)

PropagateNextIteration(p) ==
    /\ p.at = "propagate" /\ Op[p.node.node] = "NextIteration"
    /\ LET t == p.node
           w == NextIterationInto(World(p, t.frame), t, p.outputs)
       IN LeaveFrame(p, DecrementOutstandingOps(w, t.iter))
    /\ PropagateUnchanged

-----------------------------------------------------------------------------
(* DeleteFrame: the dead exits go to the parent frame, under its mutex.    *)
RECURSIVE ActivateDeadExits(_, _, _)
ActivateDeadExits(w, exits, iter) ==
    IF exits = <<>> THEN w
    ELSE ActivateDeadExits(ActivateDeadExit(w, Head(exits), iter, 1),
                           Tail(exits), iter)

PropagateDeadExits(p) ==
    /\ p.at = "delete" /\ p.frame # RootFrame
    /\ LET w == ActivateDeadExits(World(p, ParentOf(p.frame)),
                                  frames[p.frame].dead_exits,
                                  ParentIter(p.frame))
       IN /\ frames' = [frames EXCEPT ![w.f.id] = w.f]
          /\ Replace(p, {[p EXCEPT !.ready = w.ready, !.at = "erase"]})
    /\ PropagateUnchanged

EraseFrame(p) ==
    /\ p.at = "erase" \/ (p.at = "delete" /\ p.frame = RootFrame)
    /\ frames' = [g \in DOMAIN frames \ {p.frame} |-> frames[g]]
    /\ Replace(p, {IF p.frame = RootFrame THEN [p EXCEPT !.at = "nodedone"]
                   ELSE [p EXCEPT !.at = "cleanup",
                                  !.frame = ParentOf(p.frame),
                                  !.iter = ParentIter(p.frame)]})
    /\ PropagateUnchanged

CleanupFramesIterations(p) ==
    /\ p.at = "cleanup"
    /\ LET w0 == World(p, p.frame)
           s == SlotOf(w0.f, p.iter)
           w == CleanupIterations(
                   [w0 EXCEPT !.f.iterations[s].outstanding_frame_count = @ - 1],
                   p.iter)
       IN LeaveFrame(p, w)
    /\ PropagateUnchanged

-----------------------------------------------------------------------------
(* NodeDone: the first error is recorded and aborts the step ...           *)
NodeDoneError(p) ==
    /\ p.at = "nodedone" /\ p.s = "error"
    /\ status' = "error"
    /\ Replace(p, {[p EXCEPT !.at = IF status = "ok" THEN "abort" ELSE "count"]})
    /\ UNCHANGED <<graph, frames, num_outstanding_ops, aborted, run, dones, executed,
                   dropped>>

AbortRun(p) ==
    /\ p.at = "abort"
    /\ aborted' = TRUE
    /\ Replace(p, {[p EXCEPT !.at = "count"]})
    /\ UNCHANGED <<graph, frames, num_outstanding_ops, status, run, dones, executed,
                   dropped>>

(* ... and the counter says whether this was the last node.  ScheduleReady *)
(* keeps cheap and dead nodes in this thread, and one expensive node when  *)
(* there is nothing else to do here.                                       *)
RunsInline(t) == t.dead \/ t.node \notin Expensive
RunsElsewhere(t) == ~RunsInline(t)

InlineAfter(p, ready) ==
    LET cheap == p.inline \o SelectSeq(ready, RunsInline)
        costly == SelectSeq(ready, RunsElsewhere)
    IN IF p.async THEN <<>>
       ELSE IF cheap = <<>> /\ costly # <<>> THEN <<Last(costly)>> ELSE cheap

Dispatched(p, ready) ==
    ToSet(ready) \ ToSet(InlineAfter(p, ready))

StopsHere(p) == p.ready = <<>> \/ p.s = "error"
CountsItself(p) == IF StopsHere(p) THEN -1 ELSE Len(p.ready)
CounterChange(p) == IF StopsHere(p) THEN -1 ELSE Len(p.ready) - 1

CountNode(p) ==
    /\ p.at = "count" \/ (p.at = "nodedone" /\ p.s = "ok")
    /\ num_outstanding_ops' = num_outstanding_ops + CounterChange(p)
    /\ LET ready == IF p.s = "ok" THEN p.ready ELSE <<>>
           q == [p EXCEPT !.completed = StopsHere(p) /\ num_outstanding_ops = 1,
                          !.inline = InlineAfter(p, ready),
                          !.ready = <<>>, !.outputs = <<>>,
                          !.frame = RootFrame]
       IN Replace(p, Rest(q) \cup {Thread("loop", NoNode, <<t>>) :
                                     t \in Dispatched(p, ready)})
    /\ UNCHANGED <<graph, frames, status, aborted, run, dones, executed, dropped>>

(* Finish: the device is synchronised, the state deleted, done_cb called.  *)
Finish(p) ==
    /\ p.at = "finish"
    /\ \E sync \in {"ok"} \cup (IF MayFail = {} THEN {} ELSE {"error"}) :
          run' = IF status = "ok" /\ sync = "ok" THEN "done_ok" ELSE "done_error"
    /\ dones' = dones + 1
    /\ frames' = [g \in {} |-> 0]
    /\ threads' = threads \ {p}
    /\ UNCHANGED <<graph, num_outstanding_ops, status, aborted, executed, dropped>>

Terminated == run \in {"done_ok", "done_error"} /\ threads = {} /\ UNCHANGED vars

Step(p) ==
    \/ ProcessDead(p) \/ PrepareInputsFails(p) \/ ProcessSync(p)
    \/ ProcessAsync(p) \/ AsyncDone(p)
    \/ PropagateNormal(p) \/ FindChildFrame(p) \/ CreateChildFrame(p)
    \/ EnterFrame(p) \/ PropagateExit(p) \/ LeaveInputFrame(p)
    \/ PropagateDeadExit(p) \/ PropagateNextIteration(p)
    \/ PropagateDeadExits(p) \/ EraseFrame(p) \/ CleanupFramesIterations(p)
    \/ NodeDoneError(p) \/ AbortRun(p) \/ CountNode(p) \/ Finish(p)

Next ==
    \/ RunAsync \/ RunAsyncFails \/ Terminated
    \/ \E p \in threads : Step(p)

Spec == Init /\ [][Next]_vars

(* The pool runs every closure it is given, and kernels terminate: weak    *)
(* fairness of Next, written with its enabling condition.                  *)
Running == run = "new" \/ threads # {}
FairSpec == Spec /\ ([]<>~Running \/ []<><<Next>>_vars)

-----------------------------------------------------------------------------
(* The tagged nodes thread p has still to take up.                         *)
Waiting(p) == ToSet(p.inline) \cup ToSet(p.ready)

(* The tagged node p works on and has not yet accounted for in its         *)
(* iteration; after that, p only has its counter update to do.             *)
InProgress(p) ==
    IF p.at \in {"async", "propagate", "create", "enter", "leave"}
    THEN {p.node} ELSE {}

Held(p) == Waiting(p) \cup InProgress(p)
AllHeld == UNION {Held(p) : p \in threads}

TypeOK ==
    /\ \A g \in DOMAIN frames :
          /\ frames[g].id = g
          /\ frames[g].num_pending_inputs \in Nat
          /\ frames[g].iteration_count \in Nat
          /\ DOMAIN frames[g].iterations \subseteq 0..(BufferSize(g) - 1)
    /\ \A p \in threads :
          p.at \in {"loop", "async", "propagate", "create", "enter", "leave",
                    "delete", "erase", "cleanup", "nodedone", "abort", "count",
                    "finish"}
    /\ num_outstanding_ops \in Nat
    /\ status \in {"ok", "error"} /\ aborted \in BOOLEAN
    /\ run \in {"new", "running", "done_ok", "done_error"}
    /\ dones \in Nat

(* Every tagged node a thread holds is in a frame and an iteration that    *)
(* still exist, and so is every frame a thread is about to touch: no use   *)
(* of a deleted FrameState or IterationState (GetInputTensors reads them   *)
(* without a lock).                                                        *)
NoUseAfterDelete ==
    /\ \A t \in AllHeld :
          /\ t.frame \in DOMAIN frames
          /\ HasIteration(frames[t.frame], t.iter)
          /\ GetIteration(frames[t.frame], t.iter).iter = t.iter
    /\ \A p \in threads :
          /\ p.at \in {"enter", "delete", "erase", "cleanup"} =>
                p.frame \in DOMAIN frames
          /\ p.at = "cleanup" => HasIteration(frames[p.frame], p.iter)
          /\ p.at = "enter" => /\ HasIteration(frames[p.frame], 0)
                               /\ GetIteration(frames[p.frame], 0).iter = 0
    /\ \A g \in DOMAIN frames : g # RootFrame =>
          /\ ParentOf(g) \in DOMAIN frames
          /\ HasIteration(frames[ParentOf(g)], ParentIter(g))

(* No node is executed twice in an iteration of a frame: what a thread     *)
(* still has to take up was not taken up before, nor by another thread.    *)
ExecutedOnce ==
    /\ \A p \in threads :
          /\ \A t \in Waiting(p) : Untag(t) \notin DOMAIN executed
          /\ Cardinality(Waiting(p)) = Len(p.inline) + Len(p.ready)
    /\ \A p, q \in threads :
          p # q => {Untag(t) : t \in Held(p)} \cap {Untag(t) : t \in Held(q)} = {}

(* outstanding_ops is exactly the number of nodes that hold the iteration  *)
(* alive (a failed node holds it for ever), and outstanding_frame_count    *)
(* the number of its child frames, so an iteration is deleted as soon as,  *)
(* and not before, it is finished.                                         *)
IterationCounters ==
    \A g \in DOMAIN frames : \A s \in DOMAIN frames[g].iterations :
        LET it == frames[g].iterations[s]
            here == {t \in AllHeld : t.frame = g /\ t.iter = it.iter}
            gone == {u \in dropped : u[2] = g /\ u[3] = it.iter}
            cleaning == {p \in threads : /\ p.at = "cleanup"
                                         /\ p.frame = g /\ p.iter = it.iter}
        IN /\ it.outstanding_ops = Cardinality(here) + Cardinality(gone)
           /\ it.outstanding_frame_count =
                 Cardinality({h \in DOMAIN frames \ {RootFrame} :
                                 ParentOf(h) = g /\ ParentIter(h) = it.iter})
                 + Cardinality(cleaning)

(* The frame's own counters agree with its buffer, and a loop never runs   *)
(* more iterations at once than parallel_iterations allows; the live       *)
(* iterations are consecutive, so the circular buffer never mixes two.     *)
FrameCounters ==
    \A g \in DOMAIN frames :
        LET f == frames[g]
            live == {f.iterations[s].iter : s \in DOMAIN f.iterations}
        IN /\ f.num_outstanding_iterations = Cardinality(DOMAIN f.iterations)
           /\ Cardinality(live) = Cardinality(DOMAIN f.iterations)
           /\ f.num_outstanding_iterations <= max_parallel_iterations(g)
           /\ \A i \in live : i <= f.iteration_count
           /\ \A i \in live : i < f.iteration_count => i + 1 \in live
           /\ f.next_iter_roots # <<>> => f.num_outstanding_iterations > 0

(* Every counter of every frame and iteration is exact, in every schedule: *)
(* what decides that state is deleted agrees with who still uses it.       *)
CountersAreExact == IterationCounters /\ FrameCounters

(* num_outstanding_ops_ counts the nodes that are scheduled or being       *)
(* processed, so the step finishes when, and only when, the last one is    *)
(* done, and the done callback is called once.                             *)
FinishesOnce ==
    /\ run = "running" =>
          num_outstanding_ops =
             Cardinality(UNION {ToSet(p.inline) : p \in threads})
             + Cardinality({p \in threads : p.at \notin {"loop", "finish"}})
    /\ dones = (IF run \in {"done_ok", "done_error"} THEN 1 ELSE 0)
    /\ (dones = 1 => threads = {}) /\ (run = "running" => threads # {})

(* A step ends once, when the last node is done; and when it ends without  *)
(* an error it has executed every node of the root frame, dead or alive,   *)
(* and left no frame behind.                                               *)
FinishesComplete ==
    /\ FinishesOnce
    /\ \A p \in threads : p.at = "finish" /\ status = "ok" =>
          /\ DOMAIN frames = {}
          /\ \A n \in FrameNodes(RootName) :
                Op[n] = "Sink" \/ <<n, RootFrame, 0>> \in DOMAIN executed

(* The executions of node m whose outputs reach iteration i of frame g.    *)
Sources(m, g, i) ==
    CASE Op[m] = "Enter" ->
            IF i = 0 \/ m \in LoopInvariant
            THEN {<<m, ParentOf(g), ParentIter(g)>>} ELSE {}
      [] Op[m] = "NextIteration" -> {<<m, g, i - 1>>}
      [] Op[m] = "Exit" ->
            {u \in DOMAIN executed : /\ u[1] = m /\ u[2] # RootFrame
                                     /\ ParentOf(u[2]) = g
                                     /\ ParentIter(u[2]) = i}
      [] OTHER -> {<<m, g, i>>}

LiveOn(e, g, i) ==
    \E u \in Sources(e[1], g, i) \cap DOMAIN executed :
        IF IsControl(graph.partition, e) THEN ~executed[u].dead
        ELSE LET out == executed[u].outputs
                 slot == OutEdges[e[1]][e[2]].slot
             IN slot \in DOMAIN out /\ out[slot] \notin {NoValue, "error"}

(* Whether a node runs dead depends on the graph and the values only, not  *)
(* on the order in which ActivateNodes and DeleteFrame deliver them: a     *)
(* merge is dead iff all its data inputs are, a control trigger never is,  *)
(* and any other node is dead iff one of its inputs is.  In particular a   *)
(* loop delivers one live value per Exit, from its last iteration.         *)
DeadnessIsDataflow ==
    \A u \in DOMAIN executed :
        LET live == {e \in InEdges[u[1]] : LiveOn(e, u[2], u[3])} IN
        executed[u].dead <=>
            CASE Op[u[1]] = "Merge" -> live \subseteq ControlInEdges[u[1]]
              [] Op[u[1]] = "ControlTrigger" -> FALSE
              [] OTHER -> live # InEdges[u[1]]

(* Every step ends, whatever fails.                                        *)
StepEnds == <>(run \in {"done_ok", "done_error"})

(* pending_counts.h asserts DCHECK_EQ(pending(h), 0) in mark_started: a    *)
(* node about to start has no pending input.  A dead merge has one.        *)
MarkStartedAssertion ==
    Vlog => \A p \in threads : p.at = "loop" =>
        LET t == Head(p.inline) IN
        pending(GetIteration(frames[t.frame], t.iter).counts[t.node]) = 0
=============================================================================
