# A verification of the TensorFlow runtime's step machinery

This directory holds TLA+ models of the part of TensorFlow (about version 1.0)
that runs a step: the session that starts it, the executors that execute its
graph, the rendezvous through which they exchange tensors, the queues their
kernels wait on, the device memory they allocate, the cancellation that must reach
all of them, and the same step spread over several workers. The models are checked
with TLC on small instances, and for five of them the main safety properties are
proved with TLAPS for every value of the constants.
Paths are relative to `src/tensorflow/core/` unless they begin with `src/`.

## 1. The system

### Parts, their state and their operations

| Part | State | Operations that change it |
|---|---|---|
| `CancellationManager` (framework/cancellation.{h,cc}) | two flags, a notification, the next token, a table of callbacks | get_cancellation_token, RegisterCallback, DeregisterCallback, StartCancel (also the destructor) |
| `PendingCounts` (common_runtime/pending_counts.h) | per node: pending, dead count, started; packed into 3+3+1 bits or large | set_initial_count, decrement_pending, mark_live, increment_dead_count, adjust_for_activation, mark_started, mark_completed |
| `ExecutorState` (common_runtime/executor.cc) | frames, each with a ring of iterations; per iteration outstanding ops, child frames and counts; the atomic number of outstanding ops; the status | RunAsync, Process, PropagateOutputs, ActivateNodes, AddLoopInv, IncrementIteration, CleanupIterations, FindOrCreateChildFrame, DeleteFrame, CleanupFramesIterations, NodeDone, ScheduleReady, Finish |
| `LocalRendezvousImpl` (framework/rendezvous.{h,cc}) | a table from keys to an item (a message or a waiter), a status | Send, RecvAsync, Recv (blocking, with a timeout), StartAbort |
| `ExecutorBarrier` (common_runtime/executor.h) | a counter, the first error, the done callback | WhenDone |
| `QueueBase`, `FIFOQueue`, the queue kernels (kernels/queue_base.{h,cc}, fifo_queue.cc, queue_ops.cc) | the elements, two deques of attempts, closed | TryEnqueue(Many), TryDequeue(Many, UpTo), Close, CloseAndCancel, Cancel, FlushUnlocked, Size |
| `DirectSession` (common_runtime/direct_session.{h,cc}) | closed, the cache of executors, the session's manager; per Run a stack frame with RunState and the step's manager; the factory's list of sessions | Run, Close, the factory's Reset and Deregister |
| `BFCAllocator`, `AllocatorRetry` (common_runtime/bfc_allocator.{h,cc}, allocator_retry.{h,cc}) | chunks, bins, regions, the size of the next region; per call its attempt and deadline | AllocateRaw, DeallocateRaw, Extend, SplitChunk, Merge, NotifyDealloc |
| `EventMgr` (common_runtime/gpu/gpu_event_mgr.{h,cc}) | used and free events, tensors accumulated for one stream | ThenDeleteTensors, ThenDeleteBuffer, ThenExecute, PollEvents, FreeMemory |
| a distributed step (distributed_runtime/master_session.cc, worker.cc, graph_mgr.cc, base_rendezvous_mgr.cc, rpc/rpc_rendezvous_mgr.cc, rpc/grpc_worker_service.cc) | at the master the calls that are out and the first error; at a worker its handlers, a rendezvous per step and the RecvTensor calls active on it | RunPartitions, RunGraph, ExecuteAsync, RecvTensor, StartAbort, AbortStep, Cleanup, Close |
| not modelled | section 7 | partial runs, IntraProcessRendezvous, other queues, barrier ops, accumulators, session setup at a master, Python coordination |

### How they interact

`DirectSession::Run` builds (or finds) one executor per partition, makes a
rendezvous, a CancellationManager for the step and a barrier, registers a callback
with the session's manager that cancels the step's, starts the executors and waits.
Executors exchange tensors only through the rendezvous. Kernels that wait (Recv,
queue operations) register with the step's manager. A failing node aborts the
rendezvous and cancels the step; the barrier aborts the rendezvous on the first
error and calls Run's callback after the last executor. `Close` and the timeout of
Run cancel through the same managers.

Kernels on a GPU return before the device is done. What they used goes to the event
manager, which gives it back to the allocator when the event recorded behind the
kernels has completed; an allocation that finds no memory waits, for a bounded time,
for such a return.

A `MasterSession` runs a step by one RunGraph call per worker. A worker executes its
part with the same barrier, on a rendezvous of its own that is found by step id and
forwards a receive from another worker as a RecvTensor call. An error at one worker is
reported to the master, which cancels the other calls; at the end every worker is told
to drop the step's rendezvous.

### What makes it hard

* Callbacks run without the lock that protected the decision to run them
  (cancellation, rendezvous, queue flush, barrier).
* Objects on the stack of Run are borrowed by executors and by cancellation
  callbacks.
* The executor deletes frames and iterations that other threads might still reach,
  by counters that are updated under different locks.
* Dead inputs, loops and control edges make readiness depend on the order of
  arrival; each order has its own branch over narrow bit fields.
* Memory is handed from client to record to poller to allocator, each under a lock of
  its own, while the device still uses it.
* At a worker the rendezvous of a step is created by whoever names the step first,
  and calls, replies, cancellations and the clean-up of a step arrive in any order,
  after a restart even at a worker that has never heard of it.
* Every wait has to end: on a message, on an abort, on a cancellation, on a
  timeout, on a closed queue.

The hazards, at the lines where they bite, are listed in `PROJECT.json`.

## 2. Modules

| Module | Models | Extends |
|---|---|---|
| `CancellationOps` | the manager as a record, one operator per locked section | |
| `CancellationManager` | a manager, its clients and concurrent cancellers | CancellationOps |
| `PendingCounts` | the counters with their widths, as operators | |
| `NodeArrival` | the four branches of ActivateNodes: what one input does to a count | PendingCounts |
| `NodeCounts` | one node whose inputs arrive in every order, with a second, unbounded count beside the packed one | NodeArrival |
| `DataflowGraph` | what `ExecutorImpl::Initialize` derives from a graph | PendingCounts |
| `ExecutorFrames` | FrameState and IterationState, as operators on a frame | DataflowGraph, NodeArrival |
| `Executor` | ExecutorState: threads, propagation, errors, completion | ExecutorFrames |
| `MessagePassing` | abstract: what rendezvous.h promises | |
| `Rendezvous` | LocalRendezvousImpl and the blocking Recv | (INSTANCE MessagePassing) |
| `ExecutorBarrier` | the barrier and its executors on the real rendezvous | Rendezvous |
| `FIFOQueue` | QueueBase, FIFOQueue, the kernels, and the steps they run in | CancellationOps |
| `DirectSession` | Run, Close and Reset on one session | CancellationOps |
| `BFCAllocator` | the allocator as a record, one operator per function of bfc_allocator.cc | |
| `AllocatorRetry` | threads that allocate, wait and free | BFCAllocator |
| `EventMgr` | the event manager, its poller and the device's streams over that memory | AllocatorRetry |
| `RemoteRendezvous` | BaseRemoteRendezvous and its manager at one worker, as operators | |
| `DistributedStep` | one step of a MasterSession on several workers | RemoteRendezvous |
| `CancellationManagerProofs`, `NodeCountsProofs`, `ExecutorBarrierProofs` | theorems about the module named | |
| `FIFOQueueProofs` | the invariant of FIFOQueue and its theorems | |
| `RendezvousSteps`, `RendezvousProofs` | the invariant of Rendezvous and its theorems | |
| `DirectSessionSteps`, `DirectSessionProofs` | the invariant of DirectSession and its theorems | |
| `MC*` | instances for TLC | |

An action is one critical section of the code, or one stretch between two points
at which another thread can see a difference. Where the code releases a lock and
then calls a callback there are two actions.

**CancellationManager.** An operation gets a token, registers, may deregister, and
then frees what its callback uses. `StartCancel` is five actions: take the table,
run a callback (begin, end), mark the manager cancelled, notify. DeregisterCallback
is the erasing branch, the late branch, and the wait.

**NodeCounts / PendingCounts / NodeArrival.** `c` is the count in the
representation CreateHandle chose; `exact` takes the same steps without a width.
The same operators are used by the executor, so what is proved here of the
arithmetic holds there.

**Executor.** A thread is a record with the local variables of Process. Its place
`at` runs through process, (async), propagate, create/enter, leave, delete, cleanup
and count, in the order of the code; the trailing parts of NodeDone and
ScheduleReady belong to the actions of the thread. Tensors are reduced to live or
dead; a predicate is any Boolean until `max_trips`, a bound on the iterations.
`executed` and `dropped` are history variables for the properties.

**Rendezvous.** A key is a model value and a message is the name of its sender.
`items` is what is left of the vector that StartAbort swapped out. `refs` counts
the references to each call's device context.

**ExecutorBarrier.** An executor is reduced to what its environment sees: its
receive, its send, failures at any moment, the final call of the barrier.

**FIFOQueue.** Every kernel is an `op` of some step; each step has a manager at
some address. FlushUnlocked is a loop over actions with `mu_` held, then the clean-up
without it. Elements have one component, and shapes and types are left out.
A failed restoration of an element leaves `Garbage` at its place, which is the
data loss that the code reports.

**DirectSession.** Each call of Run goes through the lookup, the insertion, the
inputs, the registration, the wait, the deregistration, the outputs and the
destruction of its frame, in the order of the code and of the destructors.

**BFCAllocator and AllocatorRetry.** Sizes and addresses count units of
kMinAllocationSize, of which the code's sizes are multiples; a request is in bytes
and is rounded as RoundedBytes does. `kFirstRegion` stands for the 1 MiB with which a growing
allocator begins, scaled down with the device. Handles, the prev/next links, the bins and
the regions' map from addresses to handles are kept, because the properties are
about their agreement. What a call does under `lock_` is one action, but for the loop
in Extend that asks for less and less memory (the model must be able to stay in it).
The outcome of SubAllocator is external: it refuses the sizes the scenario names. The
CHECKs of the code are remembered by line in `failed`.

**EventMgr.** A stream is the sequence of kernels and events not done yet, and the
device, which is external, takes the first away. PollEvents goes through `used_events_`
record by record with `mu_` held, by the poller or by the client that has just queued
something; FreeMemory and the callbacks run after it. The poller's sleep is left out:
it is bounded whether the poller is notified or not.

**RemoteRendezvous and DistributedStep.** `mgr[w]` keeps every rendezvous object a
worker has created for the step, so that one created too late is a second object. Of
`local_`, which is a LocalRendezvousImpl, only the state of an item with one sender and
one receiver is kept; the table itself is the subject of Rendezvous. A call has a client and
a server side that go on independently: a reply, a cancellation and a lost connection
race, and a server may learn of a cancellation late or never. Executors do the sends and
receives of their part in order. `Restart` makes a worker forget everything, and
`ConnectionBreaks` ends a call for its client while the worker goes on with it;
`inc` tells its incarnations apart as the code's device incarnation does in a key.

### The instance is part of the initial state

`Executor`, `FIFOQueue`, `DirectSession`, `AllocatorRetry` and `DistributedStep` take a
table (or set) of scenarios as a constant and choose one in Init: `graph`, `workload`, the
clients present, the `plan` of the clients, the `job`. One run so covers several graphs
or workloads with the same properties.

## 3. Properties and runs

| Run | Instance | Distinct states |
|---|---|---|
| `cancellation` | 3 operations, 2 cancellers, fair | 28 thousand |
| `node_counts` | plain nodes up to 5+3 inputs, merges up to 8 data and 4 control inputs, a loop merge | 20 thousand |
| `executor` | five graphs, fair | 112 thousand |
| `rendezvous` | 2 keys, 2 senders, 3 receivers (one a blocking Recv with a timeout), fair | 175 thousand |
| `barrier` | 3 executors in a chain, fair | 77 thousand |
| `queue` | five workloads, fair | 236 thousand |
| `session` | 2 calls and a Close; 1 call, a Close and a Reset; fair | 68 thousand |
| `gpu_memory` | six scenarios of 2 clients and 2 streams on 32 units of memory, fair | 42,410 |
| `distributed` | seven jobs on 2 workers, fair | 127 thousand |
| `queue_self_wait`, `bfc_backpedal`, `distributed_close` | disagreements, section 6 | counterexamples |

**cancellation.** `NoCallbackAfterDeregister`: when DeregisterCallback has returned,
the callback is neither running nor to be run, so its owner may free what it uses.
`CallbackRunsOnce`: concurrent StartCancel calls never run a callback twice.
`CancelCompletes`: every callback that was taken runs, and every waiting
DeregisterCallback returns.

**node_counts.** `RepresentationIsExact`: the packed counts never wrap.
`ReadyWhenDue`: the node is made ready once, with the right deadness, exactly when
the comment in executor.cc says it is. The shapes lie on both sides of the limit of 7
for packed counts.

**executor.** `NoUseAfterDelete`: no thread holds a tagged node, or is about to
touch a frame or iteration, that has been deleted. `ExecutedOnce`: a node is executed
once per frame and iteration. `CountersAreExact`: the outstanding counts of iterations
and of frames equal the nodes, frames and Enters that are really outstanding, and the
window of live iterations is respected. `FinishesComplete`: done is called once, by the
last thread, and a step that ends without error has executed everything and
collected every frame. `DeadnessIsDataflow`: whether a node was dead is a function
of the graph and of the predicates, not of the schedule. `StepEnds`: a step that
starts ends. The graphs were chosen so that each mechanism is needed: a loop
invariant and two parallel iterations with failing and asynchronous kernels; the
deferred NextIteration (`parallel_iterations` = 1); a Merge with a control input and a
ControlTrigger; dead Enters and dead Exits (with VLOG on); child frames of several
iterations. Two trips are enough to reuse a slot of the ring in the serial loop and to
have two iterations alive in the parallel one.

**rendezvous.** `NoMessageLost`, `CalledExactlyOnce` and `RefsExact` say what a table of
waiters and messages can get wrong;
`WaitersAreTold` says that an answer comes; `PassesMessages` says that the whole is an
implementation of `MessagePassing`. Two keys and three receivers give a duplicate Recv, a
Recv before and after the Send, and an unrelated key, at once.

**barrier.** `BarrierIsTrue`: done is called after every executor has reported, and
with an error iff one had one, and the rendezvous is aborted at most once, and once
if an executor failed (executor.h's "aborted exactly once").
`RendezvousOutlivesUsers`: the reference that WhenDone takes for the abort keeps the
rendezvous alive. `StepCompletes`: the abort wakes whoever waits for a message of an
executor that failed, at its start too, where only the barrier aborts.
No failure is assumed to happen: the fairness leaves them out. Three executors give an error and a last completion on
different executors, with a third between them.

**queue.** `FirstInFirstOut`: elements taken, held by a partly filled batch and in the
queue are, in this order, the elements enqueued. `DoneExactlyOnce`: of the attempt, the
clean-up list and the cancelling thread exactly one is responsible for the callback.
`NothingLeftUndone`: when no one is about to flush, neither deque has an attempt that
could run. `OutcomesAreTrue`: the status reported is what happened, after a close and a
cancellation too. `NobodyWaitsForEver`: from some point on nobody waits who is on a closed
queue or in a cancelled step, where each op has a step of its own (otherwise
`queue_self_wait` applies). The batches are larger than the capacity and than
each other, so both sides of the flush have to alternate; one workload asks for more than is
ever enqueued, so that a closed queue gets a partly filled batch back; allocations fail, and
a container is cleared while ops wait.

**session.** `FrameOutlivesItsUsers`: the RunState and the manager on Run's stack are
there as long as executors or Close use them. `CancelledRunsFail`: a step that was cancelled never returns OK.
`CancelReachesEveryStep`: when Close has cancelled, no step runs uncancelled, whenever
it passed CheckNotClosed. `ExecutorsShared`: equal signatures up to order share
executors, even when built concurrently. `RunsReturn`: Run returns if it has a timeout, if its
kernels do not wait for ever, or if the session is closed, on each early return but the one after
its inputs failed (section 6).

**gpu_memory.** `OwnedOnce`: what the allocator has in use is owned by exactly one client,
accumulated tensor, record or FreeMemory loop, so nothing is leaked or freed twice, and a
client got at least what it asked for. `KernelsKeepTheirMemory`: no memory goes back, or to
somebody else, while a kernel on a stream uses it. `HeapIsSound`: chunks tile the
regions, the links and the map of handles agree with the addresses, no two neighbours are
both free, and a free chunk is in the one bin its size belongs to. `BestFit`: the search through
the bins takes a smallest chunk that fits, and fails only if there is none.
`EveryCallReturns`: AllocateRaw returns although a notification may be missed.
`EventsAreDealtWith`: what is queued with an event is freed or called. The six
scenarios are fragmentation and coalescing in one region, backpedalling followed by a second region,
a second region that is refused, a request that nothing smaller satisfies, a region recorded
smaller than the request, and growth with tensors of two streams. Sizes are chosen on both sides of
the split (twice the request) and of the bins 0, 1 and 2.

**distributed.** `NothingFreedInUse`: every rendezvous object of a worker has exactly the
references that the table, handlers, calls and pending aborts hold, its destructor's CHECK
never fails, and the manager that the cancel callback of RunGraph uses is alive while it
runs. `ActiveCallsAreOut`: an abort reaches the RecvTensor calls that are out and no
other, and a call that came too late has the abort's status. `OkMeansAllRan`: OK at the master
means that every executor of every worker ran to its end in the incarnation that was asked.
`StepReturns`: Run returns although executors fail, requests are refused, connections break, workers
restart or the session is closed, except when `CallsLeftAlone`: the error of a worker that lives came
before the last RunGraph call was issued. What then happens is the subject of `distributed_close`.
`OkStepLeavesNothing`: after an OK step no worker keeps a rendezvous for it. The jobs are one worker
with a feed, a Close and a fetched tensor that may be dead; one worker with an executor that fails
beside one that waits for it; a failing sender; a restart of the sending worker; a restart of the
receiving worker with a request that is refused; a RunGraph call that breaks while its worker goes
on; and a refused request of the sending worker, which may reach the master before or after the
receiving worker is called. A broken RunGraph call to one of two workers is left out (more than a million
states); for the other worker it is the refused request of the sender again.

Each property has a mutant in `PROJECT.json`: a small plausible error in one mapped
definition under which TLC finds the property violated.

`TypeOK` of each module that has one and `BTypeOK` are not among the listed runs'
properties; they may be added to the configurations and hold there. So do `ReceivedWasSent` and
`OneToOne` of Rendezvous and `DeregisterTellsTheTruth` of CancellationManager, which are proved.

### Bounds

`MaxTrips` bounds a loop's iterations; every op, call, sender and receiver acts once;
tokens are unbounded but each client takes one; a client allocates what its plan says;
the device's memory has `MaxAddress` + 1 units and SubAllocator puts a region at one of
`Base`; a worker restarts once. Nothing else is cut off: the runs explore the complete state
space of their instances. Deadlock is checked in
`cancellation`, `executor` and `barrier`, whose specifications say when everything is over. The
rendezvous may rightly be left with waiters that nobody sends to, a node may wait for
inputs, a dequeue may wait on a queue that nobody closes, a Run may wait for ever if nobody
cancels it, and clients and steps come to an end of their plans, so the other runs do not check it; in
`gpu_memory` and `distributed` the liveness properties say that nothing is stuck.

### Fairness

Weak fairness of the steps of threads that are inside a call: a thread the code has
started runs on, a callback returns, a closure handed to the thread pool runs. In
`ExecutorBarrier` a node is made to fail only by a Send or Recv that has ended with an error. No
fairness for what clients decide: that StartCancel, Close, Send or Recv be called, a
step be started or a timeout be set. In `Executor` it is stated once for the pool: while
the step runs, some thread moves. In `DirectSession` executors of a call in `Blocks` are fair
only once their step is cancelled: until then a kernel may wait for ever. In `EventMgr`
each thread, the thread pool and each stream go on, and a deadline passes; a thread that waits
in AllocatorRetry may miss its notification. In `DistributedStep` one weak fairness covers all
steps of the program and of the network towards a client (while something can happen, something
does), which is enough because each such step happens finitely often. Broken connections, restarts, Close and
the delivery of a cancellation to a server are not fair: gRPC does not promise the last.

## 4. What is proved

The proofs hold for every value of the constants (any number of operations,
cancellers, keys, senders, receivers, executors, calls of Run, Close and Reset; nodes
with any number of inputs; any number of queue kernels in any number of steps).

**CancellationManagerProofs**: `TypeCorrect`, `FreeingIsSafe`
(`NoCallbackAfterDeregister`), `ResultsAreTrue` (`DeregisterTellsTheTruth`), `CallbacksRunOnce`. The
inductive invariant adds three things the properties do not say: tokens are
distinct and below the next token (`TokensInv`); at most one thread is in StartCancel, the flags
tell which phase it is in, and the table is empty from then on (`PhaseInv`); a callback is in one
of the places table, taken, returned, according to what its owner has done
(`PlaceInv`). No assumptions.

**NodeCountsProofs**: `TypeCorrect`, `PackedCountsAreExact` (`RepresentationIsExact`),
`ReadyOnceWhenDue` (`ReadyWhenDue`). The invariant says what the pending count is as a function of
what has not arrived (for a merge twice the missing control inputs plus one bit for "no live
input yet"), and that the dead count counts the dead inputs; with the lemmas on
the four kinds of arrival it bounds both by what CreateHandle was given, so the
arithmetic cannot wrap. Assumption: `ShapesAssumption`, and `NoControlledLoopMerge` (no loop
merge has control inputs), without which the theorem is false (section 6).

**RendezvousProofs**: `NothingInvented` (`ReceivedWasSent`), `OneProducerOneConsumer`
(`OneToOne`), `NothingLost`, `CallbacksCalledOnce` and `KeepsThePromise`: Rendezvous implements
MessagePassing. **RendezvousSteps** has the invariant, the initial states, the sends, and the
receives that find or wait; RendezvousProofs the aborts and the other steps. The invariant
says what each item in the table, or in StartAbort's vector, may be, that one of the two is
empty, where each accepted message is, and who holds each waiting receive. The refinement
proof maps initial states to initial states and each action to a step of MessagePassing or
to a stutter. Assumption: `~tolerate_dup_recv`, as a direct session builds its rendezvous
(common_runtime/rendezvous_mgr.cc:35; only the distributed runtime may pass true,
distributed_runtime/base_rendezvous_mgr.cc:133); section 6 has the reason it is needed.

**ExecutorBarrierProofs**: `BarrierKeepsItsPromise` (`BarrierIsTrue`) and
`RendezvousIsNotFreedInUse` (`RendezvousOutlivesUsers`), for any finite set of executors. A
step of the composition is a step of the rendezvous or leaves it alone, so the invariant of
RendezvousSteps carries over (`RendezvousStep`). To it are added: pending_ is the number of executors
that have not reported (`CountInv`), hence the last to report takes done and calls it once
(`DoneInv`); status_ is bad iff a reported executor failed (`StatusInv`); the references are the
owner's and that of the one executor that aborts (`RefInv`, `AbortInv`); somebody is in
StartAbort as long as it has items left (`LoopInv`); an executor that reports has no receive
outstanding (`RecvInv`). When the count of references is 0 the first ones say that everyone has
reported, the last two that nobody is inside. Assumptions: `BarrierAssumption` (no receiver
belongs to two executors, each belongs to one), `~tolerate_dup_recv`.

**DirectSessionProofs**: `FramesOutliveTheirUsers` (`FrameOutlivesItsUsers`),
`CancelledRunsDoFail` (`CancelledRunsFail`), `CloseReachesEveryStep`
(`CancelReachesEveryStep`), `SignaturesShareExecutors` (`ExecutorsShared`), for any number of
calls and closers. None of the first three is inductive. The invariant, in
**DirectSessionSteps**, adds: at most one closer is between the two critical sections of
StartCancel, and only it has callbacks to run (`PhaseInv`); tokens are handed out once and
`callbacks_` holds exactly those of calls between registration and deregistration, until it
is taken (`TokenInv`); Run's frame is whole where Run is inside it, and executors run only
while Run waits (`FrameInv`); a callback that a closer has taken belongs to a call that has not passed
DeregisterCallback, and a registered step is cancelled or about to be (`CancelInv`); a cancelled step
has an error already, or will find when it deregisters that the session was closed
(`ResultInv`). The cache has an invariant of its own (`CacheInv`: a signature and its sorted
form have the same executors). Assumption: `SessionAssumption`.

**FIFOQueueProofs**: `NoWakeupIsLost` (`NothingLeftUndone`) and `CallbacksOnce`
(`DoneExactlyOnce`), for any capacity and any workload of kernels and steps. Neither is
inductive. For the first the invariant adds `FlushInv`: mu_ is held exactly by the thread in
the loops of FlushUnlocked, and when that thread is in the second loop and nothing has changed
since the first, the enqueue that stopped the first still cannot go on; the lemmas say which
steps owe a flush (`OwesFlush`) and that the two loops end only when both fronts are stuck. For
the second it adds where an op can be: no op is twice in a deque or in a clean_up list, a
clean_up list is empty outside of a flush, a cancelling thread has an op in hand exactly while
it calls its callback (`ListInv`), and exactly one of these places will answer an op that has begun and
is unanswered (`DoneInv`). Every step leaves an op where it is, answers it at once, passes it
on to one other place, or answers it from the place it is in; the lemma `DoneKept` shows that
these four preserve DoneInv, and the lemma of each action which of them it is. Assumption:
`QueueAssumption` (what a workload is).

Only model-checked: liveness (fairness arguments are beyond these proofs); the reference
counts `RefsExact` (cardinalities of sets built from several functions); everything about
Executor (it is built with recursive operators, which the prover does not handle);
`FirstInFirstOut` and `OutcomesAreTrue` of FIFOQueue, whose statements are about sequences
put together from those of all kernels, for which an induction over data would be
needed; and the allocator, the event manager and the distributed step, for which no proof
has been attempted.

## 5. Layers

`CancellationOps` is shared by CancellationManager, FIFOQueue and DirectSession:
what the first proves about its operators under concurrent clients the other two use with
their own clients. `ExecutorBarrier` composes the barrier with the complete `Rendezvous`, and its
proofs rest on those of the rendezvous. `NodeArrival` and `PendingCounts` are shared by NodeCounts and
Executor. `MessagePassing` is the abstract specification of the rendezvous. `EventMgr` extends
`AllocatorRetry`, which extends `BFCAllocator`: memory is followed from the request to the event
behind the last kernel. `DistributedStep` has the rendezvous of every worker, in the reduced form of
`RemoteRendezvous`, and the barrier of every worker's handler.

## 6. Disagreements between code and documentation

Three have a run whose counterexample shows them:

1. **Cancel waits for itself** (queue_base.cc:233, 348). Cancel, a cancellation callback, flushes the
   queue; if the flush completes another attempt of the same step it calls
   DeregisterCallback on the manager that is running it. cancellation.h:108: "`callback` does not
   invoke any method on this cancellation manager." (`queue_self_wait`)
2. **Close does not end the step** (master_session.cc:504). The first error cancels the RunGraph calls
   that are out. One that is issued later has had no cancel_func_ (call_options.cc:26) and is not
   cancelled any more: neither by a second error nor by Close, which find an error there already. If
   the worker that sends has refused its request, the one that receives waits for ever, and with
   it RunPartitions and Close. master_session.h:175: "Used to cancel running steps on Close()."
   (`distributed_close`)
3. **Extend never returns** (bfc_allocator.cc:118). While SubAllocator refuses, the size is
   replaced by RoundedBytes(bytes * 0.9), which is the size itself from 9 units down; a
   request of at most 8 units never leaves the loop, with `lock_` held. bfc_allocator.h:302:
   "Returns true on success and false on failure." (`bfc_backpedal`)

Others met while modelling. Each of these is stated by a definition, which may be added to
the configuration given, and fails there:

* `ReadyWhenDue` (NodeCounts, with a `loop_merge` of one control input among the shapes):
  executor.cc:2391 "A merge node is ready if all control inputs have arrived and either a) a
  live data input becomes available or b) all data inputs are dead." After a dead Enter, a
  control input that comes last compares the dead count with num_inputs (2399), where the dead branch
  has a special case for Enter, and the Merge never becomes ready.
* `ReceivedWasSent` (Rendezvous, MCRendezvous.cfg with tolerate_dup_recv = TRUE): rendezvous.h:125
  "will retain already Recv'd values and make them available to duplicate Recv calls", but
  a second Recv whose first one still waits is answered OK with an empty tensor
  (rendezvous.cc:242).
* `DestructorDoesNotBlock` (DirectSession, MCDirectSession.cfg): when SendInputs fails
  (direct_session.cc:427) Run returns with executors_done never to be notified, and ~RunState waits for
  ever; direct_session.cc:492 "If we don't explicitly notify `run_state.executors_done`, the RunState
  destructor would block on this notification" takes care of this on the next early return only.
* `IsCancelledIffStartCancelCalled` (CancellationManager, MCCancellationManager.cfg):
  cancellation.h:56 "Returns true iff StartCancel() has been called", but is_cancelled_ is stored
  after the callbacks have run (cancellation.cc:49).
* `MarkStartedAssertion` (Executor, MCExecutor.cfg): pending_counts.h:117 asserts that pending is
  0 in mark_started; a dead Merge is started with pending 1 when VLOG is on (executor.cc:1535).
* `CallbackInsideRecv` (Rendezvous, MCRendezvous.cfg): rendezvous.h:105 "Synchronous wrapper for
  RecvAsync", but after a timeout the callback stays in the table and later writes to
  locals of a Recv that has returned (rendezvous.cc:133).
* `WithinCapacity` (FIFOQueue, MCFIFOQueue.cfg): ops/data_flow_ops.cc:307 "The upper bound on the
  number of elements in this queue", but restoring a partly filled batch exceeds it
  (fifo_queue.cc:280).
* `FlushHasReference` (FIFOQueue, MCFIFOQueue.cfg): refcount.h:82 asserts a reference in Ref; Cancel
  flushes after the callback that released the op's reference (queue_base.cc:233), the last one if
  the container has been cleared.
* `SizeCallsDone` (FIFOQueue, MCFIFOQueue.cfg): op_kernel.h:175 "Implementations of ComputeAsync() must
  run \"done\"", but queue_ops.cc:424 returns without it when its output cannot be allocated.
  `DoneExactlyOnce` leaves Size out for this reason.
* `ResetFindsOpenSessions` (DirectSession, MCDirectSession.cfg): direct_session.h:59 says that
  Deregister keeps Reset from closed sessions, but Reset works on a list it took before
  (direct_session.cc:158).

Seen in the code, and outside what a run asks:

* Cancel finds attempts by the address of their manager and the token, and stops at the first
  match, which may be a cancelled attempt of an earlier step whose manager lived at the same
  address (queue_base.cc:227); queue_interface.h:42 guarantees the callback.
* After a successful backpedalled Alloc the size is reduced once more (bfc_allocator.cc:118-121):
  the region is recorded smaller than it is, perhaps smaller than the request (22 units
  refused, 20 obtained, 18 recorded, 19 asked for), memory beyond memory_limit_ may be obtained later,
  and the destructor frees a region with the wrong size.
* gpu_event_mgr.h:54 "Releases the references on the elements of "tensors" as soon as all
  events currently enqueued on "stream" have completed", but tensors below the threshold are kept until
  another call brings more, if one comes. `DealtWith` leaves them out for this reason.
* A thread in AllocatorRetry that has failed but does not wait yet misses the notification of
  memory that is freed then; it waits until the deadline (allocator_retry.cc), and returns.
* rpc_rendezvous_mgr.cc:126 "Start the main RecvTensor call, checking for an async abort": it does not
  check; an abort between RegisterCall and the call is seen when the call returns.
* RunGraph, RecvTensor or AbortStep that a worker handles after Cleanup make a new rendezvous
  for the step, which nobody removes, and RecvOutputs may wait on it for ever.
* In partial runs the pointer to a RunState is used after executor_lock_ is released
  (direct_session.cc:673), the last call waits for the executors with that lock held (733), and its
  timeout cancels the session's manager, and so every other step.

Two comments are wrong without a behaviour to show: the example in cancellation.h:82 lacks
a `!`, and executor.cc:2393-2394 has "pending's LSB is set iff a live data input has arrived", the
opposite of what 2406-2411 do.

## 7. What is not modelled

In the modelled parts: tensors' contents, shapes and types, device contexts beyond their
references, memory accounting, tracing and statistics; Create and Extend of a
session and its destructor; multi-component queue elements (fifo_queue.cc:133, where a failed
allocation leaves components of unequal length), errors that a queue kernel reports before it makes an
attempt (queue_ops.cc:94-105, fifo_queue.cc:196), and the moment between DeregisterCallback and the
callback in the clean-up of a flush, which is one action; the leak of ExecutorState when
RunAsync fails (executor.cc:1421), which nothing observes; the allocator's destructor, visitors and
size queries; the event manager's destructor and events that end in an error; registering graphs with
workers and choosing the client graph.

Parts left out:

* **Partial runs** (PRunSetup, PRun) are a second protocol over the session, with steps that live
  across calls; the session model has one frame per Run, which a partial run does not
  have. What reading them showed is in section 6 and in the hazards.
* **IntraProcessRendezvous** (common_runtime/rendezvous_mgr.cc) puts a device copy between the
  table, which is modelled, and the receiver's callback.
* **The other queues, the Barrier op and the accumulators** use the attempts of QueueBase, which
  are modelled; they differ in the order of elements and in when an attempt is complete.
* **Session setup at a master** and **ResourceMgr** are maps under one lock.
* **Python's Coordinator and QueueRunner** are threads of another runtime over the queue.
* **Graph algorithms** (cycle detection, placement, partitioning, optimisation) are sequential.
* The kernels' numerics, op registrations and generated code, XLA, the stream executor and the
  tools have no protocol to explore; thread pool, notification and blocking counter are taken as
  primitives. They are most of the repository, so the models cover a small share of its lines: nearly all
  of the code that schedules, cancels, waits and frees in a step, and little else.

## 8. Running

    tlc -workers 2 -config MCFIFOQueue.cfg MCFIFOQueue     # any run of PROJECT.json
    tlapm RendezvousProofs.tla                             # any *Proofs or *Steps module

Each run takes less than four minutes on two cores, and each proof module at most six.
