----------------------------- MODULE FIFOQueue -----------------------------
(***************************************************************************)
(* FIFOQueue (tensorflow/core/kernels/fifo_queue.cc) on QueueBase          *)
(* (queue_base.cc), used by the queue kernels (queue_ops.cc) of several    *)
(* steps, each with a CancellationManager.                                 *)
(*                                                                         *)
(* Each Op is one execution of a kernel; element <<op, i>> is the i-th     *)
(* element it enqueues (one component).  The threads are the one that runs *)
(* the op and, for every step, the one that runs StartCancel.  mu_ is held *)
(* across the loops of FlushUnlocked and free everywhere else.             *)
(***************************************************************************)
EXTENDS CancellationOps, Sequences, FiniteSets, Functions

CONSTANTS
    Workloads,      \* name -> the use that is made of the queue
    Nobody

VARIABLE workload   \* the name of the one that is run

kind == Workloads[workload].kind             \* op -> what the kernel does
Op == DOMAIN kind
elements == Workloads[workload].elements     \* op -> batch size, or number of
                                             \* elements requested
step == Workloads[workload].step             \* op -> its step
address == Workloads[workload].address       \* step -> where its
Step == DOMAIN address                       \* CancellationManager lives
capacity_ == Workloads[workload].capacity
Cancellable == Workloads[workload].cancellable     \* steps that may be
                                                   \* cancelled as they run
AllocMayFail == Workloads[workload].alloc_may_fail \* in the attempts
MayClear == Workloads[workload].may_clear          \* its container may be

Kinds == {"Enqueue", "EnqueueMany", "Dequeue", "DequeueMany", "DequeueUpTo",
          "Close", "CloseAndCancel", "Size"}

AnyOp == UNION {DOMAIN Workloads[x].kind : x \in DOMAIN Workloads}
AnyStep == UNION {DOMAIN Workloads[x].address : x \in DOMAIN Workloads}

ASSUME QueueAssumption ==
    \A x \in DOMAIN Workloads :
        LET w == Workloads[x]
            ops == DOMAIN w.kind
            its == DOMAIN w.address IN
        /\ w.kind \in [ops -> Kinds]
        /\ w.elements \in [ops -> Nat] /\ w.step \in [ops -> its]
        /\ \A op \in ops : w.kind[op] \in {"Enqueue", "Dequeue"} => w.elements[op] = 1
        /\ w.capacity \in Nat \ {0} /\ w.cancellable \subseteq its
        /\ w.alloc_may_fail \in BOOLEAN /\ w.may_clear \in BOOLEAN
        /\ ops \cap its = {} /\ Nobody \notin ops \cup its

VARIABLES
    queues_, closed_, enqueue_attempts_, dequeue_attempts_,
    elements_requested, tuple, is_cancelled,     \* of the Attempt of an op
    mu_, attempting, changed,     \* FlushUnlocked: who holds mu_, which deque
    status, result, calls,        \* of an op: its status, output, done calls
    cm, life, token,              \* managers, steps, tokens of the ops
    pc, clean_up, todo, cur,      \* of a thread
    refs, resource,               \* of the queue: references, "there"/"gone"
    enqueued, taken               \* history: elements in, and out for good

qvars == <<queues_, closed_, enqueue_attempts_, dequeue_attempts_>>
attempt == <<elements_requested, tuple, is_cancelled>>
flush == <<mu_, attempting, changed>>
outcome == <<status, result, calls>>
steps == <<cm, life, token>>
threads == <<pc, clean_up, todo, cur>>
vars == <<workload, qvars, attempt, flush, outcome, steps, threads, refs, resource,
          enqueued, taken>>

Thread == Op \cup Step
Element(op, i) == <<op, i>>
Garbage == <<Nobody, 0>>     \* a PersistentTensor that was never allocated
Batch(op) == [i \in 1..elements[op] |-> Element(op, i)]

IsEnqueue(op) == kind[op] \in {"Enqueue", "EnqueueMany"}
IsDequeue(op) == kind[op] \in {"Dequeue", "DequeueMany", "DequeueUpTo"}

(* Steps whose managers use the same memory run one after the other.       *)
SharesAddress(s) == \E r \in Step \ {s} : address[r] = address[s]

Init ==
    /\ workload \in DOMAIN Workloads
    /\ queues_ = <<>> /\ closed_ = "no"
    /\ enqueue_attempts_ = <<>> /\ dequeue_attempts_ = <<>>
    /\ elements_requested = elements /\ tuple = [op \in Op |-> <<>>]
    /\ is_cancelled = [op \in Op |-> "no"]
    /\ mu_ = Nobody /\ attempting = "kEnqueue" /\ changed = "no"
    /\ status = [op \in Op |-> "ok"] /\ result = [op \in Op |-> <<>>]
    /\ calls = [op \in Op |-> 0]
    /\ cm = [s \in Step |-> NewManager] 
    /\ life = [s \in Step |-> IF SharesAddress(s) THEN "new" ELSE "running"]
    /\ token = [op \in Op |-> kInvalidToken]
    /\ pc = [t \in Thread |-> "idle"] /\ clean_up = [t \in Thread |-> <<>>]
    /\ todo = [s \in Step |-> {}] /\ cur = [s \in Step |-> Nobody]
    /\ refs = 1 /\ resource = "there"
    /\ enqueued = <<>> /\ taken = <<>>

Goto(t, at) == pc' = [pc EXCEPT ![t] = at]

(* The done callback of the kernel: queue->Unref(), then the executor's.   *)
Finished(op) ==
    /\ calls' = [calls EXCEPT ![op] = @ + 1]
    /\ refs' = refs - 1

-----------------------------------------------------------------------------
(* Steps, and the manager each has for as long as it runs.                 *)
StartStep(s) ==
    /\ life[s] = "new"
    /\ \A r \in Step \ {s} : address[r] = address[s] => life[r] # "running"
    /\ life' = [life EXCEPT ![s] = "running"]
    /\ UNCHANGED <<workload, qvars, attempt, flush, outcome, cm, token, threads, refs,
                   resource, enqueued, taken>>

OpsDone(s) == \A op \in Op : step[op] = s => calls[op] > 0

(* The manager's destructor: StartCancel has run, or finds no callbacks.   *)
EndStep(s) ==
    /\ life[s] = "running" /\ OpsDone(s)
    /\ \/ pc[s] = "returned" /\ UNCHANGED <<cm, pc>>
       \/ /\ pc[s] = "idle" /\ cm[s].callbacks = {}
          /\ cm' = [cm EXCEPT ![s] = NotifyCancelled(EndCancel(BeginCancel(@)))]
          /\ Goto(s, "returned")
    /\ life' = [life EXCEPT ![s] = "over"]
    /\ UNCHANGED <<workload, qvars, attempt, flush, outcome, token, clean_up, todo, cur, refs,
                   resource, enqueued, taken>>

(* ResourceMgr::Cleanup of the container the queue lives in.               *)
ClearContainer ==
    /\ MayClear /\ resource = "there"
    /\ resource' = "gone" /\ refs' = refs - 1
    /\ UNCHANGED <<workload, qvars, attempt, flush, outcome, steps, threads, enqueued, taken>>

-----------------------------------------------------------------------------
(* A kernel looks the queue up and calls it.                               *)
CanStart(op) ==
    /\ pc[op] = "idle" /\ life[step[op]] = "running"

LookupFails(op) ==
    /\ CanStart(op) /\ resource = "gone"
    /\ status' = [status EXCEPT ![op] = "not_found"]
    /\ calls' = [calls EXCEPT ![op] = @ + 1]
    /\ Goto(op, "returned")
    /\ UNCHANGED <<workload, qvars, attempt, flush, result, steps, clean_up, todo, cur, refs,
                   resource, enqueued, taken>>

(* TryEnqueueMany and TryDequeueMany of no elements; size().               *)
Trivial(op) ==
    /\ CanStart(op) /\ resource = "there"
    /\ \/ kind[op] = "Size"
       \/ (IsEnqueue(op) \/ IsDequeue(op)) /\ elements[op] = 0
    /\ kind[op] = "Size" => mu_ = Nobody
    /\ \E st \in {"ok"} \cup (IF IsDequeue(op) /\ AllocMayFail THEN {"exhausted"} ELSE {}) :
          status' = [status EXCEPT ![op] = st]
    /\ calls' = [calls EXCEPT ![op] = @ + 1]
    /\ Goto(op, "returned")
    /\ UNCHANGED <<workload, qvars, attempt, flush, result, steps, clean_up, todo, cur, refs,
                   resource, enqueued, taken>>

(* QueueSizeOp: OP_REQUIRES_OK returns without calling the callback.       *)
SizeFails(op) ==
    /\ CanStart(op) /\ resource = "there" /\ kind[op] = "Size" /\ AllocMayFail
    /\ status' = [status EXCEPT ![op] = "exhausted"]
    /\ refs' = refs + 1
    /\ Goto(op, "returned")
    /\ UNCHANGED <<workload, qvars, attempt, flush, result, calls, steps, clean_up, todo, cur,
                   resource, enqueued, taken>>

(* TryEnqueue, TryEnqueueMany, TryDequeue, TryDequeueMany: the attempt and *)
(* its cancellation callback are registered under mu_.                     *)
RegisterAttempt(op) ==
    LET s == step[op] IN
    /\ CanStart(op) /\ resource = "there" /\ mu_ = Nobody
    /\ IsEnqueue(op) \/ IsDequeue(op)
    /\ elements[op] > 0
    /\ IsLive(cm[s])
    /\ token' = [token EXCEPT ![op] = cm[s].next_cancellation_token]
    /\ cm' = [cm EXCEPT ![s] = Register(get_cancellation_token(cm[s]),
                                        cm[s].next_cancellation_token)]
    /\ IF IsEnqueue(op)
       THEN /\ enqueue_attempts_' = Append(enqueue_attempts_, op)
            /\ UNCHANGED dequeue_attempts_
       ELSE /\ dequeue_attempts_' = Append(dequeue_attempts_, op)
            /\ UNCHANGED enqueue_attempts_
    /\ refs' = refs + 1
    /\ Goto(op, "flush")
    /\ UNCHANGED <<workload, queues_, closed_, attempt, flush, outcome, life, clean_up, todo,
                   cur, resource, enqueued, taken>>

AlreadyCancelled(op) ==
    LET s == step[op] IN
    /\ CanStart(op) /\ resource = "there" /\ mu_ = Nobody
    /\ IsEnqueue(op) \/ IsDequeue(op)
    /\ elements[op] > 0
    /\ ~IsLive(cm[s])
    /\ status' = [status EXCEPT ![op] = "cancelled"]
    /\ calls' = [calls EXCEPT ![op] = @ + 1]
    /\ cm' = [cm EXCEPT ![s] = get_cancellation_token(@)]
    /\ Goto(op, "returned")
    /\ UNCHANGED <<workload, qvars, attempt, flush, result, life, token, clean_up, todo, cur,
                   refs, resource, enqueued, taken>>

Close(op) ==
    /\ CanStart(op) /\ resource = "there" /\ mu_ = Nobody /\ kind[op] = "Close"
    /\ enqueue_attempts_' = Append(enqueue_attempts_, op)
    /\ refs' = refs + 1
    /\ Goto(op, "flush")
    /\ UNCHANGED <<workload, queues_, closed_, dequeue_attempts_, attempt, flush, outcome, steps,
                   clean_up, todo, cur, resource, enqueued, taken>>

(* CloseAndCancel, under mu_; the callbacks it has moved out come later.   *)
PendingEnqueues == {o \in Range(enqueue_attempts_) : is_cancelled[o] = "no"}

(* The positions P in increasing order: a set of one sequence.             *)
InOrder(P) ==
    {order \in [1..Cardinality(P) -> P] :
        /\ Range(order) = P
        /\ \A i, j \in DOMAIN order : i < j => order[i] < order[j]}

CloseAndCancel(op) ==
    /\ CanStart(op) /\ resource = "there" /\ mu_ = Nobody
    /\ kind[op] = "CloseAndCancel"
    /\ closed_' = "yes"
    /\ is_cancelled' = [o \in Op |-> IF o \in PendingEnqueues THEN "yes"
                                                             ELSE is_cancelled[o]]
    /\ status' = [o \in Op |-> IF o \in PendingEnqueues THEN "cancelled" ELSE status[o]]
    /\ \E order \in InOrder({i \in DOMAIN enqueue_attempts_ :
                               enqueue_attempts_[i] \in PendingEnqueues}) :
          clean_up' = [clean_up EXCEPT ![op] =
                         [i \in DOMAIN order |-> enqueue_attempts_[order[i]]]]
    /\ refs' = refs + 1
    /\ Goto(op, "calling")
    /\ UNCHANGED <<workload, queues_, enqueue_attempts_, dequeue_attempts_, elements_requested,
                   tuple, flush, result, calls, steps, todo, cur, resource, enqueued,
                   taken>>

CallCancelled(op) ==
    /\ pc[op] = "calling" /\ clean_up[op] # <<>>
    /\ Finished(Head(clean_up[op]))
    /\ clean_up' = [clean_up EXCEPT ![op] = Tail(@)]
    /\ UNCHANGED <<workload, qvars, attempt, flush, status, result, steps, pc, todo, cur,
                   resource, enqueued, taken>>

CalledCancelled(op) ==
    /\ pc[op] = "calling" /\ clean_up[op] = <<>>
    /\ Goto(op, "flush")
    /\ UNCHANGED <<workload, qvars, attempt, flush, outcome, steps, clean_up, todo, cur, refs,
                   resource, enqueued, taken>>
-----------------------------------------------------------------------------
(* run_callback of the Attempt of op: the outcomes it may have, each with  *)
(* what it leaves in the queue and in the attempt.                         *)
Outcome(run, q, closed, st, requested, tup, res) ==
    [run |-> run, queues_ |-> q, closed_ |-> closed, status |-> st,
     elements_requested |-> requested, tuple |-> tup, result |-> res]

NoProgress(op) ==
    {Outcome("kNoProgress", queues_, closed_, status[op], elements_requested[op],
             tuple[op], <<>>)}
CompletesWith(op, st) ==
    {Outcome("kComplete", queues_, closed_, st, elements_requested[op], tuple[op],
             <<>>)}

Least(a, b) == IF a < b THEN a ELSE b
Room == IF Len(queues_) < capacity_ THEN capacity_ - Len(queues_) ELSE 0

RunClose(op) ==
    IF closed_ = "yes" THEN CompletesWith(op, "cancelled")
    ELSE {Outcome("kComplete", queues_, "yes", status[op], elements_requested[op],
                  tuple[op], <<>>)}

(* n elements of the batch go into the queue.                              *)
Pushed(op, n, run, st) ==
    LET first == elements[op] - elements_requested[op] IN
    Outcome(run, queues_ \o SubSeq(Batch(op), first + 1, first + n), closed_, st,
            elements_requested[op] - n, tuple[op], <<>>)

RunEnqueue(op) ==
    LET n == Least(Room, elements_requested[op]) IN
    IF closed_ = "yes" THEN CompletesWith(op, "cancelled")
    ELSE IF n = 0 THEN NoProgress(op)
    ELSE {Pushed(op, n, IF n = elements_requested[op] THEN "kComplete"
                                                      ELSE "kProgress", "ok")}
         \cup (IF AllocMayFail /\ kind[op] = "EnqueueMany"
               THEN {Pushed(op, j, "kComplete", "exhausted") : j \in 0..n-1}
               ELSE {})

(* n elements of queue q move to the attempt, whose tuple was tup.         *)
Popped(op, n, q, tup, requested) ==
    LET got == tup \o SubSeq(q, 1, n) IN
    Outcome(IF n = requested THEN "kComplete" ELSE "kProgress",
            SubSeq(q, n + 1, Len(q)), closed_, status[op], requested - n, got,
            IF n = requested THEN got ELSE <<>>)

LosesPartialBatch(op) == queues_
(* Already dequeued elements go back to the front of the queue.            *)
Restored(op) == tuple[op] \o queues_

(* ... or what an element is restored to when there is no memory for it.   *)
RestoredInPart(op, bad) ==
    [i \in DOMAIN tuple[op] |-> IF i \in bad THEN Garbage ELSE tuple[op][i]] \o queues_

RestoreFails(op) ==
    IF ~AllocMayFail THEN {}
    ELSE {Outcome("kComplete", RestoredInPart(op, bad), closed_, "data_loss",
                  elements_requested[op], tuple[op], <<>>) :
             bad \in (SUBSET DOMAIN tuple[op]) \ {{}}}

RunDequeueClosed(op) ==
    LET q == Restored(op) IN
    RestoreFails(op) \cup
    IF kind[op] = "DequeueUpTo" /\ q # <<>>
    THEN {Popped(op, Len(q), q, <<>>, Len(q))}
         \cup (IF AllocMayFail
               THEN {Outcome("kComplete", q, closed_, "exhausted", Len(q), <<>>, <<>>)}
               ELSE {})
    ELSE IF kind[op] = "DequeueUpTo" /\ enqueue_attempts_ # <<>>
    THEN {Outcome("kProgress", q, closed_, status[op], elements_requested[op],
                  tuple[op], <<>>)}
    ELSE {Outcome("kComplete", q, closed_, "out_of_range", elements_requested[op],
                  tuple[op], <<>>)}

NeedNotBeClosed(op) == Len(queues_) < elements_requested[op]
CannotBeFilled(op) == closed_ = "yes" /\ Len(queues_) < elements_requested[op]

RunDequeue(op) ==
    LET n == Least(Len(queues_), elements_requested[op]) IN
    IF CannotBeFilled(op) THEN RunDequeueClosed(op)
    ELSE IF n = 0 THEN NoProgress(op)
    ELSE {Popped(op, n, queues_, tuple[op], elements_requested[op])}
         \cup (IF AllocMayFail /\ kind[op] # "Dequeue" /\ tuple[op] = <<>>
               THEN CompletesWith(op, "exhausted") ELSE {})

RunCallback(op) ==
    IF kind[op] = "Close" THEN RunClose(op)
    ELSE IF IsEnqueue(op) THEN RunEnqueue(op) ELSE RunDequeue(op)

-----------------------------------------------------------------------------
(* FlushUnlocked: under mu_, TryAttemptLocked on the one deque and on the  *)
(* other until neither makes progress.                                     *)
LockForFlush(t) ==
    /\ pc[t] = "flush" /\ mu_ = Nobody
    /\ mu_' = t /\ attempting' = "kEnqueue" /\ changed' = "no"
    /\ refs' = refs + 1
    /\ Goto(t, "locked")
    /\ UNCHANGED <<workload, qvars, attempt, outcome, steps, clean_up, todo, cur, resource,
                   enqueued, taken>>

Attempts == IF attempting = "kEnqueue" THEN enqueue_attempts_ ELSE dequeue_attempts_

PopAttempt ==
    IF attempting = "kEnqueue"
    THEN enqueue_attempts_' = Tail(enqueue_attempts_) /\ UNCHANGED dequeue_attempts_
    ELSE dequeue_attempts_' = Tail(dequeue_attempts_) /\ UNCHANGED enqueue_attempts_

NeverSkipped(op) == TRUE
StillWanted(op) == is_cancelled[op] = "no"

SkipCancelled(t) ==
    /\ mu_ = t /\ Attempts # <<>> /\ ~StillWanted(Head(Attempts))
    /\ PopAttempt
    /\ UNCHANGED <<workload, queues_, closed_, attempt, flush, outcome, steps, threads, refs,
                   resource, enqueued, taken>>

(* The loop over a deque is left: on to the other one, or out.             *)
FlushesOnce(t, progress) ==
    \/ /\ attempting = "kEnqueue"
       /\ attempting' = "kDequeue" /\ changed' = progress
       /\ UNCHANGED <<mu_, pc, refs>>
    \/ /\ attempting = "kDequeue"
       /\ mu_' = Nobody /\ refs' = refs - 1 /\ Goto(t, "clean")
       /\ UNCHANGED <<attempting, changed>>
LeavesLoop(t, progress) ==
    \/ /\ attempting = "kEnqueue"
       /\ attempting' = "kDequeue" /\ changed' = progress
       /\ UNCHANGED <<mu_, pc, refs>>
    \/ /\ attempting = "kDequeue" /\ (progress = "yes" \/ changed = "yes")
       /\ attempting' = "kEnqueue" /\ changed' = "no"
       /\ UNCHANGED <<mu_, pc, refs>>
    \/ /\ attempting = "kDequeue" /\ progress = "no" /\ changed = "no"
       /\ mu_' = Nobody /\ refs' = refs - 1 /\ Goto(t, "clean")
       /\ UNCHANGED <<attempting, changed>>

NoAttemptsLeft(t) ==
    /\ mu_ = t /\ Attempts = <<>>
    /\ LeavesLoop(t, changed)
    /\ UNCHANGED <<workload, qvars, attempt, outcome, steps, clean_up, todo, cur, resource,
                   enqueued, taken>>

NewElements(q) == SubSeq(q, Len(queues_) + 1, Len(q))

TryAttempt(t) ==
    /\ mu_ = t /\ Attempts # <<>> /\ StillWanted(Head(Attempts))
    /\ \E out \in RunCallback(Head(Attempts)) :
       LET op == Head(Attempts) IN
          /\ queues_' = out.queues_ /\ closed_' = out.closed_
          /\ status' = [status EXCEPT ![op] = out.status]
          /\ elements_requested' =
                [elements_requested EXCEPT ![op] = out.elements_requested]
          /\ tuple' = [tuple EXCEPT ![op] = out.tuple]
          /\ result' = [result EXCEPT ![op] = out.result]
          /\ enqueued' = IF IsEnqueue(op)
                         THEN enqueued \o NewElements(out.queues_) ELSE enqueued
          /\ taken' = taken \o out.result
          /\ IF out.run = "kComplete"
             THEN /\ clean_up' = [clean_up EXCEPT ![t] = Append(@, op)]
                  /\ PopAttempt
                  /\ changed' = "yes"
                  /\ UNCHANGED <<mu_, attempting, pc, refs>>
             ELSE /\ LeavesLoop(t, IF out.run = "kProgress" THEN "yes" ELSE changed)
                  /\ UNCHANGED <<clean_up, enqueue_attempts_, dequeue_attempts_>>
    /\ UNCHANGED <<workload, is_cancelled, calls, steps, todo, cur, resource>>

(* The loop over clean_up, without mu_: DeregisterCallback may block.      *)
CleanUp(t) ==
    /\ pc[t] = "clean" /\ clean_up[t] # <<>>
    /\ LET op == Head(clean_up[t])
           m == cm[step[op]] IN
       /\ token[op] # kInvalidToken => ~MustWait(m)
       /\ cm' = IF token[op] # kInvalidToken /\ IsLive(m)
                THEN [cm EXCEPT ![step[op]] = Erase(m, token[op])] ELSE cm
       /\ Finished(op)
    /\ clean_up' = [clean_up EXCEPT ![t] = Tail(@)]
    /\ UNCHANGED <<workload, qvars, attempt, flush, status, result, life, token, pc, todo, cur,
                   resource, enqueued, taken>>

CleanedUp(t) ==
    /\ pc[t] = "clean" /\ clean_up[t] = <<>>
    /\ IF t \in Step THEN Goto(t, "cancelling") /\ UNCHANGED <<calls, refs>>
       ELSE /\ Goto(t, "returned")
            /\ IF kind[t] = "CloseAndCancel" THEN Finished(t)
                                             ELSE UNCHANGED <<calls, refs>>
    /\ UNCHANGED <<workload, qvars, attempt, flush, status, result, steps, clean_up, todo, cur,
                   resource, enqueued, taken>>

-----------------------------------------------------------------------------
(* StartCancel of a step's manager, called when the step is cancelled, or  *)
(* by the manager's destructor when the step is over.                      *)
StartCancel(s) ==
    /\ life[s] = "running" /\ pc[s] = "idle"
    /\ s \in Cancellable \/ (OpsDone(s) /\ cm[s].callbacks # {})
    /\ todo' = [todo EXCEPT ![s] = cm[s].callbacks]
    /\ cm' = [cm EXCEPT ![s] = BeginCancel(@)]
    /\ Goto(s, "cancelling")
    /\ UNCHANGED <<workload, qvars, attempt, flush, outcome, life, token, clean_up, cur, refs,
                   resource, enqueued, taken>>

(* Cancel(action, cm, token), under mu_: the attempts registered with this *)
(* manager and token, first one first.                                     *)
LooksAtEnqueuesOnly(op) == enqueue_attempts_
Deque(op) == IF IsEnqueue(op) THEN enqueue_attempts_ ELSE dequeue_attempts_

AttemptsOf(s, op) ==
    {i \in DOMAIN Deque(op) : /\ address[step[Deque(op)[i]]] = address[s]
                              /\ token[Deque(op)[i]] = token[op]}
Found(s, op) ==
    {Deque(op)[i] : i \in {j \in AttemptsOf(s, op) :
                              /\ \A k \in AttemptsOf(s, op) : j <= k
                              /\ is_cancelled[Deque(op)[j]] = "no"}}

CallbackOf(s, tok) == CHOOSE op \in Op : step[op] = s /\ token[op] = tok

Cancel(s, tok) ==
    LET found == Found(s, CallbackOf(s, tok)) IN
    /\ pc[s] = "cancelling" /\ tok \in todo[s] /\ mu_ = Nobody
    /\ todo' = [todo EXCEPT ![s] = @ \ {tok}]
    /\ \/ \E op \in found :
             /\ is_cancelled' = [is_cancelled EXCEPT ![op] = "yes"]
             /\ status' = [status EXCEPT ![op] = "cancelled"]
             /\ taken' = IF IsDequeue(op) THEN taken \o tuple[op] ELSE taken
             /\ cur' = [cur EXCEPT ![s] = op]
             /\ Goto(s, "callback")
       \/ found = {} /\ UNCHANGED <<is_cancelled, status, taken, cur, pc>>
    /\ UNCHANGED <<workload, qvars, elements_requested, tuple, flush, result, calls, steps,
                   clean_up, refs, resource, enqueued>>

CancelCalls(s) ==
    /\ pc[s] = "callback"
    /\ Finished(cur[s])
    /\ cur' = [cur EXCEPT ![s] = Nobody]
    /\ Goto(s, "flush")
    /\ UNCHANGED <<workload, qvars, attempt, flush, status, result, steps, clean_up, todo,
                   resource, enqueued, taken>>

StartCancelReturns(s) ==
    /\ pc[s] = "cancelling" /\ todo[s] = {}
    /\ cm' = [cm EXCEPT ![s] = NotifyCancelled(EndCancel(@))]
    /\ Goto(s, "returned")
    /\ UNCHANGED <<workload, qvars, attempt, flush, outcome, life, token, clean_up, todo, cur,
                   refs, resource, enqueued, taken>>

AllOver == (\A s \in Step : life[s] = "over") /\ (\A t \in Thread : pc[t] = "returned")
Terminated == AllOver /\ UNCHANGED vars

StepOf(t) ==
    \/ LockForFlush(t) \/ SkipCancelled(t) \/ NoAttemptsLeft(t) \/ TryAttempt(t)
    \/ CleanUp(t) \/ CleanedUp(t)

OpStep(op) ==
    \/ LookupFails(op) \/ Trivial(op) \/ SizeFails(op) \/ RegisterAttempt(op)
    \/ AlreadyCancelled(op) \/ Close(op) \/ CloseAndCancel(op) \/ CallCancelled(op)
    \/ CalledCancelled(op)

CancelStep(s) ==
    \/ (\E tok \in todo[s] : Cancel(s, tok)) \/ CancelCalls(s) \/ StartCancelReturns(s)

Next ==
    \/ \E op \in Op : OpStep(op)
    \/ \E t \in Thread : StepOf(t)
    \/ \E s \in Step : StartStep(s) \/ EndStep(s) \/ StartCancel(s) \/ CancelStep(s)
    \/ ClearContainer
    \/ Terminated

Spec == Init /\ [][Next]_vars

(* While a flush, a kernel inside a callback, or a StartCancel can go on,  *)
(* one of them does; each makes finitely many steps, so none is put off    *)
(* for ever.  Nothing makes a step start or be cancelled.                  *)
ThreadStep ==
    \/ \E t \in Thread : StepOf(t)
    \/ \E op \in Op : CallCancelled(op) \/ CalledCancelled(op)
    \/ \E s \in Step : CancelStep(s)

FairSpec == Spec /\ WF_vars(ThreadStep)

-----------------------------------------------------------------------------
Elements == {Garbage} \cup UNION {{Element(op, i) : i \in 1..elements[op]} : op \in Op}

Status == {"ok", "cancelled", "out_of_range", "exhausted", "data_loss", "not_found"}

TypeOK ==
    /\ workload \in DOMAIN Workloads
    /\ queues_ \in Seq(Elements) /\ closed_ \in {"yes", "no"}
    /\ enqueue_attempts_ \in Seq(Op) /\ dequeue_attempts_ \in Seq(Op)
    /\ elements_requested \in [Op -> Nat] /\ tuple \in [Op -> Seq(Elements)]
    /\ is_cancelled \in [Op -> {"yes", "no"}]
    /\ mu_ \in Thread \cup {Nobody} /\ attempting \in {"kEnqueue", "kDequeue"}
    /\ changed \in {"yes", "no"}
    /\ status \in [Op -> Status]
    /\ result \in [Op -> Seq(Elements)] /\ calls \in [Op -> Nat]
    /\ cm \in [Step -> Managers(Nat)]
    /\ life \in [Step -> {"new", "running", "over"}]
    /\ token \in [Op -> Nat \cup {kInvalidToken}]
    /\ pc \in [Thread -> {"idle", "calling", "flush", "locked", "clean",
                          "cancelling", "callback", "returned"}]
    /\ clean_up \in [Thread -> Seq(Op)] /\ todo \in [Step -> SUBSET Nat]
    /\ cur \in [Step -> Op \cup {Nobody}]
    /\ refs \in Int /\ resource \in {"there", "gone"}
    /\ enqueued \in Seq(Elements) /\ taken \in Seq(Elements)

(* The dequeues that wait with a batch filled in part.                     *)
Filling ==
    {op \in Range(dequeue_attempts_) : is_cancelled[op] = "no" /\ tuple[op] # <<>>}
PartialBatch == IF Filling = {} THEN <<>> ELSE tuple[CHOOSE op \in Filling : TRUE]

(* Elements come out in the order they went in, each once, whoever takes   *)
(* them in whatever batches, and a batch that cannot be filled when the    *)
(* queue is closed is put back where it came from.  Only a cancelled       *)
(* DequeueMany takes elements with it that nobody gets, and an element is  *)
(* garbled only if some kernel reports a data loss.                        *)
FirstInFirstOut ==
    LET all == taken \o PartialBatch \o queues_ IN
    /\ \A o1, o2 \in Filling : o1 = o2
    /\ Len(all) = Len(enqueued)
    /\ \A i \in DOMAIN all :
          \/ all[i] = enqueued[i]
          \/ all[i] = Garbage /\ (\E op \in Op : status[op] = "data_loss")

InDeques(op) ==
    op \in Range(enqueue_attempts_) \cup Range(dequeue_attempts_)

AnsweredBy(op) ==
    {t \in Thread : op \in Range(clean_up[t])}
    \cup {s \in Step : cur[s] = op}
    \cup {t \in Op : t = op /\ kind[op] = "CloseAndCancel"
                            /\ pc[op] \notin {"idle", "returned"}}
    \cup (IF InDeques(op) /\ is_cancelled[op] = "no" THEN {Nobody} ELSE {})

(* The done callback of a kernel is called exactly once: until then one    *)
(* place is responsible for it (the attempt, a clean_up list, the thread   *)
(* that cancelled it), and afterwards none.  (Size has no attempt: see     *)
(* SizeCallsDone.)                                                         *)
DoneExactlyOnce ==
    \A op \in Op : kind[op] # "Size" =>
        /\ calls[op] <= 1
        /\ Cardinality(AnsweredBy(op)) =
              IF pc[op] = "idle" \/ calls[op] = 1 THEN 0 ELSE 1

Quiet == \A t \in Thread : pc[t] \notin {"flush", "locked", "calling", "callback"}

Blocked(attempts) ==
    \/ attempts = <<>>
    \/ /\ is_cancelled[Head(attempts)] = "no"
       /\ RunCallback(Head(attempts)) = NoProgress(Head(attempts))

(* No wakeup is lost: when nobody is about to call FlushUnlocked, what is  *)
(* at the front of either deque really cannot go on.                       *)
NothingLeftUndone ==
    Quiet => Blocked(enqueue_attempts_) /\ Blocked(dequeue_attempts_)

(* The status a kernel reports is what happened.                           *)
OutcomesAreTrue ==
    \A op \in Op : calls[op] > 0 =>
        CASE status[op] = "ok" /\ IsEnqueue(op) -> Range(Batch(op)) \subseteq Range(enqueued)
          [] status[op] = "ok" /\ kind[op] \in {"Dequeue", "DequeueMany"} ->
                Len(result[op]) = elements[op]
          [] status[op] = "ok" /\ kind[op] = "DequeueUpTo" ->
                /\ Len(result[op]) <= elements[op]
                /\ Len(result[op]) = 0 => elements[op] = 0
          [] status[op] = "out_of_range" -> closed_ = "yes" /\ result[op] = <<>>
          [] OTHER -> result[op] = <<>>

(* Whoever waits on a queue that is closed, or in a step that is           *)
(* cancelled, gets an answer, whatever Close, Cancel and the flushes of    *)
(* other threads do meanwhile.  (Size is SizeCallsDone's.)                 *)
NobodyWaitsForEver ==
    <>[](\A op \in Op :
           /\ pc[op] # "idle" /\ kind[op] # "Size"
           /\ \/ closed_ = "yes"
              \/ ~IsLive(cm[step[op]]) /\ token[op] # kInvalidToken
           => calls[op] > 0)

(* data_flow_ops.cc calls capacity "the upper bound on the number of       *)
(* elements in this queue".                                                *)
WithinCapacity == Len(queues_) <= capacity_

(* cancellation.h requires of a callback that it "does not invoke any      *)
(* method on this cancellation manager": the thread inside StartCancel     *)
(* does not deregister callbacks of that manager.                          *)
CallbackLeavesManagerAlone ==
    \A s \in Step : pc[s] = "clean" /\ clean_up[s] # <<>> =>
        LET op == Head(clean_up[s]) IN
        token[op] # kInvalidToken => step[op] # s

(* RefCounted::Ref asserts that there is a reference: FlushUnlocked is     *)
(* called on a queue that exists.                                          *)
FlushHasReference == \A t \in Thread : pc[t] = "flush" => refs >= 1

(* A kernel that returned has called done.                                 *)
SizeCallsDone ==
    \A op \in Op : kind[op] = "Size" /\ pc[op] = "returned" => calls[op] = 1

=============================================================================
