---------------------------- MODULE MCFIFOQueue ----------------------------
(* Workloads for FIFOQueue.                                                *)
EXTENDS FIFOQueue, TLC

StepName ==
    [e |-> "c_step", em |-> "em_step", d |-> "dm_step", dm |-> "dm_step", du |-> "du_step",
     c |-> "c_step", cc |-> "c_step", z |-> "c_step"]

(* Ops run in several steps, each with a manager of its own.               *)
InSteps(kinds, batch, capacity, cancellable, failing) ==
    [kind |-> kinds, elements |-> [op \in DOMAIN kinds |-> batch[op]],
     step |-> [op \in DOMAIN kinds |-> StepName[op]],
     address |-> [s \in {StepName[op] : op \in DOMAIN kinds} |-> s],
     capacity |-> capacity, cancellable |-> {StepName[op] : op \in cancellable},
     alloc_may_fail |-> failing, may_clear |-> failing]

(* A batch larger than the capacity goes in while a smaller one comes out. *)
Many ==
    InSteps([em |-> "EnqueueMany", dm |-> "DequeueMany", c |-> "Close"],
            [em |-> 3, dm |-> 2, c |-> 0], 1, {"em"}, FALSE)

(* The queue closes before the batch asked for can be filled.              *)
UpTo ==
    InSteps([em |-> "EnqueueMany", du |-> "DequeueUpTo", c |-> "Close"],
            [em |-> 3, du |-> 4, c |-> 0], 2, {"du"}, FALSE)

(* The batch asked for is larger than what is ever enqueued, and than the  *)
(* capacity it is put back to.                                             *)
Restoring ==
    InSteps([e |-> "EnqueueMany", dm |-> "DequeueMany", d |-> "Dequeue",
             c |-> "Close"],
            [e |-> 2, dm |-> 3, d |-> 1, c |-> 0], 1, {}, FALSE)

(* Allocations may fail, and the container may be cleared.                 *)
Failing ==
    InSteps([em |-> "EnqueueMany", dm |-> "DequeueMany",
             cc |-> "CloseAndCancel", z |-> "Size"],
            [em |-> 3, dm |-> 2, cc |-> 0, z |-> 0], 2, {}, TRUE)
FailingCancelled ==
    InSteps([e |-> "Enqueue", dm |-> "DequeueMany", cc |-> "CloseAndCancel"],
            [e |-> 1, dm |-> 2, cc |-> 0], 2, {"dm"}, TRUE)

(* Two enqueues of one step, which is cancelled.                           *)
OneStep ==
    [kind |-> [em |-> "EnqueueMany", e |-> "Enqueue", c |-> "Close"],
     elements |-> [em |-> 3, e |-> 1, c |-> 0],
     step |-> [em |-> "s", e |-> "s", c |-> "c_step"],
     address |-> [s \in {"s", "c_step"} |-> s],
     capacity |-> 1, cancellable |-> {"s"},
     alloc_may_fail |-> FALSE, may_clear |-> FALSE]

QueueWorkloads ==
    [many |-> Many, up_to |-> UpTo, restoring |-> Restoring, failing |-> Failing,
     failing_cancelled |-> FailingCancelled]
OneStepWorkloads == [one_step |-> OneStep]
=============================================================================
