-------------------------- MODULE ExecutorBarrier --------------------------
(***************************************************************************)
(* ExecutorBarrier (tensorflow/core/common_runtime/executor.h) with the    *)
(* executors of one step and the rendezvous they share.                    *)
(*                                                                         *)
(* An executor is what executor.cc shows to its environment: it makes its  *)
(* receive, then its send; it may fail before it starts (FillContextMap),  *)
(* at any node (which aborts the rendezvous), or in the final Sync; and it *)
(* calls the barrier when no call of its own is outstanding.  The step's   *)
(* owner holds one reference on the rendezvous and drops it after done.    *)
(***************************************************************************)
EXTENDS Rendezvous

CONSTANTS
    Executor,
    SendOf,     \* Executor -> its Sender, or Nobody
    RecvOf      \* Executor -> its Receiver, or Nobody

ASSUME BarrierAssumption ==
    /\ IsFiniteSet(Executor) /\ Nobody \notin Executor
    /\ SendOf \in [Executor -> Sender \cup {Nobody}]
    /\ RecvOf \in [Executor -> Receiver \cup {Nobody}]
    /\ \A r \in Receiver : \E e \in Executor : RecvOf[e] = r
    /\ \A e, f \in Executor : RecvOf[e] = RecvOf[f] /\ RecvOf[e] # Nobody => e = f

VARIABLES
    exec,       \* Executor -> its progress
    es,         \* Executor -> the status it reports
    pending_,   \* the barrier's counter
    bstatus,    \* the barrier's status_
    error,      \* executors that hold a reference to abort the rendezvous
    last,       \* the executor that has taken done_cb_, or Nobody
    aborter,    \* the executor whose StartAbort is the first, or Nobody
    barrier,    \* "alive" or "deleted"
    rendez,     \* reference count of the rendezvous
    final,      \* the status done was called with, or "none"
    aborts      \* history: calls of StartAbort made by the barrier

bvars == <<exec, es, pending_, bstatus, error, last, aborter, barrier, rendez,
           final, aborts>>
allvars == <<vars, bvars>>

BInit ==
    /\ Init
    /\ exec = [e \in Executor |-> "new"]
    /\ es = [e \in Executor |-> "ok"]
    /\ pending_ = Cardinality(Executor)
    /\ bstatus = "ok" /\ error = {} /\ last = Nobody /\ aborter = Nobody
    /\ barrier = "alive" /\ rendez = 1 /\ final = "none" /\ aborts = 0

Goto(e, at) == exec' = [exec EXCEPT ![e] = at]
Fail(e) == es' = [es EXCEPT ![e] = "error"]

SendOk(e) == SendOf[e] # Nobody => send[SendOf[e]] = "ok"
RecvOk(e) ==
    RecvOf[e] # Nobody => recv[RecvOf[e]] = "done" /\ rstatus[RecvOf[e]] = "ok"

-----------------------------------------------------------------------------
RunAsync(e) ==
    /\ exec[e] = "new"
    /\ Goto(e, "running")
    /\ UNCHANGED <<es, pending_, bstatus, error, last, aborter, barrier, rendez,
                   final, aborts>> /\ UNCHANGED vars

RunAsyncFails(e) ==
    /\ exec[e] = "new"
    /\ Goto(e, "reporting") /\ Fail(e)
    /\ UNCHANGED <<pending_, bstatus, error, last, aborter, barrier, rendez,
                   final, aborts>> /\ UNCHANGED vars

(* The calls a running executor makes on the rendezvous, and their ends.   *)
MakeCalls(e) ==
    /\ \/ /\ exec[e] = "running" /\ RecvOf[e] # Nobody
          /\ LET r == RecvOf[e] IN
             RecvAborted(r) \/ RecvDuplicate(r) \/ RecvFinds(r) \/ RecvWaits(r)
       \/ /\ exec[e] = "running" /\ SendOf[e] # Nobody /\ RecvOk(e)
          /\ LET s == SendOf[e] IN
             \/ SendAborted(s) \/ SendStores(s) \/ SendDuplicate(s)
             \/ SendTakesWaiter(s)
       \/ RecvOf[e] # Nobody /\ RecvCalls(RecvOf[e])
       \/ SendOf[e] # Nobody /\ SendCallsWaiter(SendOf[e])
    /\ UNCHANGED bvars

(* NodeDone with an error: of a kernel, or of the Send or Recv itself.     *)
NodeFails(e) ==
    /\ exec[e] = "running"
    /\ Goto(e, "aborting") /\ Fail(e)
    /\ UNCHANGED <<pending_, bstatus, error, last, aborter, barrier, rendez,
                   final, aborts>> /\ UNCHANGED vars

(* StartAbort, called by e: the first one works through the items.         *)
CallStartAbort(e) ==
    IF status_ = "ok" THEN StartAbort /\ aborter' = e
                      ELSE UNCHANGED vars /\ UNCHANGED aborter
StartAbortReturns(e) ==
    aborter = e => \A k \in Key : items[k].there = "no"

AbortRun(e) ==
    /\ exec[e] = "aborting"
    /\ CallStartAbort(e)
    /\ Goto(e, "aborted")
    /\ UNCHANGED <<es, pending_, bstatus, error, last, barrier, rendez, final,
                   aborts>>

AbortLoop ==
    /\ \E k \in Key : AbortItem(k)
    /\ UNCHANGED bvars

(* Finish, once nothing is outstanding; Sync may fail after a good run.    *)
Finish(e) ==
    /\ \/ /\ exec[e] = "running" /\ RecvOk(e) /\ SendOk(e)
          /\ es' \in {es, [es EXCEPT ![e] = "error"]}
       \/ /\ exec[e] = "aborted" /\ StartAbortReturns(e)
          /\ RecvOf[e] # Nobody => recv[RecvOf[e]] \in {"idle", "done"}
          /\ SendOf[e] # Nobody => send[SendOf[e]] # "calling"
          /\ es' = es
    /\ Goto(e, "reporting")
    /\ UNCHANGED <<pending_, bstatus, error, last, aborter, barrier, rendez,
                   final, aborts>> /\ UNCHANGED vars

-----------------------------------------------------------------------------
(* WhenDone, under mu_.                                                    *)
IsFirstError(e) == bstatus = "ok" /\ es[e] # "ok"

TakesNone(e) == rendez
TakesReference(e) == IF IsFirstError(e) THEN rendez + 1 ELSE rendez

LeavesWaiters(e) == FALSE
MustAbort(e) == IsFirstError(e)

LatestStatus(e) == es[e]
FirstStatus(e) == IF IsFirstError(e) THEN es[e] ELSE bstatus

TakesDone(e) == IF pending_ - 1 = 0 THEN e ELSE last

WhenDone(e) ==
    /\ exec[e] = "reporting"
    /\ Goto(e, "told")
    /\ bstatus' = FirstStatus(e)
    /\ error' = IF MustAbort(e) THEN error \cup {e} ELSE error
    /\ rendez' = TakesReference(e)
    /\ pending_' = pending_ - 1
    /\ last' = TakesDone(e)
    /\ UNCHANGED <<es, aborter, barrier, final, aborts>> /\ UNCHANGED vars

(* ... and after it: the abort, its end, and done for the last caller.     *)
BarrierAborts(e) ==
    /\ exec[e] = "told" /\ e \in error
    /\ CallStartAbort(e)
    /\ aborts' = aborts + 1
    /\ Goto(e, "abort")
    /\ UNCHANGED <<es, pending_, bstatus, error, last, barrier, rendez, final>>

BarrierAborted(e) ==
    /\ exec[e] = "abort" /\ StartAbortReturns(e)
    /\ Goto(e, "told")
    /\ error' = error \ {e}
    /\ rendez' = rendez - 1
    /\ UNCHANGED <<es, pending_, bstatus, last, aborter, barrier, final, aborts>>
    /\ UNCHANGED vars

WhenDoneReturns(e) ==
    /\ exec[e] = "told" /\ e \notin error
    /\ Goto(e, "over")
    /\ IF last = e THEN barrier' = "deleted" /\ final' = bstatus
                   ELSE UNCHANGED <<barrier, final>>
    /\ UNCHANGED <<es, pending_, bstatus, error, last, aborter, rendez, aborts>>
    /\ UNCHANGED vars

(* The owner of the step (RunState) lets the rendezvous go after done.     *)
OwnerUnref ==
    /\ final \in {"ok", "error"}
    /\ final' = IF final = "ok" THEN "ok_released" ELSE "error_released"
    /\ rendez' = rendez - 1
    /\ UNCHANGED <<exec, es, pending_, bstatus, error, last, aborter, barrier,
                   aborts>> /\ UNCHANGED vars

Terminated == final \in {"ok_released", "error_released"} /\ UNCHANGED allvars

Step(e) ==
    \/ RunAsync(e) \/ RunAsyncFails(e) \/ MakeCalls(e) \/ NodeFails(e)
    \/ AbortRun(e) \/ Finish(e) \/ WhenDone(e) \/ BarrierAborts(e)
    \/ BarrierAborted(e) \/ WhenDoneReturns(e)

BNext == (\E e \in Executor : Step(e)) \/ AbortLoop \/ OwnerUnref \/ Terminated

BSpec == BInit /\ [][BNext]_allvars

(* A Send or a Recv of e has ended with an error, which NodeDone reports.  *)
CallFailed(e) ==
    \/ RecvOf[e] # Nobody /\ recv[RecvOf[e]] = "done" /\ ~RecvOk(e)
    \/ SendOf[e] # Nobody /\ send[SendOf[e]] \in {"duplicate", "aborted"}

(* What e does by itself: nothing else makes a kernel, or the start, fail. *)
RunsOn(e) ==
    \/ RunAsync(e) \/ MakeCalls(e) \/ (CallFailed(e) /\ NodeFails(e))
    \/ AbortRun(e) \/ Finish(e) \/ WhenDone(e) \/ BarrierAborts(e)
    \/ BarrierAborted(e) \/ WhenDoneReturns(e)

(* Every executor is started, and its threads and those in the barrier and *)
(* the rendezvous run on.  That a kernel fails is never assumed.           *)
Fairness ==
    /\ \A e \in Executor : WF_allvars(RunsOn(e))
    /\ WF_allvars(AbortLoop)
FairBSpec == BSpec /\ Fairness

-----------------------------------------------------------------------------
Released == final \in {"ok_released", "error_released"}

BTypeOK ==
    /\ exec \in [Executor -> {"new", "running", "aborting", "aborted",
                              "reporting", "told", "abort", "over"}]
    /\ es \in [Executor -> {"ok", "error"}]
    /\ pending_ \in 0..Cardinality(Executor)
    /\ bstatus \in {"ok", "error"} /\ error \subseteq Executor
    /\ last \in Executor \cup {Nobody} /\ aborter \in Executor \cup {Nobody}
    /\ barrier \in {"alive", "deleted"} /\ rendez \in 0..2
    /\ final \in {"none", "ok", "error", "ok_released", "error_released"}
    /\ aborts \in Nat

(* done is called by one executor, after every executor has reported, with *)
(* an error if and only if one of them reported an error; until then the   *)
(* barrier exists.                                                         *)
DoneAfterAll ==
    barrier = "deleted" =>
        /\ \A e \in Executor : exec[e] \in {"told", "abort", "over"}
        /\ final \in {"ok", "ok_released"} <=>
              \A e \in Executor : es[e] = "ok"

(* executor.h: "If any of the executors experiences an error, the          *)
(* rendezvous object will be aborted exactly once."                        *)
AbortedOnce ==
    /\ aborts <= 1
    /\ Released /\ (\A e \in Executor : exec[e] = "over") =>
          (aborts = 1 <=> \E e \in Executor : es[e] = "error")

(* The barrier's promise to its owner, both parts of it.                   *)
BarrierIsTrue == DoneAfterAll /\ AbortedOnce

(* The rendezvous outlives everyone inside it: when the last reference is  *)
(* gone no thread is in StartAbort, and no waiter is dropped unanswered by *)
(* ~LocalRendezvousImpl.                                                   *)
RendezvousOutlivesUsers ==
    rendez = 0 =>
        /\ \A e \in Executor : exec[e] \in {"told", "over"} /\ e \notin error
        /\ \A k \in Key : items[k].there = "no" /\ table_[k].waiter = Nobody
        /\ \A r \in Receiver : recv[r] \notin {"waiting", "calling"}

(* Whatever fails, or does not, done is called: an executor that waits for *)
(* a message of one that failed, before it started or in the middle, is    *)
(* released by the abort, and no failure of its own is needed for that.    *)
StepCompletes == <>(final # "none")
=============================================================================
