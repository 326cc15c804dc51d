----------------------- MODULE ExecutorBarrierProofs -----------------------
(***************************************************************************)
(* TLAPS proofs about the barrier of a step, for any finite set of         *)
(* executors with any sends and receives on a rendezvous that does not     *)
(* tolerate duplicate receives.  The invariant of the rendezvous itself    *)
(* is that of RendezvousSteps: a step of the composition is a step of the  *)
(* rendezvous or leaves it alone.                                          *)
(***************************************************************************)
EXTENDS ExecutorBarrier, RendezvousProofs, FiniteSetTheorems

Reported == {"told", "abort", "over"}
Unreported == {e \in Executor : exec[e] \notin Reported}

BTypes ==
    /\ exec \in [Executor -> {"new", "running", "aborting", "aborted",
                              "reporting", "told", "abort", "over"}]
    /\ es \in [Executor -> {"ok", "error"}]
    /\ pending_ \in Int /\ rendez \in Int /\ aborts \in Int
    /\ bstatus \in {"ok", "error"} /\ error \subseteq Executor
    /\ last \in Executor \cup {Nobody} /\ aborter \in Executor \cup {Nobody}
    /\ barrier \in {"alive", "deleted"}
    /\ final \in {"none", "ok", "error", "ok_released", "error_released"}

(* pending_ counts the executors that have not reported, so that the one   *)
(* that takes done_cb_ is the last of them; it calls done once.            *)
CountInv ==
    /\ pending_ = Cardinality(Unreported)
    /\ last # Nobody => pending_ = 0
DoneInv ==
    /\ barrier = "deleted" <=> final # "none"
    /\ barrier = "deleted" => last \in Executor /\ exec[last] = "over"
    /\ final \in {"ok", "ok_released"} => bstatus = "ok"
    /\ final \in {"error", "error_released"} => bstatus = "error"

(* status_ is bad as soon as an executor has reported an error.            *)
StatusInv ==
    bstatus = "ok" <=> \A e \in Executor : exec[e] \in Reported => es[e] = "ok"

(* References on the rendezvous: the owner's, and that of the executor     *)
(* that was the first with an error until it has aborted the rendezvous.   *)
RefInv ==
    /\ rendez = (IF Released THEN 0 ELSE 1) + (IF error = {} THEN 0 ELSE 1)
    /\ \A e, f \in error : e = f
AbortInv ==
    /\ bstatus = "ok" => error = {} /\ aborts = 0
    /\ bstatus = "error" => aborts = 1 \/ (error # {} /\ aborts = 0)
    /\ \A e \in Executor : exec[e] = "abort" => e \in error
    /\ \A e \in error : \/ exec[e] = "told" /\ aborts = 0
                        \/ exec[e] = "abort" /\ aborts = 1

(* Whoever works through the items of StartAbort is still in it.           *)
LoopInv ==
    \A k \in Key : items[k].there # "no" =>
        aborter \in Executor /\ exec[aborter] \in {"aborted", "abort"}

(* An executor that has not started, or is about to report, has no receive *)
(* outstanding.                                                            *)
Quiet == {"new", "reporting"} \cup Reported
RecvInv ==
    \A e \in Executor : exec[e] \in Quiet /\ RecvOf[e] # Nobody =>
        recv[RecvOf[e]] \in {"idle", "done"}

BInv == /\ IInv /\ BTypes /\ CountInv /\ DoneInv /\ StatusInv
        /\ RefInv /\ AbortInv /\ LoopInv /\ RecvInv

USE SMTT(30)
USE BarrierAssumption

-----------------------------------------------------------------------------
(* What the composition does to the rendezvous.                            *)
LEMMA RendezvousStep ==
    ASSUME ~tolerate_dup_recv, IInv, BNext PROVE IInv' /\ [Next]_vars
<1>1. ASSUME NEW e \in Executor, CallStartAbort(e) PROVE [Next]_vars
    BY <1>1 DEF CallStartAbort, Next
<1>2. ASSUME NEW e \in Executor, MakeCalls(e) PROVE Next
    BY <1>2 DEF MakeCalls, Next
<1>3. ASSUME NEW e \in Executor, Step(e) PROVE [Next]_vars
    BY <1>1, <1>2, <1>3
       DEF Step, RunAsync, RunAsyncFails, NodeFails, AbortRun, Finish, WhenDone,
           BarrierAborts, BarrierAborted, WhenDoneReturns
<1>4. [Next]_vars
    BY <1>3 DEF BNext, AbortLoop, Next, OwnerUnref, Terminated, allvars
<1> QED BY <1>4, NextInv

LEMMA AbortFacts ==
    ASSUME NEW e \in Executor, CallStartAbort(e)
    PROVE  /\ recv' = recv
           /\ status_ = "ok" => aborter' = e
           /\ status_ # "ok" => aborter' = aborter /\ items' = items
BY DEF CallStartAbort, StartAbort, vars, rvars

(* Which steps of the rendezvous leave which of its parts alone.           *)
LEMMA CallsFacts ==
    ASSUME IInv, BTypes, RecvInv, NEW e \in Executor, MakeCalls(e)
    PROVE  items' = items /\ RecvInv'
<1> USE DEF IInv, TypeOK, BTypes, bvars
<1>1. CASE exec[e] = "running" /\ RecvOf[e] # Nobody /\
           LET r == RecvOf[e] IN
             RecvAborted(r) \/ RecvDuplicate(r) \/ RecvFinds(r) \/ RecvWaits(r)
    <2>1. PICK x \in {"calling", "waiting"} : recv' = [recv EXCEPT ![RecvOf[e]] = x]
        BY <1>1 DEF RecvAborted, RecvDuplicate, RecvFinds, RecvWaits, Captured
    <2>2. items' = items /\ exec' = exec
        BY <1>1, Zenon DEF RecvAborted, RecvDuplicate, RecvFinds, RecvWaits, Captured,
                           MakeCalls
    <2>3. \A f \in Executor : exec[f] \in Quiet /\ RecvOf[f] # Nobody =>
                                 RecvOf[f] # RecvOf[e]
        BY <1>1 DEF Quiet, Reported
    <2> QED BY <1>1, <2>1, <2>2, <2>3 DEF RecvInv
<1>2. CASE SendOf[e] # Nobody /\
           LET s == SendOf[e] IN
             SendAborted(s) \/ SendStores(s) \/ SendDuplicate(s) \/ SendTakesWaiter(s)
    <2>1. recv' = recv /\ items' = items /\ exec' = exec
        BY <1>2, Zenon DEF SendAborted, SendStores, SendDuplicate, SendTakesWaiter, rvars,
                    MakeCalls
    <2> QED BY <2>1 DEF RecvInv
<1>3. CASE RecvOf[e] # Nobody /\ RecvCalls(RecvOf[e])
    BY <1>3 DEF RecvCalls, RecvInv, MakeCalls
<1>4. CASE SendOf[e] # Nobody /\ SendCallsWaiter(SendOf[e])
    BY <1>4 DEF SendCallsWaiter, Done, RecvInv, MakeCalls, SendersOK, CallingOK
<1> QED BY <1>1, <1>2, <1>3, <1>4 DEF MakeCalls

(* When nobody is left to report, everybody has.                           *)
LEMMA ZeroMeansAll ==
    ASSUME CountInv, pending_ = 0 PROVE Unreported = {}
<1>1. IsFiniteSet(Unreported)
    BY FS_Subset DEF Unreported
<1> QED BY Zenon, <1>1, FS_EmptySet DEF CountInv

LEMMA BInitInv == BInit => BInv
<1> SUFFICES ASSUME BInit PROVE BInv
    OBVIOUS
<1>1. IInv
    BY InitInv DEF BInit
<1>2. BTypes
    BY FS_CardinalityType DEF BInit, BTypes
<1>3. CountInv
    <2>1. Unreported = Executor
        BY DEF Unreported, Reported, BInit
    <2> QED BY <2>1 DEF CountInv, BInit
<1>4. DoneInv /\ StatusInv /\ RefInv /\ AbortInv
    BY DEF BInit, DoneInv, StatusInv, RefInv, AbortInv, Released, Reported
<1>5. LoopInv /\ RecvInv
    BY DEF BInit, Init, LoopInv, RecvInv, NoItem
<1> QED BY <1>1, <1>2, <1>3, <1>4, <1>5 DEF BInv

(* The steps of an executor before it reports.                             *)
LEMMA WorkInv ==
    ASSUME BInv, IInv', NEW e \in Executor,
           RunAsync(e) \/ RunAsyncFails(e) \/ NodeFails(e) \/ Finish(e) \/ AbortRun(e)
    PROVE  BInv'
<1> USE DEF BInv
<1>1. PICK p \in {"running", "aborting", "aborted", "reporting"} :
          exec' = [exec EXCEPT ![e] = p]
    BY DEF RunAsync, RunAsyncFails, NodeFails, Finish, AbortRun, Goto
<1>2. /\ exec[e] \notin Reported
      /\ UNCHANGED <<pending_, bstatus, error, last, barrier, rendez, final, aborts, recv>>
    BY AbortFacts, Zenon
       DEF RunAsync, RunAsyncFails, NodeFails, Finish, AbortRun, Reported, vars
<1>3. es' \in [Executor -> {"ok", "error"}] /\ \A f \in Executor \ {e} : es'[f] = es[f]
    BY DEF RunAsync, RunAsyncFails, NodeFails, Finish, AbortRun, Fail, BTypes
<1>4. aborter' \in Executor \cup {Nobody}
    BY Zenon, AbortFacts DEF RunAsync, RunAsyncFails, NodeFails, Finish, AbortRun, BTypes
<1>5. BTypes'
    BY Zenon, <1>1, <1>2, <1>3, <1>4 DEF BTypes
<1>6. CountInv'
    <2>1. Unreported' = Unreported
        BY <1>1, <1>2 DEF Unreported, Reported, BTypes
    <2> QED BY <1>2, <2>1 DEF CountInv
<1>7. DoneInv'
    BY <1>1, <1>2 DEF DoneInv, BTypes, Reported
<1>8. StatusInv'
    BY <1>1, <1>2, <1>3 DEF StatusInv, BTypes, Reported
<1>9. RefInv'
    BY <1>2 DEF RefInv, Released
<1>10. AbortInv'
    BY <1>1, <1>2 DEF AbortInv, BTypes, Reported
<1>11. LoopInv'
    <2>1. CASE AbortRun(e)
        BY <2>1, AbortFacts DEF AbortRun, Goto, LoopInv, BTypes
    <2>2. CASE ~AbortRun(e)
        BY <2>2 DEF RunAsync, RunAsyncFails, NodeFails, Finish, Goto, vars, LoopInv,
                    StartAbortReturns, BTypes
    <2> QED BY <2>1, <2>2
<1>12. RecvInv'
    <2>1. p = "reporting" /\ RecvOf[e] # Nobody => recv[RecvOf[e]] \in {"idle", "done"}
        BY <1>1 DEF RunAsync, RunAsyncFails, NodeFails, Finish, AbortRun, Goto, BTypes,
                    RecvInv, Quiet, RecvOk
    <2> QED BY <1>1, <1>2, <2>1 DEF RecvInv, Quiet, Reported, BTypes
<1> QED BY <1>5, <1>6, <1>7, <1>8, <1>9, <1>10, <1>11, <1>12

(* WhenDone under mu_.                                                     *)
LEMMA WhenDoneInv ==
    ASSUME BInv, IInv', NEW e \in Executor, WhenDone(e) PROVE BInv'
<1> USE DEF BInv
<1>1. /\ exec[e] = "reporting" /\ exec' = [exec EXCEPT ![e] = "told"]
      /\ pending_' = pending_ - 1 /\ last' = TakesDone(e)
      /\ UNCHANGED <<es, aborter, barrier, final, aborts, items, recv>>
    BY DEF WhenDone, Goto, vars
<1>2. IF bstatus = "ok" /\ es[e] # "ok"
      THEN bstatus' = "error" /\ error' = error \cup {e} /\ rendez' = rendez + 1
      ELSE bstatus' = bstatus /\ error' = error /\ rendez' = rendez
    BY DEF WhenDone, FirstStatus, MustAbort, TakesReference, IsFirstError, BTypes
<1>3. /\ e \in Unreported /\ Unreported' = Unreported \ {e}
      /\ IsFiniteSet(Unreported) /\ pending_ # 0
    <2>1. e \in Unreported /\ IsFiniteSet(Unreported)
        BY <1>1, FS_Subset DEF Unreported, Reported
    <2>2. Unreported' = Unreported \ {e}
        BY <1>1 DEF Unreported, Reported, BTypes
    <2> QED BY <2>1, <2>2, ZeroMeansAll
<1>4. last = Nobody /\ barrier = "alive" /\ final = "none"
    BY <1>3 DEF CountInv, DoneInv, BTypes
<1>5. BTypes'
    BY <1>1, <1>2 DEF BTypes, TakesDone
<1>6. CountInv'
    <2>1. Cardinality(Unreported') = pending_ - 1
        BY Zenon, <1>3, FS_RemoveElement DEF CountInv
    <2> QED BY <1>1, <1>4, <2>1 DEF CountInv, TakesDone
<1>7. DoneInv'
    BY <1>1, <1>4 DEF DoneInv
<1>8. StatusInv'
    BY <1>1, <1>2 DEF StatusInv, BTypes, Reported
<1>9. RefInv'
    BY <1>1, <1>2 DEF RefInv, AbortInv, Released, BTypes
<1>10. AbortInv'
    BY <1>1, <1>2 DEF AbortInv, BTypes
<1>11. LoopInv'
    BY <1>1 DEF LoopInv, BTypes
<1>12. RecvInv'
    BY <1>1 DEF RecvInv, Quiet, Reported, BTypes
<1> QED BY <1>5, <1>6, <1>7, <1>8, <1>9, <1>10, <1>11, <1>12

(* The abort by the executor that was the first with an error, its end,    *)
(* and done for the last caller.                                           *)
LEMMA AfterWhenDoneInv ==
    ASSUME BInv, IInv', NEW e \in Executor,
           BarrierAborts(e) \/ BarrierAborted(e) \/ WhenDoneReturns(e)
    PROVE  BInv'
<1> USE DEF BInv
<1>1. PICK p \in Reported : exec' = [exec EXCEPT ![e] = p]
    BY DEF BarrierAborts, BarrierAborted, WhenDoneReturns, Goto, Reported
<1>2. exec[e] \in {"told", "abort"} /\ UNCHANGED <<es, pending_, bstatus, last, recv>>
    BY AbortFacts DEF BarrierAborts, BarrierAborted, WhenDoneReturns, vars
<1>3. CountInv'
    <2>1. Unreported' = Unreported
        BY <1>1, <1>2 DEF Unreported, Reported, BTypes
    <2> QED BY <1>2, <2>1 DEF CountInv
<1>4. StatusInv'
    BY <1>1, <1>2 DEF StatusInv, BTypes, Reported
<1>5. RecvInv'
    BY <1>1, <1>2 DEF RecvInv, Quiet, Reported, BTypes
<1>6. ASSUME BarrierAborts(e) PROVE BTypes' /\ DoneInv' /\ RefInv' /\ AbortInv' /\ LoopInv'
    <2>1. /\ exec[e] = "told" /\ e \in error /\ exec' = [exec EXCEPT ![e] = "abort"]
          /\ aborts' = aborts + 1 /\ UNCHANGED <<error, barrier, rendez, final>>
        BY <1>6 DEF BarrierAborts, Goto
    <2>2. aborter' \in Executor \cup {Nobody}
        BY <1>6, AbortFacts DEF BarrierAborts, BTypes
    <2>3. BTypes'
        BY <1>2, <2>1, <2>2 DEF BTypes
    <2>4. DoneInv' /\ RefInv'
        BY <1>2, <2>1 DEF DoneInv, RefInv, Released, BTypes
    <2>5. AbortInv'
        BY <1>2, <2>1 DEF AbortInv, RefInv, BTypes
    <2>6. LoopInv'
        BY <1>6, <2>1, AbortFacts DEF BarrierAborts, LoopInv, BTypes
    <2> QED BY <2>3, <2>4, <2>5, <2>6
<1>7. ASSUME BarrierAborted(e) PROVE BTypes' /\ DoneInv' /\ RefInv' /\ AbortInv' /\ LoopInv'
    <2>1. /\ exec[e] = "abort" /\ StartAbortReturns(e)
          /\ exec' = [exec EXCEPT ![e] = "told"] /\ error' = error \ {e}
          /\ rendez' = rendez - 1 /\ UNCHANGED <<aborter, barrier, final, aborts, items>>
        BY <1>7 DEF BarrierAborted, Goto, vars
    <2>2. BTypes'
        BY <1>2, <2>1 DEF BTypes
    <2>3. error = {e} /\ error' = {} /\ aborts = 1
        <3>1. e \in error /\ aborts = 1
            BY <2>1 DEF AbortInv
        <3>2. \A f \in error : f = e
            BY <3>1 DEF RefInv
        <3> QED BY <2>1, <3>1, <3>2
    <2>4. DoneInv'
        BY <1>2, <2>1 DEF DoneInv, BTypes
    <2>5. RefInv'
        BY <2>1, <2>3 DEF RefInv, Released, BTypes
    <2>6. AbortInv'
        BY <1>2, <2>1, <2>3 DEF AbortInv, BTypes
    <2>7. LoopInv'
        BY <2>1 DEF LoopInv, StartAbortReturns, BTypes
    <2> QED BY <2>2, <2>4, <2>5, <2>6, <2>7
<1>8. ASSUME WhenDoneReturns(e)
      PROVE  BTypes' /\ DoneInv' /\ RefInv' /\ AbortInv' /\ LoopInv'
    <2>1. /\ exec[e] = "told" /\ e \notin error /\ exec' = [exec EXCEPT ![e] = "over"]
          /\ UNCHANGED <<error, aborter, rendez, aborts, items>>
        BY <1>8 DEF WhenDoneReturns, Goto, vars
    <2>2. IF last = e THEN barrier' = "deleted" /\ final' = bstatus
                      ELSE barrier' = barrier /\ final' = final
        BY <1>8, Zenon DEF WhenDoneReturns
    <2>3. last = e => final = "none"
        BY <2>1 DEF DoneInv, BTypes
    <2>4. BTypes'
        BY <1>2, <2>1, <2>2 DEF BTypes
    <2>5. DoneInv'
        BY <1>2, <2>1, <2>2 DEF DoneInv, BTypes
    <2>6. RefInv'
        BY <2>1, <2>2, <2>3 DEF RefInv, Released, BTypes
    <2>7. AbortInv'
        BY <1>2, <2>1 DEF AbortInv, BTypes
    <2>8. LoopInv'
        BY <2>1 DEF LoopInv, BTypes
    <2> QED BY <2>4, <2>5, <2>6, <2>7, <2>8
<1> QED BY <1>3, <1>4, <1>5, <1>6, <1>7, <1>8

(* Steps inside the rendezvous, and the owner's Unref.                     *)
LEMMA OtherInv ==
    ASSUME BInv, IInv',
           (\E e \in Executor : MakeCalls(e)) \/ AbortLoop \/ OwnerUnref \/ UNCHANGED allvars
    PROVE  BInv'
<1> USE DEF BInv
<1>1. /\ UNCHANGED <<exec, es, pending_, bstatus, error, last, aborter, barrier, aborts>>
      /\ UNCHANGED <<rendez, final>> \/ OwnerUnref
    <2>1. ASSUME NEW e \in Executor, MakeCalls(e) PROVE UNCHANGED bvars
        BY <2>1, Zenon DEF MakeCalls
    <2>2. CASE UNCHANGED bvars
        BY <2>2 DEF bvars
    <2>3. CASE OwnerUnref
        BY <2>3 DEF OwnerUnref
    <2> QED BY <2>1, <2>2, <2>3 DEF AbortLoop, allvars
<1>2. CountInv' /\ StatusInv' /\ AbortInv'
    BY <1>1 DEF CountInv, StatusInv, AbortInv, Unreported
<1>3. BTypes' /\ DoneInv' /\ RefInv'
    <2>1. CASE OwnerUnref
        BY <1>1, <2>1 DEF OwnerUnref, BTypes, DoneInv, RefInv, Released
    <2>2. CASE UNCHANGED <<rendez, final>>
        BY <1>1, <2>2 DEF BTypes, DoneInv, RefInv, Released
    <2> QED BY <1>1, <2>1, <2>2
<1>4. LoopInv' /\ RecvInv'
    <2>1. CASE \E e \in Executor : MakeCalls(e)
        BY <1>1, <2>1, CallsFacts, Zenon DEF LoopInv
    <2>2. CASE AbortLoop
        <3>1. PICK k \in Key : AbortItem(k)
            BY <2>2 DEF AbortLoop
        <3>2. items' = [items EXCEPT ![k] = NoItem] /\ items[k].there = "yes"
            BY <3>1 DEF AbortItem
        <3>3. recv' = recv \/ \E r \in Receiver : recv' = [recv EXCEPT ![r] = "done"]
            <4>1. TypeOK
                BY DEF IInv
            <4>2. items[k].waiter \in Receiver \cup {Nobody}
                BY ONLY SMTT(30), <4>1, k \in Key DEF TypeOK, Items
            <4> QED BY ONLY SMTT(30), <3>1, <4>2 DEF AbortItem, Done, rvars
        <3>4. LoopInv'
            BY <1>1, <3>2, Zenon DEF LoopInv, NoItem, IInv, TypeOK
        <3>5. DOMAIN recv = Receiver /\ exec' = exec
            <4>1. TypeOK
                BY DEF IInv
            <4> QED BY ONLY SMTT(30), <1>1, <4>1 DEF TypeOK
        <3>6. \A r \in Receiver : recv'[r] \in {recv[r], "done"}
            BY ONLY SMTT(30), <3>3, <3>5
        <3>7. RecvInv'
            BY <3>5, <3>6 DEF RecvInv
        <3> QED BY <3>4, <3>7
    <2>3. CASE OwnerUnref \/ UNCHANGED allvars
        BY <1>1, <2>3, Zenon DEF OwnerUnref, allvars, vars, LoopInv, RecvInv
    <2> QED BY <2>1, <2>2, <2>3
<1> QED BY <1>2, <1>3, <1>4

LEMMA BNextInv == ASSUME ~tolerate_dup_recv, BInv, [BNext]_allvars PROVE BInv'
<1>1. CASE UNCHANGED allvars
    <2>1. IInv'
        BY <1>1, NextInv DEF allvars, BInv
    <2> QED BY <1>1, <2>1, OtherInv
<1>2. CASE BNext
    <2>1. IInv'
        BY <1>2, RendezvousStep DEF BInv
    <2> QED BY <1>2, <2>1, WorkInv, WhenDoneInv, AfterWhenDoneInv, OtherInv
               DEF BNext, Step, Terminated
<1> QED BY <1>1, <1>2

-----------------------------------------------------------------------------
(* WhenDone of ExecutorBarrier: whichever executors fail, done is called   *)
(* by the last one to report and once, with an error exactly when one was  *)
(* reported, and the rendezvous is aborted at most once, and once if an    *)
(* executor failed.                                                        *)
THEOREM BarrierKeepsItsPromise ==
    ASSUME ~tolerate_dup_recv PROVE BSpec => []BarrierIsTrue
<1>1. ASSUME BInv PROVE BarrierIsTrue
    <2> USE <1>1 DEF BInv
    <2>1. barrier = "deleted" => \A e \in Executor : exec[e] \in Reported
        BY ZeroMeansAll DEF DoneInv, CountInv, Unreported
    <2>2. DoneAfterAll
        BY <2>1 DEF DoneAfterAll, DoneInv, StatusInv, Reported, BTypes
    <2>3. aborts <= 1
        BY DEF AbortInv, BTypes
    <2>4. ASSUME \A e \in Executor : exec[e] = "over"
          PROVE  aborts = 1 <=> \E e \in Executor : es[e] = "error"
        BY <2>4 DEF AbortInv, StatusInv, Reported, BTypes
    <2> QED BY <2>2, <2>3, <2>4 DEF BarrierIsTrue, AbortedOnce
<1>2. BInv /\ [BNext]_allvars => BInv'
    BY BNextInv
<1> QED BY <1>1, <1>2, BInitInv, PTL DEF BSpec

(* The reference that WhenDone takes for its StartAbort: when the owner    *)
(* and the barrier have let the rendezvous go, no thread is in StartAbort  *)
(* and no receive waits in it.                                             *)
THEOREM RendezvousIsNotFreedInUse ==
    ASSUME ~tolerate_dup_recv PROVE BSpec => []RendezvousOutlivesUsers
<1>1. ASSUME BInv, rendez = 0
      PROVE  /\ \A e \in Executor : exec[e] \in {"told", "over"} /\ e \notin error
             /\ \A k \in Key : items[k].there = "no" /\ table_[k].waiter = Nobody
             /\ \A r \in Receiver : recv[r] \notin {"waiting", "calling"}
    <2> USE <1>1 DEF BInv
    <2>1. Released /\ error = {}
        BY DEF RefInv
    <2>2. \A e \in Executor : exec[e] \in Reported
        BY <2>1, ZeroMeansAll DEF Released, DoneInv, CountInv, Unreported
    <2>3. \A e \in Executor : exec[e] \in {"told", "over"}
        BY <2>1, <2>2 DEF Reported, AbortInv
    <2>4. \A r \in Receiver : recv[r] \in {"idle", "done"}
        BY <2>2, RendezvousAssumption DEF RecvInv, Quiet
    <2>5. \A k \in Key : items[k].there = "no"
        BY <2>3 DEF LoopInv
    <2>6. \A k \in Key : table_[k].waiter = Nobody
        <3>1. \A k \in Key : table_[k].waiter \in Receiver \cup {Nobody}
            BY DEF IInv, TypeOK, Items
        <3>2. \A k \in Key : table_[k].waiter # Nobody => recv[table_[k].waiter] = "waiting"
            BY Zenon DEF IInv, ItemsOK, ItemOK
        <3> QED BY <2>4, <3>1, <3>2
    <2> QED BY <2>1, <2>3, <2>4, <2>5, <2>6
<1>2. BInv => RendezvousOutlivesUsers
    BY <1>1 DEF RendezvousOutlivesUsers
<1>3. BInv /\ [BNext]_allvars => BInv'
    BY BNextInv
<1> QED BY <1>2, <1>3, BInitInv, PTL DEF BSpec
=============================================================================
