------------------------ MODULE DirectSessionProofs ------------------------
(***************************************************************************)
(* TLAPS proofs about DirectSession: the cache of executors stays coherent,*)
(* the steps of the executors and of the closers preserve the invariant of *)
(* DirectSessionSteps, and the theorems.                                   *)
(***************************************************************************)
EXTENDS DirectSessionSteps

(* SMT has half a minute for a step; a step meant for Zenon says so.       *)
USE SMTT(30)

(* The cache maps a signature and its sorted form to the same executors,   *)
(* which are those that every call of that signature uses.                 *)
CacheInv ==
    /\ \A k \in Key : executors_[k] # Nobody => executors_[sorted[k]] = executors_[k]
    /\ \A r \in Call : uses[r] # Nobody =>
          executors_[key[r]] = uses[r] /\ executors_[sorted[key[r]]] = uses[r]

-----------------------------------------------------------------------------
(* Call r gets the executors e: those under the sorted key if there are    *)
(* any, and they are entered under both keys where there were none.        *)
Serves(r, e) ==
    /\ e # Nobody /\ uses' = [uses EXCEPT ![r] = e]
    /\ executors_[sorted[key[r]]] \in {e, Nobody}
    /\ \A k \in Key : executors_'[k] =
          IF k \in {key[r], sorted[key[r]]} /\ executors_[k] = Nobody
          THEN e ELSE executors_[k]

(* The three lookups, each under executor_lock_, keep the cache coherent.  *)
LEMMA CacheStep == TypeOK /\ CacheInv /\ [Next]_vars => CacheInv'
<1> SUFFICES ASSUME TypeOK, CacheInv, [Next]_vars PROVE CacheInv'
    OBVIOUS
<1>0. /\ executors_ \in [Key -> Call \cup {Nobody}] /\ uses \in [Call -> Call \cup {Nobody}]
      /\ \A k \in Key : sorted[k] \in Key /\ sorted[sorted[k]] = sorted[k]
      /\ \A r \in Call : key[r] \in Key /\ r # Nobody
      /\ \A k \in Key : executors_[k] # Nobody => executors_[sorted[k]] = executors_[k]
    BY SessionAssumption DEF TypeOK, CacheInv
<1> USE <1>0
<1>1. ASSUME NEW r \in Call, NEW e, Serves(r, e) PROVE CacheInv'
    <2>1. executors_'[key[r]] = e /\ executors_'[sorted[key[r]]] = e
        BY <1>1 DEF Serves
    <2>2. \A k \in Key : executors_[k] # Nobody => executors_'[k] = executors_[k]
        BY <1>1 DEF Serves
    <2>3. ASSUME NEW k \in Key, executors_'[k] # Nobody
          PROVE  executors_'[sorted[k]] = executors_'[k]
        <3>1. CASE executors_[k] # Nobody
            <4>1. executors_[sorted[k]] = executors_[k] /\ sorted[k] \in Key
                BY <3>1
            <4> QED BY <2>2, <3>1, <4>1
        <3>2. CASE executors_[k] = Nobody
            <4>1. k \in {key[r], sorted[key[r]]}
                BY <1>1, <2>3, <3>2 DEF Serves
            <4> QED BY <2>1, <4>1
        <3> QED BY <3>1, <3>2
    <2>4. ASSUME NEW q \in Call, uses'[q] # Nobody
          PROVE  executors_'[key[q]] = uses'[q] /\ executors_'[sorted[key[q]]] = uses'[q]
        <3>1. CASE q = r
            BY <1>1, <2>1, <3>1 DEF Serves
        <3>2. CASE q # r
            <4>1. uses'[q] = uses[q]
                BY <1>1, <3>2 DEF Serves
            <4>2. executors_[key[q]] = uses[q] /\ executors_[sorted[key[q]]] = uses[q]
                BY <2>4, <4>1 DEF CacheInv
            <4> QED BY <2>2, <2>4, <4>1, <4>2
        <3> QED BY <3>1, <3>2
    <2> QED BY <2>3, <2>4 DEF CacheInv
<1>4. CASE UNCHANGED <<executors_, uses>>
    BY <1>4 DEF CacheInv
<1>2. ASSUME NEW r \in Call, FastLookup(r) \/ SortedLookup(r) PROVE CacheInv'
    <2>1. CASE FastLookup(r) /\ executors_[key[r]] # Nobody
        <3>1. PICK e : e = executors_[key[r]]
            OBVIOUS
        <3>2. uses' = [uses EXCEPT ![r] = e] /\ executors_' = executors_ /\ e # Nobody
            BY <2>1, <3>1 DEF FastLookup
        <3>3. executors_[sorted[key[r]]] = e
            BY <2>1, <3>1
        <3>4. Serves(r, e)
            BY <3>1, <3>2, <3>3 DEF Serves
        <3> QED BY <1>1, <3>4
    <2>2. CASE SortedLookup(r) /\ executors_[sorted[key[r]]] # Nobody
        <3>1. PICK e : e = executors_[sorted[key[r]]]
            OBVIOUS
        <3>2. uses' = [uses EXCEPT ![r] = e] /\ executors_' = Emplace(executors_, key[r], e)
              /\ e # Nobody
            BY <2>2, <3>1 DEF SortedLookup
        <3>3. \A k \in Key : executors_'[k] =
                 IF k \in {key[r], sorted[key[r]]} /\ executors_[k] = Nobody
                 THEN e ELSE executors_[k]
            BY <3>1, <3>2 DEF Emplace
        <3>4. Serves(r, e)
            BY <3>1, <3>2, <3>3 DEF Serves
        <3> QED BY <1>1, <3>4
    <2>3. CASE /\ ~(FastLookup(r) /\ executors_[key[r]] # Nobody)
               /\ ~(SortedLookup(r) /\ executors_[sorted[key[r]]] # Nobody)
        BY <1>2, <1>4, <2>3 DEF FastLookup, SortedLookup
    <2> QED BY <2>1, <2>2, <2>3
<1>3. ASSUME NEW r \in Call, InsertExecutors(r) PROVE CacheInv'
    <2>1. PICK inserted : inserted = Emplace(executors_, sorted[key[r]], r)
        OBVIOUS
    <2>2. PICK e : e = inserted[sorted[key[r]]]
        OBVIOUS
    <2>3. executors_' = Emplace(inserted, key[r], e) /\ uses' = [uses EXCEPT ![r] = e]
        BY <1>3, <2>1, <2>2 DEF InsertExecutors
    <2>4. /\ inserted \in [Key -> Call \cup {Nobody}]
          /\ \A k \in Key : inserted[k] =
                IF k = sorted[key[r]] /\ executors_[k] = Nobody THEN r ELSE executors_[k]
        BY <2>1 DEF Emplace
    <2>5. /\ e = IF executors_[sorted[key[r]]] = Nobody THEN r ELSE executors_[sorted[key[r]]]
          /\ e # Nobody
        BY <2>2, <2>4
    <2>6. \A k \in Key : executors_'[k] =
             IF k = key[r] /\ inserted[k] = Nobody THEN e ELSE inserted[k]
        BY <2>3, <2>4 DEF Emplace
    <2>7. \A k \in Key : executors_'[k] =
             IF k \in {key[r], sorted[key[r]]} /\ executors_[k] = Nobody
             THEN e ELSE executors_[k]
        BY <2>4, <2>5, <2>6
    <2>8. Serves(r, e)
        BY <2>3, <2>5, <2>7 DEF Serves
    <2> QED BY <1>1, <2>8
<1>5. ASSUME NEW r \in Call, Run(r) PROVE CacheInv'
    <2>1. CASE FastLookup(r) \/ SortedLookup(r) \/ InsertExecutors(r)
        BY <1>2, <1>3, <2>1
    <2>2. CASE ~(FastLookup(r) \/ SortedLookup(r) \/ InsertExecutors(r))
        <3>1. CASE CheckNotClosed(r) \/ RunRejected(r) \/ SendInputs(r) \/ RegisterStep(r)
            BY ONLY <1>4, <3>1
               DEF CheckNotClosed, RunRejected, SendInputs, RegisterStep
        <3>2. CASE RunAsync(r) \/ Waits(r) \/ TimesOut(r) \/ TimeoutCancels(r)
            BY ONLY <1>4, <3>2 DEF RunAsync, Waits, TimesOut, TimeoutCancels
        <3>3. CASE TimeoutCancelled(r) \/ DeregisterStep(r) \/ DeregisterWakes(r)
            BY ONLY <1>4, <3>3 DEF TimeoutCancelled, DeregisterStep, DeregisterWakes
        <3>4. CASE RecvOutputs(r) \/ DestroyManager(r) \/ DestroyRunState(r)
            BY ONLY <1>4, <3>4 DEF RecvOutputs, DestroyManager, DestroyRunState
        <3> QED BY ONLY <1>5, <2>2, <3>1, <3>2, <3>3, <3>4 DEF Run
    <2> QED BY ONLY <2>1, <2>2
<1>6. ASSUME NEW r \in Call, Executors(r) PROVE CacheInv'
    BY ONLY <1>4, <1>6 DEF Executors, ExecutorsEnd, DoneUpdates, DoneNotifies, run
<1>7. ASSUME NEW c \in Closer, Close(c) PROVE CacheInv'
    <2>1. CASE TakeSessions(c) \/ ResetSession(c) \/ StartCancel(c) \/ CancelStep(c)
        BY ONLY <1>4, <2>1 DEF TakeSessions, ResetSession, StartCancel, CancelStep, run
    <2>2. CASE StepCancelled(c) \/ MarkCancelled(c) \/ Notify(c) \/ MarkClosed(c) \/ Deregister(c)
        BY ONLY <1>4, <2>2
           DEF StepCancelled, MarkCancelled, Notify, MarkClosed, Deregister, run
    <2> QED BY ONLY <1>7, <2>1, <2>2 DEF Close
<1> QED BY <1>4, <1>5, <1>6, <1>7 DEF Next, Done, vars, run

(* The inductive invariant implies the safety properties.                  *)
LEMMA InvImplies ==
    IInv => FrameOutlivesItsUsers /\ CancelledRunsFail /\ CancelReachesEveryStep
<1> SUFFICES ASSUME IInv
             PROVE FrameOutlivesItsUsers /\ CancelledRunsFail /\ CancelReachesEveryStep
    OBVIOUS
<1> USE SessionAssumption DEF IInv, Waiting, Registered
<1>1. FrameOutlivesItsUsers
    BY DEF FrameOutlivesItsUsers, Borrowed, FrameInv, CancelInv
<1>2. CancelledRunsFail
    BY DEF CancelledRunsFail, ResultInv
<1>3. CancelReachesEveryStep
    BY DEF CancelReachesEveryStep, PhaseInv, FrameInv, CancelInv, IsLive
<1> QED BY <1>1, <1>2, <1>3

(* The initial states satisfy the inductive invariant.                     *)
LEMMA InitInv == Init => IInv /\ CacheInv
<1> SUFFICES ASSUME Init PROVE IInv /\ CacheInv
    OBVIOUS
<1> USE SessionAssumption DEF Init, Begins, NewManager, IsLive, kInvalidToken
<1>1. TypeOK
    BY DEF TypeOK, Managers, Statuses
<1>2. PhaseInv
    BY DEF PhaseInv
<1>3. TokenInv
    BY DEF TokenInv, Waiting, Registered
<1>4. FrameInv
    BY DEF FrameInv, Waiting, Registered, Unstarted
<1>5. CancelInv
    BY DEF CancelInv, Waiting, Registered
<1>6. ResultInv
    BY DEF ResultInv
<1>7. CacheInv
    BY DEF CacheInv
<1> QED BY <1>1, <1>2, <1>3, <1>4, <1>5, <1>6, <1>7 DEF IInv

-----------------------------------------------------------------------------
(* So does a step of a thread in Close or Reset.                           *)
LEMMA CloseInv == ASSUME IInv, NEW c \in Closer, Close(c) PROVE IInv'
<1> USE SessionAssumption DEF IInv, TypeOK, Managers, Statuses, IsLive, kInvalidToken,
        Waiting, Registered, Unstarted, session, run, state, execs, closers
<1>1. ASSUME TakeSessions(c) PROVE IInv'
    <2> USE <1>1 DEF TakeSessions, Goto, Returns
    <2>1. TypeOK' /\ PhaseInv' /\ FrameInv'
        BY DEF PhaseInv, FrameInv
    <2>2. TokenInv' /\ CancelInv' /\ ResultInv'
        BY DEF TokenInv, PhaseInv, CancelInv, ResultInv
    <2> QED BY ONLY SMTT(30), <2>1, <2>2 DEF IInv
<1>2. ASSUME ResetSession(c) PROVE IInv'
    <2> USE <1>2 DEF ResetSession, Goto, Returns
    <2>1. TypeOK' /\ PhaseInv' /\ FrameInv'
        BY DEF PhaseInv, FrameInv
    <2>2. TokenInv' /\ CancelInv' /\ ResultInv'
        BY DEF TokenInv, PhaseInv, CancelInv, ResultInv
    <2> QED BY ONLY SMTT(30), <2>1, <2>2 DEF IInv
<1>3. ASSUME StartCancel(c), IsLive(cm) PROVE IInv'
    <2>0. /\ IsLive(cm) /\ at' = [at EXCEPT ![c] = "cancelling"]
          /\ todo' = [todo EXCEPT ![c] = {r \in Call : token[r] \in cm.callbacks}]
          /\ cm' \in Managers(Nat) /\ cm'.is_cancelling /\ cm'.callbacks = {}
          /\ cm'.is_cancelled = cm.is_cancelled /\ cm'.notified = cm.notified
          /\ cm'.next_cancellation_token = cm.next_cancellation_token
          /\ UNCHANGED <<closed_, sessions_, executors_, run, state, execs, cur>>
        BY <1>3, ManagerSteps DEF StartCancel
    <2> USE <2>0
    <2>1. TypeOK' /\ PhaseInv'
        BY DEF PhaseInv
    <2>2. TokenInv' /\ FrameInv'
        BY DEF TokenInv, PhaseInv, FrameInv
    <2>3. CancelInv' /\ ResultInv'
        BY DEF TokenInv, PhaseInv, CancelInv, ResultInv
    <2> QED BY ONLY SMTT(30), <2>1, <2>2, <2>3 DEF IInv
<1>4. ASSUME StartCancel(c), ~IsLive(cm) PROVE IInv'
    <2>0. /\ at[c] # "cancelling" /\ at' = [at EXCEPT ![c] = "mark"]
          /\ UNCHANGED <<todo, cm>>
          /\ UNCHANGED <<closed_, sessions_, executors_, run, state, execs, cur>>
        BY <1>4 DEF StartCancel
    <2> USE <2>0
    <2>1. TypeOK' /\ PhaseInv'
        BY DEF PhaseInv
    <2>2. TokenInv' /\ FrameInv'
        BY DEF TokenInv, PhaseInv, FrameInv
    <2>3. CancelInv' /\ ResultInv'
        BY DEF TokenInv, PhaseInv, CancelInv, ResultInv
    <2> QED BY ONLY SMTT(30), <2>1, <2>2, <2>3 DEF IInv
<1>5. ASSUME CancelStep(c) PROVE IInv'
    <2>0. PICK r \in todo[c] :
            /\ at[c] = "cancelling" /\ cur[c] = Nobody
            /\ todo' = [todo EXCEPT ![c] = @ \ {r}]
            /\ IF IsLive(scm[r]) THEN /\ cur' = [cur EXCEPT ![c] = r]
                                     /\ scm' = [scm EXCEPT ![r] = BeginCancel(@)]
                                ELSE UNCHANGED <<cur, scm>>
            /\ UNCHANGED <<session, executors_, run, status, notified, frame, execs, at>>
        BY Zenon, <1>5 DEF CancelStep
    <2>a. PICK m \in Managers(Nat), d \in Call \cup {Nobody} :
            /\ ~IsLive(m) /\ scm' = [scm EXCEPT ![r] = m]
            /\ d \in {r, Nobody} /\ cur' = [cur EXCEPT ![c] = d]
        <3>1. CASE IsLive(scm[r])
            <4>1. scm[r] \in Managers(Nat)
                BY <2>0
            <4>2. BeginCancel(scm[r]) \in Managers(Nat) /\ ~IsLive(BeginCancel(scm[r]))
                BY <4>1, ManagerSteps
            <4>3. /\ scm' = [scm EXCEPT ![r] = BeginCancel(scm[r])]
                  /\ cur' = [cur EXCEPT ![c] = r] /\ r \in Call
                BY <2>0, <3>1
            <4> QED BY Zenon, <4>2, <4>3
        <3>2. CASE ~IsLive(scm[r])
            <4>1. scm[r] \in Managers(Nat) /\ scm' = [scm EXCEPT ![r] = scm[r]]
                BY <2>0, <3>2
            <4>2. cur' = [cur EXCEPT ![c] = Nobody]
                BY <2>0, <3>2
            <4> QED BY Zenon, <3>2, <4>1, <4>2
        <3> QED BY <3>1, <3>2
    <2>b. /\ at[c] = "cancelling" /\ r \in Call /\ r \in todo[c]
            /\ todo' = [todo EXCEPT ![c] = @ \ {r}]
            /\ UNCHANGED <<session, executors_, run, status, notified, frame, execs, at>>
        BY <2>0
    <2> USE <2>a, <2>b
    <2>1. TypeOK' /\ PhaseInv'
        BY DEF PhaseInv
    <2>2. TokenInv' /\ FrameInv'
        BY DEF TokenInv, PhaseInv, FrameInv
    <2>3. CancelInv' /\ ResultInv'
        BY DEF TokenInv, PhaseInv, CancelInv, ResultInv
    <2> QED BY ONLY SMTT(30), <2>1, <2>2, <2>3 DEF IInv
<1>6. ASSUME StepCancelled(c) PROVE IInv'
    <2>0. /\ \E m \in Managers(Nat) : ~IsLive(m) /\ scm' = [scm EXCEPT ![cur[c]] = m]
          /\ cur[c] \in Call /\ cur' = [cur EXCEPT ![c] = Nobody]
          /\ UNCHANGED <<session, executors_, run, status, notified, frame, execs, at, todo>>
        BY Zenon, <1>6, ManagerSteps DEF StepCancelled
    <2> USE <2>0
    <2>1. TypeOK' /\ PhaseInv'
        BY DEF PhaseInv
    <2>2. TokenInv' /\ FrameInv'
        BY DEF TokenInv, PhaseInv, FrameInv
    <2>3. CancelInv' /\ ResultInv'
        BY DEF TokenInv, PhaseInv, CancelInv, ResultInv
    <2> QED BY ONLY SMTT(30), <2>1, <2>2, <2>3 DEF IInv
<1>7. ASSUME MarkCancelled(c) PROVE IInv'
    <2> USE <1>7 DEF MarkCancelled, EndCancel, Goto, Returns
    <2>1. PhaseInv' /\ FrameInv'
        BY DEF PhaseInv, FrameInv
    <2>3. TypeOK'
        BY Zenon
    <2>2. TokenInv' /\ CancelInv' /\ ResultInv'
        BY DEF TokenInv, PhaseInv, CancelInv, ResultInv
    <2> QED BY ONLY SMTT(30), <2>1, <2>2, <2>3 DEF IInv
<1>8. ASSUME Notify(c) PROVE IInv'
    <2> USE <1>8 DEF Notify, NotifyCancelled, Goto, Returns
    <2>1. PhaseInv' /\ FrameInv'
        BY DEF PhaseInv, FrameInv
    <2>3. TypeOK'
        BY Zenon
    <2>2. TokenInv' /\ CancelInv' /\ ResultInv'
        BY DEF TokenInv, PhaseInv, CancelInv, ResultInv
    <2> QED BY ONLY SMTT(30), <2>1, <2>2, <2>3 DEF IInv
<1>9. ASSUME MarkClosed(c) PROVE IInv'
    <2> USE <1>9 DEF MarkClosed, Goto, Returns
    <2>1. TypeOK' /\ PhaseInv'
        BY DEF PhaseInv
    <2>2. TokenInv' /\ FrameInv'
        BY DEF TokenInv, PhaseInv, FrameInv
    <2>3. CancelInv' /\ ResultInv'
        BY DEF TokenInv, PhaseInv, CancelInv, ResultInv
    <2> QED BY ONLY SMTT(30), <2>1, <2>2, <2>3 DEF IInv
<1>10. ASSUME Deregister(c) PROVE IInv'
    <2> USE <1>10 DEF Deregister, Goto, Returns
    <2>1. TypeOK' /\ PhaseInv'
        BY DEF PhaseInv
    <2>2. TokenInv' /\ FrameInv'
        BY DEF TokenInv, PhaseInv, FrameInv
    <2>3. CancelInv' /\ ResultInv'
        BY DEF TokenInv, PhaseInv, CancelInv, ResultInv
    <2> QED BY ONLY SMTT(30), <2>1, <2>2, <2>3 DEF IInv
<1> HIDE DEF IInv, IsLive
<1> QED BY ONLY Close(c), <1>1, <1>2, <1>3, <1>4, <1>5, <1>6, <1>7, <1>8, <1>9,
           <1>10 DEF Close

(* So does a step of the executors of a call.                              *)
LEMMA ExecutorsInv == ASSUME IInv, NEW r \in Call, Executors(r) PROVE IInv'
<1> USE SessionAssumption DEF IInv, TypeOK, Managers, Statuses, IsLive, kInvalidToken,
        Waiting, Registered, Unstarted, Goto, Returns, session, run, state, execs, closers
<1>1. ASSUME ExecutorsEnd(r) PROVE IInv'
    <2> USE <1>1 DEF ExecutorsEnd
    <2>1. TypeOK' /\ PhaseInv'
        BY DEF PhaseInv
    <2>2. TokenInv' /\ FrameInv'
        BY DEF TokenInv, PhaseInv, FrameInv
    <2>3. CancelInv' /\ ResultInv'
        BY DEF TokenInv, PhaseInv, CancelInv, ResultInv
    <2> QED BY ONLY SMTT(30), <2>1, <2>2, <2>3 DEF IInv
<1>2. ASSUME DoneUpdates(r) PROVE IInv'
    <2> USE <1>2 DEF DoneUpdates, Update
    <2>1. TypeOK' /\ PhaseInv'
        BY DEF PhaseInv
    <2>2. TokenInv' /\ FrameInv'
        BY DEF TokenInv, PhaseInv, FrameInv
    <2>3. CancelInv' /\ ResultInv'
        BY DEF TokenInv, PhaseInv, CancelInv, ResultInv
    <2> QED BY ONLY SMTT(30), <2>1, <2>2, <2>3 DEF IInv
<1>3. ASSUME DoneNotifies(r) PROVE IInv'
    <2> USE <1>3 DEF DoneNotifies
    <2>1. TypeOK' /\ PhaseInv'
        BY DEF PhaseInv
    <2>2. TokenInv' /\ FrameInv'
        BY DEF TokenInv, PhaseInv, FrameInv
    <2>3. CancelInv' /\ ResultInv'
        BY DEF TokenInv, PhaseInv, CancelInv, ResultInv
    <2> QED BY ONLY SMTT(30), <2>1, <2>2, <2>3 DEF IInv
<1> HIDE DEF IInv, IsLive
<1> QED BY ONLY Executors(r), <1>1, <1>2, <1>3 DEF Executors

(* Every step preserves the inductive invariant.                           *)
LEMMA NextInv == IInv /\ [Next]_vars => IInv'
<1> SUFFICES ASSUME IInv, [Next]_vars PROVE IInv'
    OBVIOUS
<1>1. CASE UNCHANGED vars
    <2> USE <1>1 DEF IInv, vars, session, run, state, execs, closers
    <2>1. TypeOK' /\ PhaseInv'
        BY DEF TypeOK, PhaseInv
    <2>2. TokenInv'
        BY DEF TokenInv
    <2>3. FrameInv' /\ CancelInv' /\ ResultInv'
        BY DEF FrameInv, CancelInv, ResultInv
    <2> QED BY <2>1, <2>2, <2>3
<1> QED BY <1>1, RunInv, ExecutorsInv, CloseInv DEF Next, Done

-----------------------------------------------------------------------------
(* The inductive invariant holds in every reachable state.                 *)
THEOREM Invariance == Spec => []IInv
BY InitInv, NextInv, PTL DEF Spec

(* The state of a session and of its calls is well typed.                  *)
THEOREM TypeCorrect == Spec => []TypeOK
BY Invariance, PTL DEF IInv

(* direct_session.cc: the RunState and the step's manager, locals of Run,  *)
(* are there as long as executors, their done callback or a thread in      *)
(* Close use them, for any number of calls and closers.                    *)
THEOREM FramesOutliveTheirUsers == Spec => []FrameOutlivesItsUsers
BY Invariance, InvImplies, PTL

(* A step that Close or its timeout has cancelled never returns OK.        *)
THEOREM CancelledRunsDoFail == Spec => []CancelledRunsFail
BY Invariance, InvImplies, PTL

(* After StartCancel of the session no step runs on uncancelled, whenever  *)
(* it passed CheckNotClosed.                                               *)
THEOREM CloseReachesEveryStep == Spec => []CancelReachesEveryStep
BY Invariance, InvImplies, PTL

(* GetOrCreateExecutors: calls with the same signature up to order share   *)
(* their executors, also when two threads build them at the same time.     *)
THEOREM SignaturesShareExecutors == Spec => []ExecutorsShared
<1>1. CacheInv => ExecutorsShared
    BY SessionAssumption DEF CacheInv, ExecutorsShared
<1> QED BY <1>1, InitInv, CacheStep, TypeCorrect, PTL DEF Spec

=============================================================================
