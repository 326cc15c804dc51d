--------------------- MODULE CancellationManagerProofs ---------------------
(***************************************************************************)
(* TLAPS proofs about CancellationManager, for any sets of operations and  *)
(* cancelling threads.                                                     *)
(***************************************************************************)
EXTENDS CancellationManager, TLAPS

(* SMT has half a minute for a step; a step meant for Zenon says so.       *)
USE SMTT(30)

(* Tokens are handed out once: two operations never share one.             *)
TokensInv ==
    /\ \A o \in Operation :
          /\ op[o] = "idle" => token[o] = kInvalidToken
          /\ op[o] # "idle" => /\ token[o] \in Nat
                               /\ token[o] < cm.next_cancellation_token
    /\ \A o, q \in Operation :
          o # q /\ op[o] # "idle" /\ op[q] # "idle" => token[o] # token[q]

(* At most one thread is past the first critical section of StartCancel,   *)
(* and the flags of the manager say how far it got.                        *)
PhaseInv ==
    /\ ~(cm.is_cancelling /\ cm.is_cancelled)
    /\ cm.notified => cm.is_cancelled
    /\ \A t \in Canceller :
          /\ pc[t] = "invoking" => cm.is_cancelling
          /\ pc[t] = "notifying" => cm.is_cancelled /\ ~cm.notified
          /\ \A u \in Canceller : u # t => pc[t] = "idle" \/ pc[u] = "idle"
          /\ pc[t] # "invoking" => toRun[t] = {} /\ current[t] = kInvalidToken
    /\ cm.is_cancelling => \E t \in Canceller : pc[t] = "invoking"
    /\ ~IsLive(cm) => cm.callbacks = {}

(* Where the callback of an operation is: in callbacks_, taken over by a   *)
(* StartCancel, or run to its end; never in two of these places.           *)
PlaceInv ==
    /\ \A o \in Operation :
          LET k == token[o] IN
          /\ op[o] \in {"idle", "has_token", "rejected", "deregistered"} =>
                k \notin cm.callbacks /\ k \notin returned
                /\ \A t \in Canceller :
                      k \notin toRun[t] /\ (op[o] # "idle" => k # current[t])
          /\ op[o] \in {"registered", "waiting"} =>
                k \in cm.callbacks \/ Pending(k) \/ k \in returned
          /\ op[o] = "waiting" => ~IsLive(cm)
          /\ op[o] = "was_cancelled" => cm.is_cancelled /\ k \in returned
    /\ IsLive(cm) => returned = {}
    /\ \A t \in Canceller :
          /\ toRun[t] \cap returned = {}
          /\ current[t] \notin toRun[t] \cup returned
          /\ \A k \in toRun[t] : k < cm.next_cancellation_token
          /\ current[t] < cm.next_cancellation_token
    /\ \A k \in cm.callbacks \cup returned : k < cm.next_cancellation_token

IInv == TypeOK /\ TokensInv /\ PhaseInv /\ PlaceInv
(* The inductive invariant implies the three safety properties.            *)
LEMMA InvImplies ==
    IInv => TypeOK /\ NoCallbackAfterDeregister /\ DeregisterTellsTheTruth
                   /\ CallbackRunsOnce
<1> SUFFICES ASSUME IInv PROVE TypeOK /\ NoCallbackAfterDeregister
                 /\ DeregisterTellsTheTruth /\ CallbackRunsOnce
    OBVIOUS
<1> USE DEF IInv, TypeOK, TokensInv, PhaseInv, PlaceInv, Pending, OpStates,
            kInvalidToken
<1>1. NoCallbackAfterDeregister
    BY DEF NoCallbackAfterDeregister
<1>2. DeregisterTellsTheTruth
    BY DEF DeregisterTellsTheTruth
<1>3. CallbackRunsOnce
    BY DEF CallbackRunsOnce
<1> QED BY <1>1, <1>2, <1>3

(* The initial state satisfies the inductive invariant.                    *)
LEMMA InitInv == Init => IInv
BY DEF Init, IInv, TypeOK, TokensInv, PhaseInv, PlaceInv, Pending, OpStates,
       kInvalidToken, NewManager, Managers, IsLive
(* Every step of an operation or of a cancelling thread preserves the      *)
(* inductive invariant.                                                    *)
LEMMA NextInv == IInv /\ [Next]_vars => IInv'
<1> SUFFICES ASSUME IInv, [Next]_vars PROVE IInv'
    OBVIOUS
<1> USE DEF IInv, TypeOK, OpStates, kInvalidToken, Managers, IsLive
<1>1. ASSUME NEW o \in Operation, GetToken(o) PROVE IInv'
    <2> USE <1>1 DEF GetToken, get_cancellation_token
    <2>1. TypeOK'
        OBVIOUS
    <2>2. TokensInv'
        BY DEF TokensInv
    <2>3. PhaseInv'
        BY DEF PhaseInv
    <2>4. PlaceInv'
        BY DEF PlaceInv, PhaseInv, TokensInv, Pending
    <2> QED BY <2>1, <2>2, <2>3, <2>4
<1>2. ASSUME NEW o \in Operation, RegisterCallback(o) PROVE IInv'
    <2> USE <1>2 DEF RegisterCallback, Register
    <2>1. TypeOK'
        BY DEF TokensInv
    <2>2. TokensInv'
        BY DEF TokensInv
    <2>3. PhaseInv'
        BY DEF PhaseInv
    <2>4. PlaceInv'
        BY DEF PlaceInv, PhaseInv, TokensInv, Pending
    <2> QED BY <2>1, <2>2, <2>3, <2>4
<1>3. ASSUME NEW o \in Operation, DeregisterErases(o) PROVE IInv'
    <2> USE <1>3 DEF DeregisterErases, Erase
    <2>1. TypeOK'
        OBVIOUS
    <2>2. TokensInv'
        BY DEF TokensInv
    <2>3. PhaseInv'
        BY DEF PhaseInv
    <2>4. PlaceInv'
        BY DEF PlaceInv, PhaseInv, TokensInv, Pending
    <2> QED BY <2>1, <2>2, <2>3, <2>4
<1>4. ASSUME NEW o \in Operation, DeregisterLate(o) PROVE IInv'
    <2> USE <1>4 DEF DeregisterLate, MustWait
    <2>1. TypeOK'
        OBVIOUS
    <2>2. TokensInv'
        BY DEF TokensInv
    <2>3. PhaseInv'
        BY DEF PhaseInv
    <2>4. PlaceInv'
        BY DEF PlaceInv, PhaseInv, TokensInv, Pending
    <2> QED BY <2>1, <2>2, <2>3, <2>4
<1>5. ASSUME NEW o \in Operation, DeregisterWakes(o) PROVE IInv'
    <2> USE <1>5 DEF DeregisterWakes
    <2>1. TypeOK'
        OBVIOUS
    <2>2. TokensInv'
        BY DEF TokensInv
    <2>3. PhaseInv'
        BY DEF PhaseInv
    <2>4. PlaceInv'
        BY DEF PlaceInv, PhaseInv, TokensInv, Pending
    <2> QED BY <2>1, <2>2, <2>3, <2>4
<1>6. ASSUME NEW t \in Canceller, StartCancel(t) PROVE IInv'
    <2> USE <1>6 DEF StartCancel, BeginCancel
    <2>1. TypeOK'
        BY Zenon
    <2>2. TokensInv'
        BY DEF TokensInv
    <2>3. PhaseInv'
        BY DEF PhaseInv
    <2>4. PlaceInv'
        BY DEF PlaceInv, PhaseInv, TokensInv, Pending
    <2> QED BY <2>1, <2>2, <2>3, <2>4
<1>7. ASSUME NEW t \in Canceller, StartCancelReturnsEarly(t) PROVE IInv'
    <2> USE <1>7 DEF StartCancelReturnsEarly
    <2>1. TypeOK'
        OBVIOUS
    <2>2. TokensInv'
        BY DEF TokensInv
    <2>3. PhaseInv'
        BY DEF PhaseInv
    <2>4. PlaceInv'
        BY DEF PlaceInv, PhaseInv, TokensInv, Pending
    <2> QED BY <2>1, <2>2, <2>3, <2>4
<1>8. ASSUME NEW t \in Canceller, InvokeCallback(t) PROVE IInv'
    <2> USE <1>8 DEF InvokeCallback
    <2>1. TypeOK'
        OBVIOUS
    <2>2. TokensInv'
        BY DEF TokensInv
    <2>3. PhaseInv'
        BY DEF PhaseInv
    <2>4. PlaceInv'
        BY DEF PlaceInv, PhaseInv, TokensInv, Pending
    <2> QED BY <2>1, <2>2, <2>3, <2>4
<1>9. ASSUME NEW t \in Canceller, CallbackReturns(t) PROVE IInv'
    <2> USE <1>9 DEF CallbackReturns
    <2>1. TypeOK'
        BY Zenon
    <2>2. TokensInv'
        BY DEF TokensInv
    <2>3. PhaseInv'
        BY DEF PhaseInv
    <2>4. PlaceInv'
        BY DEF PlaceInv, PhaseInv, TokensInv, Pending
    <2> QED BY <2>1, <2>2, <2>3, <2>4
<1>10. ASSUME NEW t \in Canceller, MarkCancelled(t) PROVE IInv'
    <2> USE <1>10 DEF MarkCancelled, EndCancel
    <2>1. TypeOK'
        BY Zenon
    <2>2. TokensInv'
        BY DEF TokensInv
    <2>3. PhaseInv'
        BY DEF PhaseInv
    <2>4. PlaceInv'
        BY DEF PlaceInv, PhaseInv, TokensInv, Pending
    <2> QED BY <2>1, <2>2, <2>3, <2>4
<1>11. ASSUME NEW t \in Canceller, Notify(t) PROVE IInv'
    <2> USE <1>11 DEF Notify, NotifyCancelled
    <2>1. TypeOK'
        BY Zenon
    <2>2. TokensInv'
        BY DEF TokensInv
    <2>3. PhaseInv'
        BY DEF PhaseInv
    <2>4. PlaceInv'
        BY DEF PlaceInv, PhaseInv, TokensInv, Pending
    <2> QED BY <2>1, <2>2, <2>3, <2>4
<1>12. CASE UNCHANGED vars
    BY <1>12 DEF vars, TokensInv, PhaseInv, PlaceInv, Pending
<1> QED
    BY <1>1, <1>2, <1>3, <1>4, <1>5, <1>6, <1>7, <1>8, <1>9, <1>10, <1>11, <1>12 DEF Next, OperationStep, InCancel

(* Type correctness, for any sets of operations and cancelling threads.    *)
THEOREM TypeCorrect == Spec => []TypeOK
<1>1. Spec => []IInv
    BY InitInv, NextInv, PTL DEF Spec
<1>2. IInv => TypeOK
    BY InvImplies
<1> QED BY <1>1, <1>2, PTL

(* A returned DeregisterCallback means that the callback is not running    *)
(* and will not run.                                                       *)
THEOREM FreeingIsSafe == Spec => []NoCallbackAfterDeregister
<1>1. Spec => []IInv
    BY InitInv, NextInv, PTL DEF Spec
<1>2. IInv => NoCallbackAfterDeregister
    BY InvImplies
<1> QED BY <1>1, <1>2, PTL

(* The results of RegisterCallback and DeregisterCallback say whether the  *)
(* callback has run.                                                       *)
THEOREM ResultsAreTrue == Spec => []DeregisterTellsTheTruth
<1>1. Spec => []IInv
    BY InitInv, NextInv, PTL DEF Spec
<1>2. IInv => DeregisterTellsTheTruth
    BY InvImplies
<1> QED BY <1>1, <1>2, PTL

(* Concurrent calls of StartCancel run each callback at most once and      *)
(* notify once.                                                            *)
THEOREM CallbacksRunOnce == Spec => []CallbackRunsOnce
<1>1. Spec => []IInv
    BY InitInv, NextInv, PTL DEF Spec
<1>2. IInv => CallbackRunsOnce
    BY InvImplies
<1> QED BY <1>1, <1>2, PTL
=============================================================================
