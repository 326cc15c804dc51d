------------------------ MODULE CancellationManager ------------------------
(***************************************************************************)
(* tensorflow/core/framework/cancellation.{h,cc}: one CancellationManager, *)
(* the operations that register a callback with it, and the threads that   *)
(* call StartCancel (concurrently, repeatedly, or from the destructor).    *)
(*                                                                         *)
(* An operation gets a token, registers its callback, and when it is done  *)
(* deregisters it and frees what the callback uses.  StartCancel runs the  *)
(* callbacks without holding mu_, so a callback takes two steps here and   *)
(* everything else may happen between them.                                *)
(***************************************************************************)
EXTENDS CancellationOps

CONSTANTS Operation,   \* the clients: one cancellable operation each
          Canceller    \* threads that call StartCancel

VARIABLES
    cm,        \* the manager
    op,        \* Operation -> its progress
    token,     \* Operation -> its token, or kInvalidToken
    pc,        \* Canceller -> where it is in StartCancel
    toRun,     \* Canceller -> callbacks_to_run
    current,   \* Canceller -> the callback it is running, or kInvalidToken
    returned,  \* tokens whose callback has run to its end
    called     \* cancellers one of whose calls to StartCancel has returned

vars == <<cm, op, token, pc, toRun, current, returned, called>>

OpStates == {"idle", "has_token", "registered", "rejected",
             "waiting", "deregistered", "was_cancelled"}

Init ==
    /\ cm = NewManager
    /\ op = [o \in Operation |-> "idle"]
    /\ token = [o \in Operation |-> kInvalidToken]
    /\ pc = [t \in Canceller |-> "idle"]
    /\ toRun = [t \in Canceller |-> {}]
    /\ current = [t \in Canceller |-> kInvalidToken]
    /\ returned = {}
    /\ called = {}

GetToken(o) ==
    /\ op[o] = "idle"
    /\ op' = [op EXCEPT ![o] = "has_token"]
    /\ token' = [token EXCEPT ![o] = cm.next_cancellation_token]
    /\ cm' = get_cancellation_token(cm)
    /\ UNCHANGED <<pc, toRun, current, returned, called>>

RegisterCallback(o) ==
    /\ op[o] = "has_token"
    /\ cm' = Register(cm, token[o])
    /\ op' = [op EXCEPT ![o] = IF IsLive(cm) THEN "registered" ELSE "rejected"]
    /\ UNCHANGED <<token, pc, toRun, current, returned, called>>

(* The three branches of DeregisterCallback, and the end of its wait.      *)
DeregisterErases(o) ==
    /\ op[o] = "registered"
    /\ IsLive(cm)
    /\ cm' = Erase(cm, token[o])
    /\ op' = [op EXCEPT ![o] = "deregistered"]
    /\ UNCHANGED <<token, pc, toRun, current, returned, called>>

DeregisterLate(o) ==
    /\ op[o] = "registered"
    /\ ~IsLive(cm)
    /\ op' = [op EXCEPT ![o] = IF MustWait(cm) THEN "waiting"
                                               ELSE "was_cancelled"]
    /\ UNCHANGED <<cm, token, pc, toRun, current, returned, called>>

DeregisterWakes(o) ==
    /\ op[o] = "waiting"
    /\ cm.notified
    /\ op' = [op EXCEPT ![o] = "was_cancelled"]
    /\ UNCHANGED <<cm, token, pc, toRun, current, returned, called>>

(* StartCancel returns at once when a cancellation is under way or over.   *)
StartCancel(t) ==
    /\ pc[t] = "idle"
    /\ IsLive(cm)
    /\ pc' = [pc EXCEPT ![t] = "invoking"]
    /\ toRun' = [toRun EXCEPT ![t] = cm.callbacks]
    /\ cm' = BeginCancel(cm)
    /\ UNCHANGED <<op, token, current, returned, called>>

StartCancelReturnsEarly(t) ==
    /\ pc[t] = "idle"
    /\ ~IsLive(cm)
    /\ called' = called \cup {t}
    /\ UNCHANGED <<cm, op, token, pc, toRun, current, returned>>

InvokeCallback(t) ==
    /\ pc[t] = "invoking"
    /\ current[t] = kInvalidToken
    /\ \E k \in toRun[t] :
          /\ current' = [current EXCEPT ![t] = k]
          /\ toRun' = [toRun EXCEPT ![t] = @ \ {k}]
    /\ UNCHANGED <<cm, op, token, pc, returned, called>>

CallbackReturns(t) ==
    /\ current[t] # kInvalidToken
    /\ returned' = returned \cup {current[t]}
    /\ current' = [current EXCEPT ![t] = kInvalidToken]
    /\ UNCHANGED <<cm, op, token, pc, toRun, called>>

MarkCancelled(t) ==
    /\ pc[t] = "invoking"
    /\ toRun[t] = {} /\ current[t] = kInvalidToken
    /\ pc' = [pc EXCEPT ![t] = "notifying"]
    /\ cm' = EndCancel(cm)
    /\ UNCHANGED <<op, token, toRun, current, returned, called>>

Notify(t) ==
    /\ pc[t] = "notifying"
    /\ pc' = [pc EXCEPT ![t] = "idle"]
    /\ cm' = NotifyCancelled(cm)
    /\ called' = called \cup {t}
    /\ UNCHANGED <<op, token, toRun, current, returned>>

OperationStep(o) ==
    \/ GetToken(o) \/ RegisterCallback(o) \/ DeregisterErases(o)
    \/ DeregisterLate(o) \/ DeregisterWakes(o)

InCancel(t) ==
    InvokeCallback(t) \/ CallbackReturns(t) \/ MarkCancelled(t) \/ Notify(t)

Next ==
    \/ \E o \in Operation : OperationStep(o)
    \/ \E t \in Canceller :
          StartCancel(t) \/ StartCancelReturnsEarly(t) \/ InCancel(t)

Spec == Init /\ [][Next]_vars

(* A thread inside StartCancel or inside DeregisterCallback keeps running: *)
(* callbacks terminate, and no other code is needed for either to go on.   *)
(* Nothing obliges a thread to call StartCancel or an operation to end.    *)
FairSpec ==
    /\ Spec
    /\ \A t \in Canceller : WF_vars(InCancel(t))
    /\ \A o \in Operation : WF_vars(DeregisterWakes(o))

-----------------------------------------------------------------------------
Pending(k) == \E t \in Canceller : k \in toRun[t] \/ k = current[t]

TypeOK ==
    /\ cm \in Managers(Nat)
    /\ op \in [Operation -> OpStates]
    /\ token \in [Operation -> Nat \cup {kInvalidToken}]
    /\ pc \in [Canceller -> {"idle", "invoking", "notifying"}]
    /\ toRun \in [Canceller -> SUBSET Nat]
    /\ current \in [Canceller -> Nat \cup {kInvalidToken}]
    /\ returned \in SUBSET Nat
    /\ called \in SUBSET Canceller

(* Once DeregisterCallback has returned, whatever it returned, no          *)
(* StartCancel will invoke or is still inside the operation's callback:    *)
(* the operation may free what the callback uses (the comment on the wait  *)
(* in DeregisterCallback).                                                 *)
NoCallbackAfterDeregister ==
    \A o \in Operation :
        op[o] \in {"deregistered", "was_cancelled"} => ~Pending(token[o])

(* DeregisterCallback returns true only if the callback never runs, and    *)
(* false only after the callback has run to its end; a callback refused by *)
(* RegisterCallback never runs (cancellation.h, DeregisterCallback).       *)
DeregisterTellsTheTruth ==
    \A o \in Operation :
        /\ op[o] \in {"deregistered", "rejected"} =>
              token[o] \notin returned /\ ~Pending(token[o])
        /\ op[o] = "was_cancelled" => token[o] \in returned

(* No callback is run twice, however many threads call StartCancel, and    *)
(* Notify is called at most once (the assert in Notification::Notify).     *)
CallbackRunsOnce ==
    /\ \A t \in Canceller :
          /\ toRun[t] \cap returned = {}
          /\ current[t] \notin toRun[t] \cup returned
          /\ \A u \in Canceller : u # t => pc[t] = "idle" \/ pc[u] = "idle"
    /\ \A t \in Canceller : pc[t] = "notifying" => ~cm.notified

(* A DeregisterCallback that blocks is woken up, and a cancellation that   *)
(* has begun runs every callback it took over.                             *)
CancelCompletes ==
    /\ \A o \in Operation : op[o] = "waiting" ~> op[o] = "was_cancelled"
    /\ cm.is_cancelling ~> cm.is_cancelled

(* cancellation.h on IsCancelled: "Returns true iff StartCancel() has been *)
(* called."  Taken at its weakest: a thread whose call to StartCancel has  *)
(* returned finds IsCancelled() true.                                      *)
IsCancelledIffStartCancelCalled == called # {} => cm.is_cancelled
=============================================================================
