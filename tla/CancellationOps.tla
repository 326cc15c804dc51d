-------------------------- MODULE CancellationOps --------------------------
(***************************************************************************)
(* The critical sections of tensorflow/core/framework/cancellation.cc, as  *)
(* operators on the state of one CancellationManager.  A manager is a      *)
(* record; a callback is identified by the token it is registered under.   *)
(* The state machines that use managers (CancellationManager, the queues)  *)
(* apply these operators under the manager's mutex mu_.                    *)
(***************************************************************************)
EXTENDS Integers

kInvalidToken == -1

Managers(Token) ==
    [is_cancelling : BOOLEAN, is_cancelled : BOOLEAN, notified : BOOLEAN,
     next_cancellation_token : Nat, callbacks : SUBSET Token]

NewManager ==
    [is_cancelling |-> FALSE, is_cancelled |-> FALSE, notified |-> FALSE,
     next_cancellation_token |-> 0, callbacks |-> {}]

(* The early return of StartCancel, and the condition of RegisterCallback. *)
IsLiveNoCancelling(m) == ~m.is_cancelled
IsLive(m) == ~m.is_cancelled /\ ~m.is_cancelling

(* First critical section of StartCancel: callbacks_ is swapped out.       *)
BeginCancel(m) == [m EXCEPT !.is_cancelling = TRUE, !.callbacks = {}]

(* Second critical section of StartCancel.                                 *)
EndCancel(m) == [m EXCEPT !.is_cancelling = FALSE, !.is_cancelled = TRUE]

(* cancelled_notification_.Notify(), outside mu_.                          *)
NotifyNothing(m) == m
NotifyCancelled(m) == [m EXCEPT !.notified = TRUE]

get_cancellation_token(m) ==
    [m EXCEPT !.next_cancellation_token = @ + 1]

Register(m, token) ==
    IF IsLive(m) THEN [m EXCEPT !.callbacks = @ \cup {token}] ELSE m

(* The erasing branch of DeregisterCallback.                               *)
Erase(m, token) == [m EXCEPT !.callbacks = @ \ {token}]

(* DeregisterCallback has to block on cancelled_notification_.             *)
NeverBlocks(m) == FALSE
MustWait(m) == ~m.is_cancelled /\ m.is_cancelling
=============================================================================
