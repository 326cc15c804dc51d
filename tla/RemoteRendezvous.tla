-------------------------- MODULE RemoteRendezvous --------------------------
(***************************************************************************)
(* tensorflow/core/distributed_runtime/base_rendezvous_mgr.{cc,h}: what a  *)
(* worker keeps for one step, as operators on its state m.  m.rdv are the  *)
(* BaseRemoteRendezvous objects created for the step so far, m.table the   *)
(* index of the one that table_ holds, or 0.                               *)
(*                                                                         *)
(* local_ is a LocalRendezvousImpl, of which the module Rendezvous is a    *)
(* model; a key has one sender and one receiver here, so of an item only   *)
(* this matters: no one has come yet, a value is there, a waiter is there, *)
(* a waiter is to be told a value or an error, or all is over: "none",     *)
(* "value", "waiter", "told", "failed", "over".                            *)
(***************************************************************************)
EXTENDS Integers, Sequences, FiniteSets

CONSTANT Key      \* the rendezvous keys of the step

NewRendezvous ==
    [refs |-> 1, status |-> "ok", local |-> "ok",
     items |-> [k \in Key |-> "none"], active |-> {}]
NewMgr == [table |-> 0, rdv |-> << >>, failed |-> {}]

(* FindOrCreate: the object is m.table afterwards, with one more reference.*)
FindOrCreate(m) ==
    IF m.table = 0
    THEN [m EXCEPT !.table = Len(m.rdv) + 1,
                   !.rdv = Append(@, [NewRendezvous EXCEPT !.refs = 2])]
    ELSE [m EXCEPT !.rdv[m.table].refs = @ + 1]

Ref(m, o) == [m EXCEPT !.rdv[o].refs = @ + 1]

(* Unref, and the CHECK of the destructor.                                 *)
Unref(m, o) ==
    [m EXCEPT !.rdv[o].refs = @ - 1,
              !.failed = IF m.rdv[o].refs = 1 /\ m.rdv[o].active # {}
                         THEN @ \cup {136} ELSE @]

(* Whether a call of Send, RecvAsync or RecvLocalAsync gets past its first *)
(* check, and past the one of local_.                                      *)
Aborted(m, o) == m.rdv[o].status # "ok"
LocalAborted(m, o) == m.rdv[o].local # "ok"

(* Send and RecvAsync on local_, not aborted.                              *)
LocalSend(m, o, k) ==
    [m EXCEPT !.rdv[o].items[k] = IF @ = "waiter" THEN "told" ELSE "value"]
LocalRecv(m, o, k) ==
    [m EXCEPT !.rdv[o].items[k] = IF @ = "value" THEN "told" ELSE "waiter"]
(* The callback of the waiter for k is called.                             *)
Answered(m, o, k) == m.rdv[o].items[k] \in {"told", "failed"}
Answer(m, o, k) == IF m.rdv[o].items[k] = "told" THEN "ok" ELSE "error"
Close(m, o, k) == [m EXCEPT !.rdv[o].items[k] = "over"]

(* StartAbort: first local_ is aborted, then under mu_ the active calls    *)
(* are, and forgotten.                                                     *)
AbortLocal(m, o) ==
    IF LocalAborted(m, o) THEN m
    ELSE [m EXCEPT !.rdv[o].local = "aborted",
                   !.rdv[o].items = [k \in Key |->
                      CASE @[k] = "waiter" -> "failed"
                        [] @[k] = "value" -> "over"
                        [] OTHER -> @[k]]]
CallsToAbort(m, o) == IF Aborted(m, o) THEN {} ELSE m.rdv[o].active
AbortCalls(m, o) ==
    IF Aborted(m, o) THEN m
    ELSE [m EXCEPT !.rdv[o].status = "aborted", !.rdv[o].active = {}]

(* RegisterCall of a call that is not to be aborted, and DeregisterCall.   *)
RegisterCall(m, o, k) ==
    IF Aborted(m, o) THEN m ELSE [m EXCEPT !.rdv[o].active = @ \cup {k}]
StaysActive(m, o, k) == m
DeregisterCall(m, o, k) == [m EXCEPT !.rdv[o].active = @ \ {k}]

(* Cleanup takes the object out of table_; StartAbort and Unref follow.    *)
StaysInTable(m) == m
TakeFromTable(m) == [m EXCEPT !.table = 0]
=============================================================================
