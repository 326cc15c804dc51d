----------------------------- MODULE Rendezvous -----------------------------
(***************************************************************************)
(* LocalRendezvousImpl and the blocking Rendezvous::Recv                   *)
(* (tensorflow/core/framework/rendezvous.{h,cc}).                          *)
(*                                                                         *)
(* Each Sender makes one Send, of a message that is named after it (the    *)
(* tensor and is_dead), and each Receiver one RecvAsync, on any keys;      *)
(* those in Blocking call Recv, with a timeout.  mu_ is released before a  *)
(* done callback is invoked, so finding the callback and calling it are    *)
(* two steps.  Every call comes with a device context of its own, and refs *)
(* counts the references the rendezvous holds on it.                       *)
(***************************************************************************)
EXTENDS Integers, FiniteSets

CONSTANTS
    Key,
    Sender,
    Receiver,
    Blocking,            \* the receivers that call Recv with a timeout
    tolerate_dup_recv,   \* the constructor's argument
    Nobody,              \* nullptr: no waiter, no device context
    Empty                \* the message with a default-constructed Tensor

ASSUME RendezvousAssumption ==
    /\ Blocking \subseteq Receiver
    /\ tolerate_dup_recv \in BOOLEAN
    /\ Nobody \notin Sender \cup Receiver
    /\ Empty \notin Sender
    /\ Sender \cap Receiver = {}

VARIABLES
    status_,    \* "ok", or "aborted" after StartAbort
    table_,     \* Key -> Item
    items,      \* Key -> Item: what is left of the vector in StartAbort
    send,       \* Sender -> the progress of its Send
    skey,       \* Sender -> its key
    peer,       \* Sender -> the waiter it has taken, or Nobody
    recv,       \* Receiver -> the progress of its RecvAsync
    rkey,       \* Receiver -> its key
    rstatus,    \* Receiver -> the status its callback gets
    rvalue,     \* Receiver -> the message its callback gets
    rctx,       \* Receiver -> the sender's context its callback may use
    caller,     \* Receiver -> the thread inside Recv
    refs        \* Sender \cup Receiver -> references on its context

vars == <<status_, table_, items, send, skey, peer, recv, rkey, rstatus, rvalue,
          rctx, caller, refs>>
rvars == <<recv, rkey, rstatus, rvalue, rctx, caller>>

Items ==
    [there : {"yes", "no"}, waiter : Receiver \cup {Nobody},
     value : Sender \cup {Empty}, has_been_recvd : {"yes", "no"},
     send_dev_context : Sender \cup {Nobody},
     recv_dev_context : Receiver \cup {Nobody}]

NoItem ==
    [there |-> "no", waiter |-> Nobody, value |-> Empty,
     has_been_recvd |-> "no", send_dev_context |-> Nobody,
     recv_dev_context |-> Nobody]
StoredMessage(s) ==
    [there |-> "yes", waiter |-> Nobody, value |-> s, has_been_recvd |-> "no",
     send_dev_context |-> s, recv_dev_context |-> Nobody]
StoredWaiter(r) ==
    [there |-> "yes", waiter |-> r, value |-> Empty, has_been_recvd |-> "no",
     send_dev_context |-> Nobody, recv_dev_context |-> r]

Init ==
    /\ status_ = "ok"
    /\ table_ = [k \in Key |-> NoItem] /\ items = [k \in Key |-> NoItem]
    /\ send = [s \in Sender |-> "idle"] /\ peer = [s \in Sender |-> Nobody]
    /\ skey \in [Sender -> Key]
    /\ recv = [r \in Receiver |-> "idle"]
    /\ rkey \in [Receiver -> Key]
    /\ rstatus = [r \in Receiver |-> "none"]
    /\ rvalue = [r \in Receiver |-> Empty]
    /\ rctx = [r \in Receiver |-> Nobody]
    /\ caller = [r \in Receiver |-> "idle"]
    /\ refs = [x \in Sender \cup Receiver |-> 0]

Ref(x) == refs' = [refs EXCEPT ![x] = @ + 1]
Unref(x) == IF x = Nobody THEN refs' = refs
                          ELSE refs' = [refs EXCEPT ![x] = @ - 1]

-----------------------------------------------------------------------------
(* Send: aborted, nobody waits yet, duplicate, or a waiter is there.       *)
SendAborted(s) ==
    /\ send[s] = "idle" /\ status_ # "ok"
    /\ send' = [send EXCEPT ![s] = "aborted"]
    /\ UNCHANGED <<status_, table_, items, skey, peer, refs>> /\ UNCHANGED rvars

SendOverwrites(s) ==
    /\ send[s] = "idle" /\ status_ = "ok" /\ table_[skey[s]].waiter = Nobody
    /\ send' = [send EXCEPT ![s] = "ok"]
    /\ table_' = [table_ EXCEPT ![skey[s]] = StoredMessage(s)]
    /\ Ref(s)
    /\ UNCHANGED <<status_, items, skey, peer>> /\ UNCHANGED rvars
SendStores(s) ==
    /\ send[s] = "idle" /\ status_ = "ok" /\ table_[skey[s]].there = "no"
    /\ send' = [send EXCEPT ![s] = "ok"]
    /\ table_' = [table_ EXCEPT ![skey[s]] = StoredMessage(s)]
    /\ Ref(s)
    /\ UNCHANGED <<status_, items, skey, peer>> /\ UNCHANGED rvars

SendDuplicate(s) ==
    /\ send[s] = "idle" /\ status_ = "ok" /\ table_[skey[s]].there = "yes"
    /\ table_[skey[s]].waiter = Nobody
    /\ send' = [send EXCEPT ![s] = "duplicate"]
    /\ UNCHANGED <<status_, table_, items, skey, peer, refs>> /\ UNCHANGED rvars

(* The item of a waiter whose message has come.                            *)
KeepsWaiter(item, s) == [item EXCEPT !.has_been_recvd = "yes"]
TakenBy(item, s) ==
    [there |-> "yes", waiter |-> Nobody,
     value |-> IF tolerate_dup_recv THEN s ELSE item.value,
     has_been_recvd |-> "yes",
     send_dev_context |-> IF tolerate_dup_recv THEN s ELSE item.send_dev_context,
     recv_dev_context |-> Nobody]

SendTakesWaiter(s) ==
    /\ send[s] = "idle" /\ status_ = "ok" /\ table_[skey[s]].there = "yes"
    /\ table_[skey[s]].waiter # Nobody
    /\ send' = [send EXCEPT ![s] = "calling"]
    /\ peer' = [peer EXCEPT ![s] = table_[skey[s]].waiter]
    /\ table_' = [table_ EXCEPT ![skey[s]] = TakenBy(table_[skey[s]], s)]
    /\ IF tolerate_dup_recv THEN Ref(s) ELSE UNCHANGED refs
    /\ UNCHANGED <<status_, items, skey>> /\ UNCHANGED rvars

(* A done callback runs; that of Recv notifies the thread inside Recv.     *)
Done(r, status, value) ==
    /\ recv' = [recv EXCEPT ![r] = "done"]
    /\ rstatus' = [rstatus EXCEPT ![r] = status]
    /\ rvalue' = [rvalue EXCEPT ![r] = value]
    /\ UNCHANGED <<rkey, rctx, caller>>

(* ... outside mu_, after which the reference on recv_dev_context goes.    *)
KeepsReference(s) ==
    /\ send[s] = "calling"
    /\ Done(peer[s], "ok", s)
    /\ send' = [send EXCEPT ![s] = "ok"]
    /\ UNCHANGED <<status_, table_, items, skey, peer, refs>>
SendCallsWaiter(s) ==
    /\ send[s] = "calling"
    /\ Done(peer[s], "ok", s)
    /\ send' = [send EXCEPT ![s] = "ok"]
    /\ Unref(peer[s])
    /\ UNCHANGED <<status_, table_, items, skey, peer>>

-----------------------------------------------------------------------------
(* RecvAsync.  The callback of a call that does not wait is invoked after  *)
(* mu_ is released, with what was captured under it.                       *)
Captured(r, status, value, ctx) ==
    /\ recv' = [recv EXCEPT ![r] = "calling"]
    /\ rstatus' = [rstatus EXCEPT ![r] = status]
    /\ rvalue' = [rvalue EXCEPT ![r] = value]
    /\ rctx' = [rctx EXCEPT ![r] = ctx]
    /\ caller' = [caller EXCEPT ![r] = IF r \in Blocking THEN "blocked" ELSE @]
    /\ UNCHANGED <<status_, items, send, skey, peer, rkey>>

RecvAborted(r) ==
    /\ recv[r] = "idle" /\ status_ # "ok"
    /\ Captured(r, "aborted", Empty, Nobody)
    /\ UNCHANGED <<table_, refs>>

IsDuplicateRecv(item) ==
    /\ ~tolerate_dup_recv
    /\ item.has_been_recvd = "yes" \/ item.waiter # Nobody

RecvDuplicate(r) ==
    /\ recv[r] = "idle" /\ status_ = "ok" /\ table_[rkey[r]].there = "yes"
    /\ IsDuplicateRecv(table_[rkey[r]])
    /\ Captured(r, "duplicate", Empty, Nobody)
    /\ UNCHANGED <<table_, refs>>

NotMarked(item) ==
    [item EXCEPT !.value = IF tolerate_dup_recv THEN @ ELSE Empty]
Consumed(item) ==
    [there |-> "yes", waiter |-> item.waiter,
     value |-> IF tolerate_dup_recv THEN item.value ELSE Empty,
     has_been_recvd |-> "yes",
     send_dev_context |-> item.send_dev_context,
     recv_dev_context |-> item.recv_dev_context]

RecvFinds(r) ==
    /\ recv[r] = "idle" /\ status_ = "ok" /\ table_[rkey[r]].there = "yes"
    /\ LET k == rkey[r]
           item == table_[k] IN
          /\ ~IsDuplicateRecv(item)
          /\ Captured(r, "ok", item.value, item.send_dev_context)
          /\ table_' = [table_ EXCEPT ![k] = Consumed(item)]
          /\ IF item.send_dev_context = Nobody THEN UNCHANGED refs
                                               ELSE Ref(item.send_dev_context)

RecvWaits(r) ==
    /\ recv[r] = "idle" /\ status_ = "ok" /\ table_[rkey[r]].there = "no"
    /\ recv' = [recv EXCEPT ![r] = "waiting"]
    /\ table_' = [table_ EXCEPT ![rkey[r]] = StoredWaiter(r)]
    /\ caller' = [caller EXCEPT ![r] = IF r \in Blocking THEN "blocked" ELSE @]
    /\ Ref(r)
    /\ UNCHANGED <<status_, items, send, skey, peer, rkey, rstatus, rvalue, rctx>>

RecvCalls(r) ==
    /\ recv[r] = "calling"
    /\ recv' = [recv EXCEPT ![r] = "done"]
    /\ Unref(rctx[r])
    /\ UNCHANGED <<status_, table_, items, send, skey, peer, rkey, rstatus, rvalue,
                   rctx, caller>>

(* The thread in Recv wakes up, or gives up and returns.                   *)
RecvReturns(r) ==
    /\ caller[r] = "blocked" /\ recv[r] = "done"
    /\ caller' = [caller EXCEPT ![r] = "returned"]
    /\ UNCHANGED <<status_, table_, items, send, skey, peer, recv, rkey, rstatus,
                   rvalue, rctx, refs>>

RecvTimesOut(r) ==
    /\ caller[r] = "blocked" /\ recv[r] = "waiting"
    /\ caller' = [caller EXCEPT ![r] = "timed_out"]
    /\ UNCHANGED <<status_, table_, items, send, skey, peer, recv, rkey, rstatus,
                   rvalue, rctx, refs>>

-----------------------------------------------------------------------------
(* StartAbort empties the table; a later one returns at once.              *)
AbortForgetsWaiters ==
    /\ status_ = "ok"
    /\ status_' = "aborted"
    /\ table_' = [k \in Key |-> NoItem]
    /\ UNCHANGED <<items, send, skey, peer, refs>> /\ UNCHANGED rvars
StartAbort ==
    /\ status_ = "ok"
    /\ status_' = "aborted"
    /\ items' = table_
    /\ table_' = [k \in Key |-> NoItem]
    /\ UNCHANGED <<send, skey, peer, refs>> /\ UNCHANGED rvars

(* One item of the loop: its waiter is told, then ~Item drops references.  *)
ItemDestroyed(item) ==
    refs' = [x \in DOMAIN refs |->
               IF x \in {item.send_dev_context, item.recv_dev_context}
               THEN refs[x] - 1 ELSE refs[x]]

AbortItem(k) ==
    /\ items[k].there = "yes"
    /\ IF items[k].waiter # Nobody THEN Done(items[k].waiter, "aborted", Empty)
                                   ELSE UNCHANGED rvars
    /\ ItemDestroyed(items[k])
    /\ items' = [items EXCEPT ![k] = NoItem]
    /\ UNCHANGED <<status_, table_, send, skey, peer>>

Next ==
    \/ \E s \in Sender :
          \/ SendAborted(s) \/ SendStores(s) \/ SendDuplicate(s)
          \/ SendTakesWaiter(s) \/ SendCallsWaiter(s)
    \/ \E r \in Receiver :
          \/ RecvAborted(r) \/ RecvDuplicate(r) \/ RecvFinds(r) \/ RecvWaits(r)
          \/ RecvCalls(r) \/ RecvReturns(r) \/ RecvTimesOut(r)
    \/ StartAbort
    \/ \E k \in Key : AbortItem(k)

Spec == Init /\ [][Next]_vars

(* A thread inside Send, RecvAsync or StartAbort runs on, and done         *)
(* callbacks return.                                                       *)
FairSpec ==
    /\ Spec
    /\ \A s \in Sender : WF_vars(SendCallsWaiter(s))
    /\ \A r \in Receiver : WF_vars(RecvCalls(r))
    /\ \A k \in Key : WF_vars(AbortItem(k))

-----------------------------------------------------------------------------
TypeOK ==
    /\ status_ \in {"ok", "aborted"}
    /\ table_ \in [Key -> Items] /\ items \in [Key -> Items]
    /\ send \in [Sender -> {"idle", "calling", "ok", "duplicate", "aborted"}]
    /\ skey \in [Sender -> Key] /\ peer \in [Sender -> Receiver \cup {Nobody}]
    /\ recv \in [Receiver -> {"idle", "waiting", "calling", "done"}]
    /\ rkey \in [Receiver -> Key]
    /\ rstatus \in [Receiver -> {"none", "ok", "duplicate", "aborted"}]
    /\ rvalue \in [Receiver -> Sender \cup {Empty}]
    /\ rctx \in [Receiver -> Sender \cup {Nobody}]
    /\ caller \in [Receiver -> {"idle", "blocked", "returned", "timed_out"}]
    /\ refs \in [Sender \cup Receiver -> Int]

Posted(s) == send[s] \in {"calling", "ok"}

(* A receive that succeeds gets a message, and one that was sent under its *)
(* key.                                                                    *)
ReceivedWasSent ==
    \A r \in Receiver : rstatus[r] = "ok" =>
        /\ rvalue[r] \in Sender
        /\ Posted(rvalue[r]) /\ skey[rvalue[r]] = rkey[r]

(* A key is used by one producer and one consumer: of several receives     *)
(* under one key at most one succeeds, and so for sends.                   *)
OneToOne ==
    /\ \A r1, r2 \in Receiver :
          rstatus[r1] = "ok" /\ rstatus[r2] = "ok" /\ rkey[r1] = rkey[r2] =>
             r1 = r2
    /\ \A s1, s2 \in Sender :
          Posted(s1) /\ Posted(s2) /\ skey[s1] = skey[s2] => s1 = s2

(* A message whose Send succeeded is in the table until it is received,    *)
(* unless the rendezvous is aborted.                                       *)
NoMessageLost ==
    \A s \in Sender : Posted(s) /\ status_ = "ok" =>
        \/ table_[skey[s]].value = s
        \/ send[s] = "calling"
        \/ \E r \in Receiver : rvalue[r] = s

Holders(r) ==
    {<<"table", k>> : k \in {j \in Key : table_[j].waiter = r}} \cup
    {<<"items", k>> : k \in {j \in Key : items[j].waiter = r}} \cup
    {<<"send", s>> : s \in {t \in Sender : send[t] = "calling" /\ peer[t] = r}}

(* The callback of a waiting receive is in exactly one place from which it *)
(* will be called (the table, the vector of StartAbort, a Send that took   *)
(* it), and one that has been called or will not wait is in none: no       *)
(* callback is called twice, and none is dropped.                          *)
CalledExactlyOnce ==
    \A r \in Receiver :
        /\ recv[r] = "waiting" <=> Holders(r) # {}
        /\ \A h1, h2 \in Holders(r) : h1 = h2

(* The references the rendezvous holds on a device context are those of    *)
(* the items and of the calls in progress that still use it: none is       *)
(* leaked, none is dropped early.                                          *)
RefsExact ==
    \A x \in Sender \cup Receiver :
        refs[x] =
          Cardinality({k \in Key : x \in {table_[k].send_dev_context,
                                          table_[k].recv_dev_context}})
          + Cardinality({k \in Key : x \in {items[k].send_dev_context,
                                            items[k].recv_dev_context}})
          + Cardinality({s \in Sender : send[s] = "calling" /\ peer[s] = x})
          + Cardinality({r \in Receiver : recv[r] = "calling" /\ rctx[r] = x})

(* A receive that waits when its message is sent, or when the rendezvous   *)
(* is aborted, gets its callback called.                                   *)
WaitersAreTold ==
    \A r \in Receiver :
        (/\ recv[r] = "waiting"
         /\ \/ status_ = "aborted"
            \/ \E s \in Sender : Posted(s) /\ skey[s] = rkey[r])
        ~> recv[r] = "done"

(* rendezvous.h calls Recv a "Synchronous wrapper for RecvAsync": once it  *)
(* has returned, its callback does not run (it writes to Recv's locals).   *)
CallbackInsideRecv ==
    \A r \in Receiver : recv[r] = "done" => caller[r] # "timed_out"

-----------------------------------------------------------------------------
SendOutcome(s) ==
    IF send[s] = "idle" THEN "idle" ELSE IF Posted(s) THEN "sent" ELSE "refused"
RecvOutcome(r) ==
    IF recv[r] = "idle" THEN "idle"
    ELSE IF recv[r] # "done" THEN "asked"
    ELSE IF rstatus[r] = "ok" THEN "delivered" ELSE "turned_away"

(* The promise of rendezvous.h, in terms of the implementation: a call is  *)
(* answered when its callback runs or its Send is certain to succeed.      *)
Promise == INSTANCE MessagePassing WITH
    aborted <- IF status_ = "ok" THEN "no" ELSE "yes",
    sent <- [s \in Sender |-> SendOutcome(s)],
    asked <- [r \in Receiver |-> RecvOutcome(r)],
    got <- [r \in Receiver |-> IF recv[r] = "done" THEN rvalue[r] ELSE Empty]

(* Without tolerate_dup_recv, LocalRendezvousImpl keeps that promise.      *)
PassesMessages == Promise!Spec
=============================================================================
