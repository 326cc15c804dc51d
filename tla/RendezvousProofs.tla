-------------------------- MODULE RendezvousProofs --------------------------
(***************************************************************************)
(* What LocalRendezvousImpl guarantees without tolerate_dup_recv: aborts   *)
(* and the remaining receives keep the invariant of RendezvousSteps; the   *)
(* theorems about messages and callbacks; and that it implements the       *)
(* abstract MessagePassing.                                                *)
(***************************************************************************)
EXTENDS RendezvousSteps

(* SMT has half a minute for a step; a step meant for Zenon says so.       *)
USE Zenon
USE RendezvousAssumption

LEMMA AbortItemInv ==
    ASSUME ~tolerate_dup_recv, IInv, NEW k0 \in Key, AbortItem(k0)
    PROVE  IInv'
<1> USE DEF IInv
<1> DEFINE r0 == items[k0].waiter
<1>1. \A t \in Sender : Posted(t)' <=> Posted(t)
    BY DEF AbortItem, Posted
<1>2. status_ = "aborted" /\ table_ = [k \in Key |-> NoItem]
  <2>1. status_ = "ok" => items[k0] = NoItem BY DEF Phase
  <2> QED BY SMT DEF AbortItem, Phase, TypeOK, NoItem
<1>3. r0 # Nobody =>
         /\ r0 \in Receiver /\ recv[r0] = "waiting" /\ rkey[r0] = k0
         /\ rstatus[r0] = "none"
         /\ \A s \in Sender : send[s] = "calling" => peer[s] # r0
         /\ \A k \in Key \ {k0} : items[k].waiter # r0
    BY SMT DEF ItemsOK, ItemOK, SendersOK, PostedOK, CallingOK, Posted, ReceiversOK,
       AnswerOK, TypeOK, Items
<1>4. /\ items' = [items EXCEPT ![k0] = NoItem]
      /\ UNCHANGED <<status_, table_, send, skey, peer, rkey, rctx, caller>>
      /\ r0 # Nobody =>
            /\ recv' = [recv EXCEPT ![r0] = "done"]
            /\ rstatus' = [rstatus EXCEPT ![r0] = "aborted"]
            /\ rvalue' = [rvalue EXCEPT ![r0] = Empty]
      /\ r0 = Nobody => UNCHANGED <<recv, rstatus, rvalue>>
    BY DEF AbortItem, Done, rvars
<1>5. TypeOK'
  <2>1. refs' \in [Sender \cup Receiver -> Int] BY SMT DEF AbortItem, ItemDestroyed,
                                                   TypeOK
  <2>2. items' \in [Key -> Items] BY <1>4 DEF TypeOK, Items, NoItem
  <2> QED BY <1>4, <2>1, <2>2 DEF TypeOK
<1>6. Phase' BY <1>2, <1>4 DEF Phase
<1>7. ASSUME NEW k \in Key PROVE ItemOK(table_[k], k)' /\ ItemOK(items[k], k)'
  <2>1. ItemOK(items[k], k)'
    <3>1. CASE k = k0
      <4>1. items'[k] = NoItem BY <1>4, <3>1 DEF TypeOK
      <4> QED BY SMT, <4>1 DEF ItemOK, NoItem
    <3>2. CASE k # k0
      <4>1. ItemOK(items[k], k) BY DEF ItemsOK
      <4>2. items'[k] = items[k] BY SMT, <1>4, <3>2
      <4>3. \A q \in Receiver : /\ recv[q] # "idle" => recv'[q] # "idle"
                                /\ q # r0 => recv'[q] = recv[q]
        BY SMT, <1>4 DEF TypeOK
      <4>4. items[k].waiter # Nobody => /\ items[k].waiter \in Receiver
                                        /\ items[k].waiter # r0
        BY <1>3, <3>2 DEF TypeOK, Items
      <4>5. items[k].waiter # Nobody => recv'[items[k].waiter] = recv[items[k].waiter]
        BY <4>3, <4>4
      <4>6. items[k].value # Empty => items[k].value \in Sender
        BY DEF TypeOK, Items
      <4>7. UNCHANGED <<skey, rkey, send>> BY <1>4
      <4> HIDE DEF r0
      <4> QED BY <4>1, <4>2, <4>3, <4>5, <4>7 DEF ItemOK, Posted
    <3> QED BY <3>1, <3>2
  <2>2. ItemOK(table_[k], k)'
    BY <1>2, <1>4 DEF ItemOK, NoItem
  <2> QED BY <2>1, <2>2
<1>8. ASSUME NEW t \in Sender PROVE PostedOK(t)' /\ CallingOK(t)'
  <2>1. PostedOK(t)'
    BY SMT, <1>1, <1>2, <1>4 DEF SendersOK, PostedOK
  <2>2. CallingOK(t)'
    <3>1. CASE r0 = Nobody
      <4>1. CallingOK(t) BY DEF SendersOK
      <4>2. UNCHANGED <<status_, table_, send, skey, peer, rkey, recv, rstatus>>
        BY <1>4, <3>1
      <4> QED BY <4>1, <4>2 DEF CallingOK
    <3>2. CASE r0 # Nobody
      BY SMT, <1>3, <1>4 DEF SendersOK, CallingOK, TypeOK
    <3> QED BY <3>1, <3>2
  <2> QED BY <2>1, <2>2
<1>9. ASSUME NEW q \in Receiver PROVE AnswerOK(q)' /\ WaitingOK(q)'
  <2>1. AnswerOK(q)'
    <3>1. CASE r0 = Nobody
      <4>1. AnswerOK(q) BY DEF ReceiversOK
      <4>2. UNCHANGED <<status_, table_, send, skey, rkey, recv, rstatus, rvalue>>
        BY <1>4, <3>1
      <4> QED BY <4>1, <4>2 DEF AnswerOK, Posted
    <3>2. CASE r0 # Nobody
      <4>1. CASE q = r0
        <5>1. /\ recv'[q] = "done" /\ rstatus'[q] = "aborted"
              /\ rvalue'[q] = Empty
          BY <1>4, <4>1 DEF TypeOK
        <5>2. status_' = "aborted" BY <1>2, <1>4
        <5> QED BY <5>1, <5>2 DEF AnswerOK
      <4>2. CASE q # r0
        <5>1. /\ recv'[q] = recv[q] /\ rstatus'[q] = rstatus[q]
              /\ rvalue'[q] = rvalue[q]
          BY SMT, <1>4, <4>2 DEF TypeOK
        <5>2. \A p \in Receiver : recv[p] # "idle" => recv'[p] # "idle"
          BY SMT, <1>4 DEF TypeOK
        <5>3. AnswerOK(q) BY DEF ReceiversOK
        <5>4. UNCHANGED <<status_, table_, skey, rkey>> BY <1>4
        <5> QED BY ONLY Zenon, <1>1, <5>1, <5>2, <5>3, <5>4 DEF AnswerOK
      <4> QED BY <4>1, <4>2
    <3> QED BY <3>1, <3>2
  <2>2. WaitingOK(q)'
    <3>1. CASE r0 = Nobody
      BY SMT, <1>4, <3>1 DEF ReceiversOK, WaitingOK
    <3>2. CASE r0 # Nobody
      <4>1. recv'[q] = "waiting" => q # r0 /\ recv[q] = "waiting"
        BY SMT, <1>4 DEF TypeOK
      <4>2. table_[rkey[q]].waiter # q BY <1>2 DEF NoItem, TypeOK
      <4>3. items[rkey[q]].waiter = q /\ q # r0 => items'[rkey[q]].waiter = q
        BY SMT, <1>4
      <4> QED BY SMT, <1>4, <4>1, <4>2 DEF ReceiversOK, WaitingOK
    <3> QED BY <3>1, <3>2
  <2> QED BY <2>1, <2>2
<1>10. OneToOne'
  <2>1. \A r \in Receiver : rstatus'[r] = "ok" => rstatus[r] = "ok"
    BY SMT, <1>4 DEF TypeOK
  <2> QED BY <1>1, <1>4, <2>1 DEF OneToOne
<1> QED BY <1>5, <1>6, <1>7, <1>8, <1>9, <1>10 DEF ItemsOK, SendersOK,
           ReceiversOK

LEMMA RecvAbortedInv ==
    ASSUME ~tolerate_dup_recv, IInv, NEW r \in Receiver, RecvAborted(r)
    PROVE  IInv'
<1> USE DEF IInv
<1>1. \A t \in Sender : Posted(t)' <=> Posted(t)
    BY DEF RecvAborted, Captured, Posted
<1>3. TypeOK' BY DEF TypeOK, RecvAborted, Captured
<1>4. Phase' BY <1>1 DEF Phase, RecvAborted, Captured
<1>5. ItemsOK' BY <1>1, ItemsKept DEF RecvAborted, Captured, TypeOK
<1>6. ASSUME NEW t \in Sender PROVE PostedOK(t)' /\ CallingOK(t)'
  <2>1. PostedOK(t)' BY <1>1 DEF SendersOK, PostedOK, RecvAborted, Captured
  <2>2. CallingOK(t)' BY SMT DEF SendersOK, CallingOK, ReceiversOK, RecvAborted,
                         Captured
  <2> QED BY <2>1, <2>2
<1>7. ASSUME NEW q \in Receiver PROVE AnswerOK(q)' /\ WaitingOK(q)'
  <2>1. AnswerOK(q)' BY SMT, <1>1 DEF ReceiversOK, AnswerOK, TypeOK, RecvAborted,
                        Captured
  <2>2. WaitingOK(q)' BY SMT DEF ReceiversOK, WaitingOK, rvars, RecvAborted,
                         Captured
  <2> QED BY <2>1, <2>2
<1>8. OneToOne'
    BY SMT, <1>1 DEF OneToOne, CallingOK, ReceiversOK, AnswerOK, Items, rvars,
       RecvAborted, Captured
<1> QED BY Zenon, <1>3, <1>4, <1>5, <1>6, <1>7, <1>8 DEF ItemsOK, SendersOK,
           ReceiversOK

LEMMA RecvDuplicateInv ==
    ASSUME ~tolerate_dup_recv, IInv, NEW r \in Receiver, RecvDuplicate(r)
    PROVE  IInv'
<1> USE DEF IInv
<1>1. \A t \in Sender : Posted(t)' <=> Posted(t)
    BY DEF RecvDuplicate, Captured, Posted
<1>2. \E q \in Receiver \ {r} : rkey[q] = rkey[r] /\ recv[q] # "idle"
  <2> DEFINE i0 == table_[rkey[r]]
  <2>1. /\ rkey[r] \in Key /\ recv[r] = "idle" /\ i0.waiter \in Receiver \cup {Nobody}
        /\ i0.has_been_recvd = "yes" \/ i0.waiter # Nobody
    BY DEF RecvDuplicate, IsDuplicateRecv, TypeOK, Items
  <2>2. ItemOK(i0, rkey[r]) BY <2>1 DEF ItemsOK
  <2>3. CASE i0.has_been_recvd = "yes" BY <2>1, <2>2 DEF ItemOK
  <2>4. CASE i0.waiter # Nobody BY <2>1, <2>2 DEF ItemOK
  <2> QED BY <2>1, <2>3, <2>4
<1>3. TypeOK' BY <1>1 DEF TypeOK, RecvDuplicate, Captured
<1>4. Phase' BY DEF Phase, rvars, RecvDuplicate, Captured
<1>5. ItemsOK' BY <1>1, ItemsKept DEF RecvDuplicate, Captured, TypeOK
<1>6. ASSUME NEW t \in Sender PROVE PostedOK(t)' /\ CallingOK(t)'
  <2>1. PostedOK(t)' BY SMT, <1>1 DEF SendersOK, PostedOK, ReceiversOK, AnswerOK,
                        RecvDuplicate, Captured
  <2>2. CallingOK(t)' BY SMT DEF SendersOK, CallingOK, Items, RecvDuplicate,
                         Captured
  <2> QED BY <2>1, <2>2
<1>7. ASSUME NEW q \in Receiver PROVE AnswerOK(q)' /\ WaitingOK(q)'
  <2>1. AnswerOK(q)' BY SMT, <1>1, <1>2 DEF ReceiversOK, AnswerOK, TypeOK, rvars,
                        RecvDuplicate, Captured
  <2>2. WaitingOK(q)' BY SMT, <1>1 DEF ReceiversOK, WaitingOK, rvars, RecvDuplicate,
                         Captured
  <2> QED BY <2>1, <2>2
<1>8. OneToOne'
    BY SMT, <1>1 DEF OneToOne, Items, RecvDuplicate, Captured
<1> QED BY <1>3, <1>4, <1>5, <1>6, <1>7, <1>8 DEF ItemsOK, SendersOK,
           ReceiversOK

LEMMA RecvCallsInv ==
    ASSUME ~tolerate_dup_recv, IInv, NEW r \in Receiver, RecvCalls(r)
    PROVE  IInv'
<1> USE DEF IInv
<1>1. \A t \in Sender : Posted(t)' <=> Posted(t)
    BY DEF RecvCalls, Posted
<1>3. TypeOK' BY SMT DEF TypeOK, RecvCalls, Unref
<1>4. Phase' BY DEF Phase, RecvCalls
<1>5. ItemsOK' BY <1>1, ItemsKept DEF RecvCalls, TypeOK
<1>6. ASSUME NEW t \in Sender PROVE PostedOK(t)' /\ CallingOK(t)'
  <2>1. PostedOK(t)' BY <1>1 DEF SendersOK, PostedOK, RecvCalls
  <2>2. CallingOK(t)' BY SMT, <1>1 DEF SendersOK, CallingOK, Items, RecvCalls
  <2> QED BY <2>1, <2>2
<1>7. ASSUME NEW q \in Receiver PROVE AnswerOK(q)' /\ WaitingOK(q)'
  <2>1. AnswerOK(q)' BY SMT, <1>1 DEF ReceiversOK, AnswerOK, Items, rvars, RecvCalls
  <2>2. WaitingOK(q)' BY SMT DEF ReceiversOK, WaitingOK, RecvCalls
  <2> QED BY <2>1, <2>2
<1>8. OneToOne'
    BY <1>1 DEF OneToOne, RecvCalls
<1> QED BY <1>3, <1>4, <1>5, <1>6, <1>7, <1>8 DEF ItemsOK, SendersOK,
           ReceiversOK

LEMMA FrameInv ==
    ASSUME IInv, TypeOK',
           UNCHANGED <<status_, table_, items, send, skey, peer, recv, rkey, rstatus,
                       rvalue>>
    PROVE  IInv'
<1>1. Phase' BY DEF IInv, Phase
<1>2. ItemsOK'
  <2> SUFFICES ASSUME NEW k \in Key
               PROVE  ItemOK(table_[k], k)' /\ ItemOK(items[k], k)'
    BY DEF ItemsOK
  <2>1. ItemOK(table_[k], k)' BY SMT DEF IInv, ItemsOK, ItemOK, Posted
  <2>2. ItemOK(items[k], k)' BY SMT DEF IInv, ItemsOK, ItemOK, Posted
  <2> QED BY <2>1, <2>2
<1>3. SendersOK'
  <2> SUFFICES ASSUME NEW s \in Sender PROVE PostedOK(s)' /\ CallingOK(s)'
    BY DEF SendersOK
  <2>1. PostedOK(s)' BY DEF IInv, SendersOK, PostedOK, Posted
  <2>2. CallingOK(s)' BY DEF IInv, SendersOK, CallingOK
  <2> QED BY <2>1, <2>2
<1>4. ReceiversOK'
  <2> SUFFICES ASSUME NEW r \in Receiver PROVE AnswerOK(r)' /\ WaitingOK(r)'
    BY DEF ReceiversOK
  <2>1. AnswerOK(r)' BY SMT DEF IInv, ReceiversOK, AnswerOK, Posted
  <2>2. WaitingOK(r)' BY DEF IInv, ReceiversOK, WaitingOK
  <2> QED BY <2>1, <2>2
<1>5. OneToOne' BY DEF IInv, OneToOne, Posted
<1> QED BY <1>1, <1>2, <1>3, <1>4, <1>5 DEF IInv

LEMMA RecvReturnsInv ==
    ASSUME IInv, NEW r \in Receiver, RecvReturns(r)
    PROVE  IInv'
<1>1. TypeOK' BY DEF IInv, TypeOK, RecvReturns
<1> QED BY <1>1, FrameInv DEF RecvReturns

LEMMA RecvTimesOutInv ==
    ASSUME IInv, NEW r \in Receiver, RecvTimesOut(r)
    PROVE  IInv'
<1>1. TypeOK' BY DEF IInv, TypeOK, RecvTimesOut
<1> QED BY <1>1, FrameInv DEF RecvTimesOut

LEMMA StartAbortInv ==
    ASSUME ~tolerate_dup_recv, IInv, StartAbort
    PROVE  IInv'
<1> USE DEF IInv
<1>1. \A t \in Sender : Posted(t)' <=> Posted(t)
    BY DEF StartAbort, Posted
<1>3. TypeOK' BY <1>1 DEF TypeOK, Items, rvars, StartAbort, NoItem
<1>4. Phase' BY DEF Phase, rvars, StartAbort
<1>5. ASSUME NEW k \in Key PROVE ItemOK(table_[k], k)' /\ ItemOK(items[k], k)'
  <2>1. ItemOK(items[k], k)'
    <3>1. ItemOK(table_[k], k) BY DEF ItemsOK
    <3>2. /\ items'[k] = table_[k]
          /\ UNCHANGED <<send, skey, recv, rkey>>
      BY DEF StartAbort, rvars
    <3> QED BY Zenon, <3>1, <3>2 DEF ItemOK, Posted
  <2>2. ItemOK(table_[k], k)'
    BY DEF ItemOK, Items, rvars, StartAbort, NoItem
  <2> QED BY <2>1, <2>2
<1>6. ASSUME NEW t \in Sender PROVE PostedOK(t)' /\ CallingOK(t)'
  <2>1. PostedOK(t)' BY Zenon, <1>1 DEF SendersOK, PostedOK, TypeOK, StartAbort, NoItem
  <2>2. CallingOK(t)' BY <1>1 DEF SendersOK, CallingOK, rvars, StartAbort
  <2> QED BY <2>1, <2>2
<1>7. ASSUME NEW q \in Receiver PROVE AnswerOK(q)' /\ WaitingOK(q)'
  <2>1. AnswerOK(q)' BY SMT, <1>1 DEF ReceiversOK, AnswerOK, TypeOK, Items, rvars,
                        StartAbort
  <2>2. WaitingOK(q)' BY <1>1 DEF ReceiversOK, WaitingOK, TypeOK, Items, rvars,
                         StartAbort, Phase
  <2> QED BY <2>1, <2>2
<1>8. OneToOne'
    BY <1>1 DEF OneToOne, rvars, StartAbort
<1> QED BY <1>3, <1>4, <1>5, <1>6, <1>7, <1>8 DEF ItemsOK, SendersOK,
           ReceiversOK

LEMMA NextInv ==
    ASSUME ~tolerate_dup_recv, IInv, [Next]_vars
    PROVE  IInv'
<1>1. ASSUME NEW s \in Sender,
             SendAborted(s) \/ SendStores(s) \/ SendDuplicate(s)
             \/ SendTakesWaiter(s) \/ SendCallsWaiter(s)
      PROVE  IInv'
    BY <1>1, SendRefusedInv, SendStoresInv,
       SendTakesWaiterInv, SendCallsWaiterInv
<1>2. ASSUME NEW r \in Receiver,
             RecvAborted(r) \/ RecvDuplicate(r) \/ RecvFinds(r) \/ RecvWaits(r)
             \/ RecvCalls(r) \/ RecvReturns(r) \/ RecvTimesOut(r)
      PROVE  IInv'
    BY <1>2, RecvAbortedInv, RecvDuplicateInv, RecvFindsInv, RecvWaitsInv,
       RecvCallsInv, RecvReturnsInv, RecvTimesOutInv
<1>3. CASE StartAbort BY <1>3, StartAbortInv
<1>4. ASSUME NEW k \in Key, AbortItem(k) PROVE IInv' BY <1>4, AbortItemInv
<1>5. CASE UNCHANGED vars
  <2>1. TypeOK' BY <1>5 DEF vars, IInv, TypeOK
  <2> QED BY <1>5, <2>1, FrameInv DEF vars
<1> QED BY <1>1, <1>2, <1>3, <1>4, <1>5 DEF Next

(* The invariant holds in every reachable state.                           *)
THEOREM Invariance ==
    ASSUME ~tolerate_dup_recv
    PROVE  Spec => []IInv
<1>1. IInv /\ [Next]_vars => IInv' BY NextInv
<1> QED BY <1>1, InitInv, PTL DEF Spec

(* Every variable of the rendezvous keeps its type.                        *)
THEOREM TypeCorrect ==
    ASSUME ~tolerate_dup_recv
    PROVE  Spec => []TypeOK
<1>1. IInv => TypeOK BY DEF IInv
<1> QED BY <1>1, Invariance, PTL

(* Whatever RecvAsync hands to a callback with an OK status was sent under *)
(* the key it asked for.                                                   *)
THEOREM NothingInvented ==
    ASSUME ~tolerate_dup_recv
    PROVE  Spec => []ReceivedWasSent
<1>1. IInv => ReceivedWasSent
    BY DEF IInv, ReceiversOK, AnswerOK, ReceivedWasSent
<1> QED BY <1>1, Invariance, PTL

(* Under one key one Send succeeds and one receive gets its message.       *)
THEOREM OneProducerOneConsumer ==
    ASSUME ~tolerate_dup_recv
    PROVE  Spec => []OneToOne
<1>1. IInv => OneToOne BY DEF IInv
<1> QED BY <1>1, Invariance, PTL

(* A message whose Send succeeded is stored, in the hands of the Send, or  *)
(* received, as long as nobody calls StartAbort.                           *)
THEOREM NothingLost ==
    ASSUME ~tolerate_dup_recv
    PROVE  Spec => []NoMessageLost
<1>1. IInv => NoMessageLost
    BY DEF IInv, SendersOK, PostedOK, NoMessageLost
<1> QED BY <1>1, Invariance, PTL

LEMMA HoldersUnique ==
    ASSUME IInv, NEW r \in Receiver
    PROVE  /\ recv[r] = "waiting" <=> Holders(r) # {}
           /\ \A h1, h2 \in Holders(r) : h1 = h2
<1> USE DEF IInv
<1>1. \A k \in Key : /\ table_[k].waiter = r => recv[r] = "waiting" /\ rkey[r] = k
                     /\ items[k].waiter = r => recv[r] = "waiting" /\ rkey[r] = k
    BY SMT DEF ItemsOK, ItemOK
<1>2. \A s \in Sender : send[s] = "calling" /\ peer[s] = r =>
          /\ recv[r] = "waiting" /\ rkey[r] = skey[s] /\ Posted(s)
          /\ table_[rkey[r]].waiter # r /\ items[rkey[r]].waiter # r
  <2> SUFFICES ASSUME NEW s \in Sender, send[s] = "calling", peer[s] = r
               PROVE  /\ recv[r] = "waiting" /\ rkey[r] = skey[s] /\ Posted(s)
                      /\ table_[rkey[r]].waiter # r /\ items[rkey[r]].waiter # r
    OBVIOUS
  <2>1. PostedOK(s) /\ CallingOK(s) BY DEF SendersOK
  <2>2. r # Nobody BY RendezvousAssumption
  <2> QED BY Zenon, <2>1, <2>2 DEF PostedOK, CallingOK, Posted
<1>3. \A s, t \in Sender : send[s] = "calling" /\ peer[s] = r
                          /\ send[t] = "calling" /\ peer[t] = r => s = t
    BY <1>2 DEF OneToOne
<1>4. rkey[r] \in Key BY DEF TypeOK
<1>5. ~(table_[rkey[r]].waiter = r /\ items[rkey[r]].waiter = r)
    BY SMT, <1>4 DEF Phase, NoItem
<1>6. recv[r] = "waiting" <=> Holders(r) # {}
  <2>1. ASSUME recv[r] = "waiting" PROVE Holders(r) # {}
    <3>1. CASE table_[rkey[r]].waiter = r
      <4>1. <<"table", rkey[r]>> \in Holders(r) BY <1>4, <3>1 DEF Holders
      <4> QED BY <4>1
    <3>2. CASE items[rkey[r]].waiter = r
      <4>1. <<"items", rkey[r]>> \in Holders(r) BY <1>4, <3>2 DEF Holders
      <4> QED BY <4>1
    <3>3. ASSUME NEW s \in Sender, send[s] = "calling", peer[s] = r
          PROVE  Holders(r) # {}
      <4>1. <<"send", s>> \in Holders(r) BY <3>3 DEF Holders
      <4> QED BY <4>1
    <3> QED BY <2>1, <3>1, <3>2, <3>3 DEF ReceiversOK, WaitingOK
  <2>2. ASSUME Holders(r) # {} PROVE recv[r] = "waiting"
    BY <2>2, <1>1, <1>2 DEF Holders
  <2> QED BY <2>1, <2>2
<1>7. ASSUME NEW h1 \in Holders(r), NEW h2 \in Holders(r) PROVE h1 = h2
  <2> DEFINE InTable(h) == h = <<"table", rkey[r]>> /\ table_[rkey[r]].waiter = r
             InItems(h) == h = <<"items", rkey[r]>> /\ items[rkey[r]].waiter = r
             InSend(h) == \E s \in Sender : /\ h = <<"send", s>>
                                           /\ send[s] = "calling" /\ peer[s] = r
  <2>1. ASSUME NEW h \in Holders(r) PROVE InTable(h) \/ InItems(h) \/ InSend(h)
    BY <1>1 DEF Holders
  <2>2. InTable(h1) \/ InItems(h1) \/ InSend(h1) BY <2>1
  <2>3. InTable(h2) \/ InItems(h2) \/ InSend(h2) BY <2>1
  <2>4. CASE InTable(h1) BY <2>3, <2>4, <1>2, <1>5
  <2>5. CASE InItems(h1) BY <2>3, <2>5, <1>2, <1>5
  <2>6. CASE InSend(h1) BY <2>3, <2>6, <1>2, <1>3
  <2> QED BY <2>2, <2>4, <2>5, <2>6
<1> QED BY <1>6, <1>7

(* No done callback is called twice and none is dropped: while a receive   *)
(* waits exactly one place holds its callback.                             *)
THEOREM CallbacksCalledOnce ==
    ASSUME ~tolerate_dup_recv
    PROVE  Spec => []CalledExactlyOnce
<1>1. IInv => CalledExactlyOnce BY HoldersUnique DEF CalledExactlyOnce
<1> QED BY <1>1, Invariance, PTL

-----------------------------------------------------------------------------
LEMMA PromiseInit ==
    Init => Promise!Init
BY SMT DEF Init, Promise!Init, SendOutcome, RecvOutcome

(* A step that leaves every outcome alone is a stutter of the promise.     *)
LEMMA Stutters ==
    ASSUME \A s \in Sender : SendOutcome(s)' = SendOutcome(s),
           \A r \in Receiver : RecvOutcome(r)' = RecvOutcome(r),
           \A r \in Receiver : (recv[r] = "done" <=> recv'[r] = "done")
                               /\ (recv[r] = "done" => rvalue'[r] = rvalue[r]),
           UNCHANGED <<status_, skey, rkey>>
    PROVE  UNCHANGED Promise!vars
BY DEF Promise!vars

LEMMA SendAbortedPromise ==
    ASSUME IInv, NEW s \in Sender, SendAborted(s)
    PROVE  Promise!Refuse(s)
BY Zenon DEF IInv, TypeOK, SendAborted, Promise!Refuse, SendOutcome, RecvOutcome,
   Posted, rvars

LEMMA AcceptStep ==
    ASSUME TypeOK, NEW s \in Sender, send[s] = "idle", status_ = "ok",
           NEW at \in {"ok", "calling"}, send' = [send EXCEPT ![s] = at],
           \A t \in Sender : skey[t] = skey[s] => ~Posted(t),
           UNCHANGED <<status_, skey, recv, rkey, rstatus, rvalue>>
    PROVE  Promise!Accept(s)
<1> DEFINE sent == [t \in Sender |-> SendOutcome(t)]
<1>1. \A t \in Sender : SendOutcome(t)' = IF t = s THEN "sent" ELSE SendOutcome(t)
    BY DEF SendOutcome, Posted, TypeOK
<1>2. sent' = [sent EXCEPT ![s] = "sent"] BY Zenon, <1>1
<1>3. \A t \in Sender : skey[t] = skey[s] => sent[t] # "sent"
    BY DEF SendOutcome
<1>4. sent[s] = "idle" BY DEF SendOutcome
<1>5. UNCHANGED <<status_, skey, rkey, [r \in Receiver |-> RecvOutcome(r)],
          [r \in Receiver |-> IF recv[r] = "done" THEN rvalue[r] ELSE Empty]>>
    BY DEF RecvOutcome
<1> QED BY <1>2, <1>3, <1>4, <1>5 DEF Promise!Accept

LEMMA SendStoresPromise ==
    ASSUME IInv, NEW s \in Sender, SendStores(s)
    PROVE  Promise!Accept(s)
<1>1. \A t \in Sender : skey[t] = skey[s] => ~Posted(t)
    BY DEF IInv, SendersOK, PostedOK, SendStores
<1> QED BY Zenon, <1>1, AcceptStep DEF IInv, SendStores, rvars

LEMMA SendTakesWaiterPromise ==
    ASSUME IInv, NEW s \in Sender, SendTakesWaiter(s)
    PROVE  Promise!Accept(s)
<1>1. \A t \in Sender : skey[t] = skey[s] => ~Posted(t)
    BY SMT, Zenon DEF IInv, SendersOK, PostedOK, SendTakesWaiter
<1> QED BY Zenon, <1>1, AcceptStep DEF IInv, SendTakesWaiter, rvars

LEMMA SendDuplicatePromise ==
    ASSUME IInv, NEW s \in Sender, SendDuplicate(s)
    PROVE  Promise!Refuse(s)
<1> DEFINE i0 == table_[skey[s]]
<1>1. /\ ItemOK(i0, skey[s]) /\ i0.there = "yes" /\ i0.waiter = Nobody
      /\ i0.value \in Sender \cup {Empty} /\ i0.has_been_recvd \in {"yes", "no"}
    BY DEF IInv, TypeOK, Items, ItemsOK, SendDuplicate
<1>2. \E t \in Sender : skey[t] = skey[s] /\ Posted(t)
  <2>1. CASE i0.has_been_recvd = "yes" BY <1>1 DEF ItemOK
  <2>2. CASE i0.has_been_recvd = "no" BY <1>1 DEF ItemOK
  <2> QED BY <1>1, <2>1, <2>2
<1>3. PICK t \in Sender : skey[t] = skey[s] /\ Posted(t) BY <1>2
<1>4. SendOutcome(t) = "sent" BY <1>3 DEF SendOutcome, Posted
<1> QED BY Zenon, <1>3 DEF IInv, TypeOK, SendDuplicate, Promise!Refuse, SendOutcome,
           RecvOutcome, Posted, rvars

(* The steps of a receiver: it asks, it is answered.                       *)
LEMMA AskStep ==
    ASSUME TypeOK, NEW r \in Receiver, recv[r] = "idle",
           NEW at \in {"waiting", "calling"}, recv' = [recv EXCEPT ![r] = at],
           \A q \in Receiver \ {r} : rstatus'[q] = rstatus[q] /\ rvalue'[q] = rvalue[q],
           UNCHANGED <<status_, send, skey, rkey>>
    PROVE  Promise!Ask(r)
<1> DEFINE asked == [q \in Receiver |-> RecvOutcome(q)]
           got == [q \in Receiver |-> IF recv[q] = "done" THEN rvalue[q] ELSE Empty]
<1>1. \A q \in Receiver : RecvOutcome(q)' = IF q = r THEN "asked" ELSE RecvOutcome(q)
    BY DEF RecvOutcome, TypeOK
<1>2. asked' = [asked EXCEPT ![r] = "asked"] BY Zenon, <1>1
<1>3. asked[r] = "idle" BY DEF RecvOutcome
<1>4. got' = got BY SMT
<1>5. UNCHANGED <<status_, skey, rkey, [s \in Sender |-> SendOutcome(s)]>>
    BY DEF SendOutcome, Posted
<1> QED BY SMT, <1>2, <1>3, <1>5 DEF Promise!Ask

LEMMA AnswerStep ==
    ASSUME TypeOK, NEW r \in Receiver, recv[r] \in {"waiting", "calling"},
           recv' = [recv EXCEPT ![r] = "done"],
           \A q \in Receiver \ {r} : rstatus'[q] = rstatus[q] /\ rvalue'[q] = rvalue[q],
           \A s \in Sender : SendOutcome(s)' = SendOutcome(s),
           UNCHANGED <<status_, skey, rkey>>,
           \/ /\ rstatus'[r] = "ok" /\ rvalue'[r] \in Sender
              /\ Posted(rvalue'[r]) /\ skey[rvalue'[r]] = rkey[r]
              /\ \A q \in Receiver : rkey[q] = rkey[r] /\ recv[q] = "done" =>
                                       rstatus[q] # "ok"
           \/ /\ rstatus'[r] # "ok" /\ rvalue'[r] = Empty
              /\ \/ status_ = "aborted"
                 \/ \E q \in Receiver \ {r} : rkey[q] = rkey[r] /\ recv[q] # "idle"
    PROVE  Promise!Deliver(r) \/ Promise!TurnAway(r)
<1> DEFINE sent == [s \in Sender |-> SendOutcome(s)]
           asked == [q \in Receiver |-> RecvOutcome(q)]
           got == [q \in Receiver |-> IF recv[q] = "done" THEN rvalue[q] ELSE Empty]
           to == IF rstatus'[r] = "ok" THEN "delivered" ELSE "turned_away"
<1>1. \A q \in Receiver : RecvOutcome(q)' = IF q = r THEN to ELSE RecvOutcome(q)
    BY Zenon DEF RecvOutcome, TypeOK
<1>2. asked' = [asked EXCEPT ![r] = to] BY Zenon, <1>1
<1>3. asked[r] = "asked" BY DEF RecvOutcome
<1>4. got' = [got EXCEPT ![r] = rvalue'[r]] BY Zenon DEF TypeOK
<1>5. UNCHANGED <<status_, skey, rkey, sent>> OBVIOUS
<1>6. CASE rstatus'[r] = "ok"
  <2>1. sent[rvalue'[r]] = "sent" /\ rvalue'[r] \in Sender /\ skey[rvalue'[r]] = rkey[r]
    BY <1>6 DEF SendOutcome, Posted
  <2>0. \A q \in Receiver : rkey[q] = rkey[r] /\ recv[q] = "done" => rstatus[q] # "ok"
    BY <1>6
  <2>2. \A q \in Receiver : rkey[q] = rkey[r] => asked[q] # "delivered"
    BY ONLY Zenon, <2>0 DEF RecvOutcome
  <2> QED BY Zenon, <1>2, <1>3, <1>4, <1>5, <2>1, <2>2 DEF Promise!Deliver
<1>7. CASE rstatus'[r] # "ok"
  <2>1. got' = got BY SMT, <1>7
  <2>0. \A q \in Receiver : recv[q] # "idle" => asked[q] # "idle"
    BY ONLY Zenon DEF RecvOutcome
  <2>4. \/ status_ = "aborted"
        \/ \E q \in Receiver \ {r} : rkey[q] = rkey[r] /\ recv[q] # "idle"
    BY <1>7
  <2>2. \/ status_ = "aborted"
        \/ \E q \in Receiver \ {r} : rkey[q] = rkey[r] /\ asked[q] # "idle"
    BY ONLY Zenon, <2>0, <2>4
  <2>3. asked' = [asked EXCEPT ![r] = "turned_away"] BY Zenon, <1>2, <1>7
  <2> QED BY ONLY Zenon, <1>3, <1>5, <2>1, <2>2, <2>3 DEF Promise!TurnAway
<1> QED BY <1>6, <1>7

LEMMA NextPromise ==
    ASSUME IInv, [Next]_vars
    PROVE  [Promise!Next]_(Promise!vars)
<1>1. ASSUME NEW s \in Sender, SendAborted(s) PROVE Promise!Next
    BY <1>1, SendAbortedPromise DEF Promise!Next
<1>2. ASSUME NEW s \in Sender, SendStores(s) PROVE Promise!Next
    BY <1>2, SendStoresPromise DEF Promise!Next
<1>3. ASSUME NEW s \in Sender, SendDuplicate(s) PROVE Promise!Next
    BY <1>3, SendDuplicatePromise DEF Promise!Next
<1>4. ASSUME NEW s \in Sender, SendTakesWaiter(s) PROVE Promise!Next
    BY <1>4, SendTakesWaiterPromise DEF Promise!Next
<1>5. ASSUME NEW s \in Sender, SendCallsWaiter(s) PROVE Promise!Next
  <2>0. PICK r \in Receiver : r = peer[s]
    BY <1>5 DEF IInv, SendersOK, CallingOK, SendCallsWaiter
  <2>1. /\ r \in Receiver /\ recv[r] = "waiting" /\ rkey[r] = skey[s]
        /\ \A q \in Receiver : rkey[q] = rkey[r] => rstatus[q] # "ok"
    BY <1>5, <2>0 DEF IInv, SendersOK, CallingOK, SendCallsWaiter
  <2>2. /\ recv' = [recv EXCEPT ![r] = "done"]
        /\ rstatus'[r] = "ok" /\ rvalue'[r] = s
        /\ \A q \in Receiver \ {r} : rstatus'[q] = rstatus[q] /\ rvalue'[q] = rvalue[q]
        /\ UNCHANGED <<status_, skey, rkey>>
    BY <1>5, <2>0 DEF IInv, TypeOK, SendCallsWaiter, Done
  <2>3. Posted(s) /\ \A t \in Sender : SendOutcome(t)' = SendOutcome(t)
    BY SMT, <1>5 DEF SendCallsWaiter, Posted, SendOutcome
  <2>4. TypeOK BY DEF IInv
  <2>5. Promise!Deliver(r) \/ Promise!TurnAway(r)
    BY Zenon, <2>1, <2>2, <2>3, <2>4, AnswerStep
  <2> QED BY <2>5 DEF Promise!Next
<1>6. ASSUME NEW r \in Receiver, RecvAborted(r) \/ RecvDuplicate(r) \/ RecvFinds(r)
      PROVE  Promise!Next
  <2>1. /\ recv[r] = "idle" /\ recv' = [recv EXCEPT ![r] = "calling"]
        /\ \A q \in Receiver \ {r} : rstatus'[q] = rstatus[q] /\ rvalue'[q] = rvalue[q]
        /\ UNCHANGED <<status_, send, skey, rkey>>
    BY SMT, Zenon, <1>6 DEF RecvAborted, RecvDuplicate, RecvFinds, Captured, IInv, TypeOK
  <2>2. TypeOK BY DEF IInv
  <2>3. Promise!Ask(r) BY Zenon, <2>1, <2>2, AskStep
  <2> QED BY <2>3 DEF Promise!Next
<1>7. ASSUME NEW r \in Receiver, RecvWaits(r) PROVE Promise!Next
  <2>1. TypeOK BY DEF IInv
  <2>2. Promise!Ask(r) BY Zenon, <1>7, <2>1, AskStep DEF RecvWaits
  <2> QED BY <2>2 DEF Promise!Next
<1>8. ASSUME NEW r \in Receiver, RecvCalls(r) PROVE Promise!Next
  <2>1. TypeOK /\ AnswerOK(r) BY DEF IInv, ReceiversOK
  <2>2. /\ recv[r] = "calling" /\ recv' = [recv EXCEPT ![r] = "done"]
        /\ rstatus' = rstatus /\ rvalue' = rvalue
        /\ UNCHANGED <<status_, send, skey, rkey>>
    BY <1>8 DEF RecvCalls
  <2>3. \A t \in Sender : SendOutcome(t)' = SendOutcome(t)
    BY <2>2 DEF Posted, SendOutcome
  <2>4. CASE rstatus[r] = "ok"
    <3>1. \A q \in Receiver : rkey[q] = rkey[r] /\ recv[q] = "done" => rstatus[q] # "ok"
      BY <2>2, <2>4 DEF IInv, OneToOne
    <3>2. rvalue[r] \in Sender /\ Posted(rvalue[r]) /\ skey[rvalue[r]] = rkey[r]
      BY <2>1, <2>4 DEF AnswerOK
    <3>3. Promise!Deliver(r) \/ Promise!TurnAway(r)
      BY Zenon, <2>1, <2>2, <2>3, <2>4, <3>1, <3>2, AnswerStep
    <3> QED BY <3>3 DEF Promise!Next
  <2>5. CASE rstatus[r] # "ok"
    <3>1. /\ rvalue[r] = Empty
          /\ \/ status_ = "aborted"
             \/ \E q \in Receiver \ {r} : rkey[q] = rkey[r] /\ recv[q] # "idle"
      BY <2>1, <2>2, <2>5 DEF AnswerOK, TypeOK
    <3>2. Promise!Deliver(r) \/ Promise!TurnAway(r)
      BY Zenon, <2>1, <2>2, <2>3, <2>5, <3>1, AnswerStep
    <3> QED BY <3>2 DEF Promise!Next
  <2> QED BY <2>4, <2>5
<1>9. ASSUME NEW r \in Receiver, RecvReturns(r) \/ RecvTimesOut(r)
      PROVE  UNCHANGED Promise!vars
    BY <1>9, Stutters DEF RecvReturns, RecvTimesOut, SendOutcome, RecvOutcome,
       Posted
<1>10. CASE StartAbort
  <2>1. Promise!Abort
    BY <1>10 DEF StartAbort, rvars, Promise!Abort, SendOutcome, RecvOutcome,
       Posted
  <2> QED BY <2>1 DEF Promise!Next
<1>11. ASSUME NEW k \in Key, AbortItem(k) PROVE [Promise!Next]_(Promise!vars)
  <2>1. \A t \in Sender : SendOutcome(t)' = SendOutcome(t)
    BY <1>11 DEF AbortItem, Posted, SendOutcome
  <2>2. CASE items[k].waiter = Nobody
    <3>1. UNCHANGED <<status_, skey, rkey, recv, rstatus, rvalue>>
      BY <1>11, <2>2 DEF AbortItem, rvars
    <3> QED BY <2>1, <3>1, Stutters DEF RecvOutcome
  <2>3. CASE items[k].waiter # Nobody
    <3>0. PICK r \in Receiver : r = items[k].waiter BY <2>3 DEF IInv, TypeOK,
                                                       Items
    <3>1. TypeOK /\ r \in Receiver /\ recv[r] = "waiting"
      <4>1. TypeOK /\ ItemOK(items[k], k) BY DEF IInv, ItemsOK
      <4> QED BY <2>3, <3>0, <4>1 DEF ItemOK
    <3>2. status_ = "aborted"
      <4>1. status_ = "ok" => items[k] = NoItem BY DEF IInv, Phase
      <4> QED BY SMT, <1>11, <4>1 DEF AbortItem, IInv, TypeOK, NoItem
    <3>3. /\ recv' = [recv EXCEPT ![r] = "done"]
          /\ rstatus'[r] # "ok" /\ rvalue'[r] = Empty
          /\ \A q \in Receiver \ {r} : rstatus'[q] = rstatus[q] /\ rvalue'[q] = rvalue[q]
          /\ UNCHANGED <<status_, skey, rkey>>
      <4>1. Done(r, "aborted", Empty) /\ UNCHANGED <<status_, skey>>
        BY <1>11, <3>0 DEF AbortItem
      <4>2. /\ rstatus \in [Receiver -> {"none", "ok", "duplicate", "aborted"}]
            /\ rvalue \in [Receiver -> Sender \cup {Empty}]
        BY <3>1 DEF TypeOK
      <4> HIDE <1>11, <2>3, <3>0, <3>1
      <4> QED BY <4>1, <4>2 DEF Done
    <3>4. Promise!Deliver(r) \/ Promise!TurnAway(r)
      BY Zenon, <2>1, <3>1, <3>2, <3>3, AnswerStep
    <3> QED BY <3>4 DEF Promise!Next
  <2> QED BY <2>2, <2>3
<1>12. CASE UNCHANGED vars
    BY Zenon, <1>12, Stutters DEF vars, SendOutcome, RecvOutcome, Posted
<1> QED BY <1>1, <1>2, <1>3, <1>4, <1>5, <1>6, <1>7, <1>8, <1>9, <1>10, <1>11,
           <1>12 DEF Next

(* Send, RecvAsync, their callbacks and StartAbort together behave like    *)
(* the abstract message passing that rendezvous.h promises.                *)
THEOREM KeepsThePromise ==
    ASSUME ~tolerate_dup_recv
    PROVE  Spec => PassesMessages
<1>1. IInv /\ [Next]_vars => [Promise!Next]_(Promise!vars) BY NextPromise
<1> QED BY <1>1, PromiseInit, Invariance, PTL DEF Spec, Promise!Spec, PassesMessages

=============================================================================
