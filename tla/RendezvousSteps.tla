-------------------------- MODULE RendezvousSteps ---------------------------
(***************************************************************************)
(* The inductive invariant of LocalRendezvousImpl without                  *)
(* tolerate_dup_recv, as a direct session builds it, for any keys, senders *)
(* and receivers: it holds initially, and Send and the receives that find  *)
(* a value or wait for one keep it.                                        *)
(***************************************************************************)
EXTENDS Rendezvous, TLAPS

(* SMT has half a minute for a step; a step meant for Zenon says so.       *)
USE Zenon

(* What an item under k may be, in the table or in StartAbort's vector.    *)
ItemOK(i, k) ==
    /\ i.there = "no" => i = NoItem
    /\ i.waiter # Nobody =>
          /\ recv[i.waiter] = "waiting" /\ rkey[i.waiter] = k
          /\ i.value = Empty /\ i.has_been_recvd = "no"
    /\ i.value # Empty =>
          /\ Posted(i.value) /\ skey[i.value] = k
          /\ i.waiter = Nobody /\ i.has_been_recvd = "no"
    /\ i.there = "yes" /\ i.waiter = Nobody /\ i.has_been_recvd = "no" =>
          i.value # Empty
    /\ i.has_been_recvd = "yes" =>
          /\ \E s \in Sender : Posted(s) /\ skey[s] = k
          /\ \E r \in Receiver : recv[r] # "idle" /\ rkey[r] = k

(* StartAbort moves everything from one to the other.                      *)
Phase ==
    /\ status_ = "ok" => items = [k \in Key |-> NoItem]
    /\ status_ # "ok" => table_ = [k \in Key |-> NoItem]

ItemsOK == \A k \in Key : ItemOK(table_[k], k) /\ ItemOK(items[k], k)

(* A message that was accepted is where it must be ...                     *)
PostedOK(s) ==
    Posted(s) =>
        /\ table_[skey[s]].waiter = Nobody /\ items[skey[s]].waiter = Nobody
        /\ status_ = "ok" => table_[skey[s]].there = "yes"
        /\ status_ = "ok" =>
              \/ table_[skey[s]].value = s \/ send[s] = "calling"
              \/ \E r \in Receiver : rvalue[r] = s

(* ... and a Send that has taken a waiter is the only one to answer it.    *)
CallingOK(s) ==
    send[s] = "calling" =>
        /\ peer[s] \in Receiver
        /\ recv[peer[s]] = "waiting" /\ rkey[peer[s]] = skey[s]
        /\ status_ = "ok" => table_[skey[s]].has_been_recvd = "yes"
        /\ \A r \in Receiver : rkey[r] = skey[s] => rstatus[r] # "ok"

SendersOK == \A s \in Sender : PostedOK(s) /\ CallingOK(s)

(* Every answer has a reason ...                                           *)
AnswerOK(r) ==
    /\ recv[r] \in {"idle", "waiting"} <=> rstatus[r] = "none"
    /\ rstatus[r] # "ok" => rvalue[r] = Empty
    /\ rstatus[r] = "ok" =>
          /\ rvalue[r] \in Sender
          /\ Posted(rvalue[r]) /\ skey[rvalue[r]] = rkey[r]
          /\ status_ = "ok" => table_[rkey[r]].has_been_recvd = "yes"
    /\ rstatus[r] = "duplicate" =>
          \E q \in Receiver \ {r} : rkey[q] = rkey[r] /\ recv[q] # "idle"
    /\ rstatus[r] = "aborted" => status_ = "aborted"

(* ... and a receive that waits is held by somebody.                       *)
WaitingOK(r) ==
    recv[r] = "waiting" =>
        \/ table_[rkey[r]].waiter = r \/ items[rkey[r]].waiter = r
        \/ \E s \in Sender : send[s] = "calling" /\ peer[s] = r

ReceiversOK == \A r \in Receiver : AnswerOK(r) /\ WaitingOK(r)

IInv == TypeOK /\ Phase /\ ItemsOK /\ SendersOK /\ ReceiversOK /\ OneToOne

USE RendezvousAssumption

LEMMA InitInv ==
    Init => IInv
<1> SUFFICES ASSUME Init PROVE IInv OBVIOUS
<1>1. TypeOK BY SMT DEF Init, TypeOK, NoItem, Items
<1>2. Phase BY DEF Init, Phase
<1>3. ItemsOK BY DEF Init, ItemsOK, ItemOK, NoItem
<1>4. SendersOK BY DEF Init, SendersOK, PostedOK, CallingOK, Posted
<1>5. ReceiversOK BY DEF Init, ReceiversOK, AnswerOK, WaitingOK
<1>6. OneToOne BY DEF Init, OneToOne, Posted
<1> QED BY <1>1, <1>2, <1>3, <1>4, <1>5, <1>6 DEF IInv

(* Items keep what they promise when receives only move on ...             *)
LEMMA ItemStays ==
    ASSUME IInv, NEW k \in Key,
           UNCHANGED <<skey, rkey>>,
           \A s \in Sender : Posted(s) => Posted(s)',
           \A q \in Receiver :
              /\ recv[q] # "idle" => recv'[q] # "idle"
              /\ recv[q] = "waiting" =>
                    \/ recv'[q] = "waiting"
                    \/ table_[k].waiter # q /\ items[k].waiter # q
    PROVE  /\ table_'[k] = table_[k] => ItemOK(table_[k], k)'
           /\ items'[k] = items[k] => ItemOK(items[k], k)'
<1>1. ItemOK(table_[k], k) /\ ItemOK(items[k], k)
  BY DEF IInv, ItemsOK
<1>2. /\ table_[k].waiter \in Receiver \cup {Nobody} /\ table_[k].value \in Sender \cup {Empty}
      /\ items[k].waiter \in Receiver \cup {Nobody} /\ items[k].value \in Sender \cup {Empty}
  BY DEF IInv, TypeOK, Items
<1>3. /\ table_[k].waiter # Nobody => recv'[table_[k].waiter] = "waiting"
      /\ items[k].waiter # Nobody => recv'[items[k].waiter] = "waiting"
  BY <1>1, <1>2 DEF ItemOK
<1>4. /\ \A s \in Sender : Posted(s) => Posted(s)'
      /\ \A q \in Receiver : recv[q] # "idle" => recv'[q] # "idle"
      /\ UNCHANGED <<skey, rkey>>
  OBVIOUS
<1>5. ASSUME table_'[k] = table_[k] PROVE ItemOK(table_[k], k)'
  BY ONLY Zenon, <1>1, <1>2, <1>3, <1>4, <1>5 DEF ItemOK
<1>6. ASSUME items'[k] = items[k] PROVE ItemOK(items[k], k)'
  BY ONLY Zenon, <1>1, <1>2, <1>3, <1>4, <1>6 DEF ItemOK
<1> QED BY <1>5, <1>6

(* ... whether the table stays as it is ...                                *)
LEMMA ItemsKept ==
    ASSUME IInv, UNCHANGED <<table_, items, skey, rkey>>,
           \A s \in Sender : Posted(s) => Posted(s)',
           \A q \in Receiver :
              /\ recv[q] # "idle" => recv'[q] # "idle"
              /\ recv[q] = "waiting" =>
                    \/ recv'[q] = "waiting"
                    \/ \A k \in Key : table_[k].waiter # q /\ items[k].waiter # q
    PROVE  ItemsOK'
BY ItemStays DEF ItemsOK

(* ... or changes at a key where it is known to be in order.               *)
LEMMA ItemsMove ==
    ASSUME IInv, NEW k0 \in Key, UNCHANGED <<items, skey, rkey>>,
           \A k \in Key \ {k0} : table_'[k] = table_[k],
           ItemOK(table_[k0], k0)',
           \A s \in Sender : Posted(s) => Posted(s)',
           \A q \in Receiver :
              /\ recv[q] # "idle" => recv'[q] # "idle"
              /\ recv[q] = "waiting" => recv'[q] = "waiting"
    PROVE  ItemsOK'
<1> SUFFICES ASSUME NEW k \in Key
             PROVE  ItemOK(table_[k], k)' /\ ItemOK(items[k], k)'
  BY DEF ItemsOK
<1>1. ItemOK(items[k], k)' BY ItemStays
<1>2. CASE k = k0 BY <1>1, <1>2
<1>3. CASE k # k0 BY <1>1, <1>3, ItemStays
<1> QED BY <1>2, <1>3

LEMMA RecvFindsInv ==
    ASSUME ~tolerate_dup_recv, IInv, NEW r \in Receiver, RecvFinds(r)
    PROVE  IInv'
<1>1. PICK k0 \in Key : k0 = rkey[r] BY DEF IInv, TypeOK
<1>2. PICK i \in Items : i = table_[k0] BY DEF IInv, TypeOK
<1>3. /\ status_ = "ok" /\ recv[r] = "idle"
      /\ i.there = "yes" /\ i.waiter = Nobody /\ i.has_been_recvd = "no"
    BY <1>1, <1>2 DEF RecvFinds, IsDuplicateRecv, Items
<1>4. /\ recv' = [recv EXCEPT ![r] = "calling"]
      /\ rstatus' = [rstatus EXCEPT ![r] = "ok"]
      /\ rvalue' = [rvalue EXCEPT ![r] = i.value]
      /\ rctx' = [rctx EXCEPT ![r] = i.send_dev_context]
      /\ table_' = [table_ EXCEPT ![k0] = Consumed(i)]
      /\ status_' = status_ /\ items' = items /\ send' = send
      /\ skey' = skey /\ peer' = peer /\ rkey' = rkey
    BY <1>1, <1>2 DEF RecvFinds, Captured
<1>5. PICK m \in Sender : m = i.value /\ Posted(m) /\ skey[m] = k0
  <2>1. ItemOK(i, k0) BY <1>2 DEF IInv, ItemsOK
  <2> QED BY ONLY Zenon, <1>3, <2>1, i \in Items DEF ItemOK, Items
<1>6. TypeOK'
  <2>1. /\ caller' = [caller EXCEPT ![r] = IF r \in Blocking THEN "blocked" ELSE @]
        /\ IF i.send_dev_context = Nobody THEN refs' = refs
           ELSE refs' = [refs EXCEPT ![i.send_dev_context] = @ + 1]
    BY <1>1, <1>2 DEF RecvFinds, Captured, Ref
  <2>2. Consumed(i) \in Items BY <1>2 DEF Consumed, Items
  <2>3. i.send_dev_context \in Sender \cup {Nobody} BY <1>2 DEF Items
  <2> QED BY SMT, <1>4, <1>5, <2>1, <2>2, <2>3 DEF IInv, TypeOK
<1>7. /\ recv'[r] = "calling" /\ rstatus'[r] = "ok" /\ rvalue'[r] = m
      /\ \A q \in Receiver \ {r} :
            recv'[q] = recv[q] /\ rstatus'[q] = rstatus[q] /\ rvalue'[q] = rvalue[q]
      /\ table_'[k0].there = "yes" /\ table_'[k0].waiter = Nobody
      /\ table_'[k0].value = Empty /\ table_'[k0].has_been_recvd = "yes"
      /\ \A k \in Key \ {k0} : table_'[k] = table_[k]
      /\ rkey[r] = k0 /\ table_[k0] = i
  <2>1. /\ Consumed(i).there = "yes" /\ Consumed(i).waiter = Nobody
        /\ Consumed(i).value = Empty /\ Consumed(i).has_been_recvd = "yes"
    BY <1>3 DEF Consumed
  <2> QED BY SMT, <1>1, <1>2, <1>4, <1>5, <2>1 DEF IInv, TypeOK
<1>8. \A t \in Sender : Posted(t)' <=> Posted(t) BY <1>4 DEF Posted
<1>9. Phase' BY <1>3, <1>4 DEF IInv, Phase
<1>10. ItemsOK'
  <2>1. ItemOK(table_[k0], k0)'
    BY ONLY Zenon, <1>4, <1>5, <1>7, <1>8, r \in Receiver DEF ItemOK
  <2> QED BY SMT, <1>3, <1>4, <1>7, <1>8, <2>1, ItemsMove
<1>11. ASSUME NEW t \in Sender PROVE PostedOK(t)'
  <2>1. PostedOK(t) /\ rvalue[r] # t BY SMT, <1>3 DEF IInv, SendersOK, ReceiversOK, AnswerOK
  <2>2. skey[t] \in Key BY DEF IInv, TypeOK
  <2> QED BY SMT, <1>3, <1>4, <1>5, <1>7, <1>8, <2>1, <2>2 DEF PostedOK
<1>12. ASSUME NEW t \in Sender PROVE CallingOK(t)'
  <2>1. CallingOK(t) /\ skey[t] \in Key BY DEF IInv, SendersOK, TypeOK
  <2> QED BY SMT, <1>3, <1>4, <1>7, <2>1 DEF CallingOK
<1>13. ASSUME NEW q \in Receiver PROVE AnswerOK(q)'
  <2>1. AnswerOK(q) /\ rkey[q] \in Key BY DEF IInv, ReceiversOK, TypeOK
  <2> QED BY SMT, <1>4, <1>5, <1>7, <1>8, <2>1 DEF AnswerOK
<1>14. ASSUME NEW q \in Receiver PROVE WaitingOK(q)'
  <2>1. WaitingOK(q) /\ rkey[q] \in Key BY DEF IInv, ReceiversOK, TypeOK
  <2> QED BY SMT, <1>3, <1>4, <1>7, <2>1 DEF WaitingOK
<1>15. OneToOne'
  <2>1. \A q \in Receiver : rstatus[q] = "ok" => rkey[q] # k0
    BY <1>3, <1>7 DEF IInv, ReceiversOK, AnswerOK
  <2> QED BY SMT, <1>4, <1>7, <1>8, <2>1 DEF IInv, OneToOne
<1> QED BY <1>6, <1>9, <1>10, <1>11, <1>12, <1>13, <1>14, <1>15
        DEF IInv, SendersOK, ReceiversOK

LEMMA RecvWaitsInv ==
    ASSUME IInv, NEW r \in Receiver, RecvWaits(r)
    PROVE  IInv'
<1>1. PICK k0 \in Key : k0 = rkey[r] BY DEF IInv, TypeOK
<1>2. status_ = "ok" /\ recv[r] = "idle" /\ table_[k0] = NoItem /\ items[k0] = NoItem
    BY SMT, <1>1 DEF RecvWaits, IInv, ItemsOK, ItemOK, Phase
<1>3. /\ recv' = [recv EXCEPT ![r] = "waiting"]
      /\ table_' = [table_ EXCEPT ![k0] = StoredWaiter(r)]
      /\ status_' = status_ /\ items' = items /\ send' = send
      /\ skey' = skey /\ peer' = peer /\ rkey' = rkey
      /\ rstatus' = rstatus /\ rvalue' = rvalue /\ rctx' = rctx
    BY <1>1 DEF RecvWaits
<1>4. TypeOK'
  <2>1. /\ caller' = [caller EXCEPT ![r] = IF r \in Blocking THEN "blocked" ELSE @]
        /\ refs' = [refs EXCEPT ![r] = @ + 1]
    BY DEF RecvWaits, Ref
  <2>2. StoredWaiter(r) \in Items BY DEF StoredWaiter, Items
  <2> QED BY SMT, <1>3, <2>1, <2>2 DEF IInv, TypeOK
<1>5. /\ recv'[r] = "waiting" /\ rkey[r] = k0
      /\ \A q \in Receiver \ {r} : recv'[q] = recv[q]
      /\ table_'[k0].there = "yes" /\ table_'[k0].waiter = r
      /\ table_'[k0].value = Empty /\ table_'[k0].has_been_recvd = "no"
      /\ \A k \in Key \ {k0} : table_'[k] = table_[k]
  <2>1. /\ StoredWaiter(r).there = "yes" /\ StoredWaiter(r).waiter = r
        /\ StoredWaiter(r).value = Empty /\ StoredWaiter(r).has_been_recvd = "no"
    BY DEF StoredWaiter
  <2> QED BY <1>1, <1>3, <2>1 DEF IInv, TypeOK
<1>6. /\ table_[k0].there = "no" /\ table_[k0].waiter = Nobody
      /\ table_[k0].value = Empty /\ table_[k0].has_been_recvd = "no"
    BY SMT, <1>2 DEF NoItem
<1>7. \A t \in Sender : Posted(t)' <=> Posted(t) BY <1>3 DEF Posted
<1>8. Phase' BY <1>2, <1>3 DEF IInv, Phase
<1>9. ItemsOK'
  <2>1. ItemOK(table_[k0], k0)' BY <1>3, <1>5 DEF ItemOK
  <2> QED BY <1>2, <1>3, <1>5, <1>7, <2>1, ItemsMove
<1>10. ASSUME NEW t \in Sender PROVE PostedOK(t)'
  <2>1. PostedOK(t) /\ skey[t] \in Key BY DEF IInv, SendersOK, TypeOK
  <2> QED BY SMT, <1>2, <1>3, <1>5, <1>6, <1>7, <2>1 DEF PostedOK
<1>11. ASSUME NEW t \in Sender PROVE CallingOK(t)'
  <2>1. CallingOK(t) /\ skey[t] \in Key BY DEF IInv, SendersOK, TypeOK
  <2> QED BY SMT, <1>2, <1>3, <1>5, <1>6, <2>1 DEF CallingOK
<1>12. ASSUME NEW q \in Receiver PROVE AnswerOK(q)'
  <2>1. AnswerOK(q) /\ rkey[q] \in Key BY DEF IInv, ReceiversOK, TypeOK
  <2> QED BY SMT, <1>2, <1>3, <1>5, <1>6, <1>7, <2>1 DEF AnswerOK
<1>13. ASSUME NEW q \in Receiver PROVE WaitingOK(q)'
  <2>1. WaitingOK(q) /\ rkey[q] \in Key BY DEF IInv, ReceiversOK, TypeOK
  <2> QED BY SMT, <1>3, <1>5, <1>6, <2>1 DEF WaitingOK
<1>14. OneToOne' BY <1>3, <1>7 DEF IInv, OneToOne
<1> QED BY <1>4, <1>8, <1>9, <1>10, <1>11, <1>12, <1>13, <1>14
        DEF IInv, SendersOK, ReceiversOK

LEMMA SendRefusedInv ==
    ASSUME IInv, NEW s \in Sender, SendAborted(s) \/ SendDuplicate(s)
    PROVE  IInv'
<1>1. /\ status_' = status_ /\ table_' = table_ /\ items' = items
      /\ skey' = skey /\ peer' = peer /\ refs' = refs /\ recv' = recv
      /\ rkey' = rkey /\ rstatus' = rstatus /\ rvalue' = rvalue
      /\ rctx' = rctx /\ caller' = caller
    BY DEF SendAborted, SendDuplicate, rvars
<1>2. PICK st \in {"aborted", "duplicate"} :
         send[s] = "idle" /\ send' = [send EXCEPT ![s] = st]
    BY DEF SendAborted, SendDuplicate
<1>3. TypeOK' BY <1>1, <1>2 DEF IInv, TypeOK
<1>4. Phase' BY <1>1 DEF IInv, Phase
<1>5. \A t \in Sender :
         /\ Posted(t)' <=> Posted(t)
         /\ send'[t] = "calling" <=> send[t] = "calling"
    BY <1>2 DEF IInv, TypeOK, Posted
<1>6. ItemsOK' BY <1>1, <1>5, ItemsKept
<1>7. SendersOK'
    BY ONLY SMT, <1>1, <1>5, IInv DEF IInv, SendersOK, PostedOK, CallingOK
<1>8. ASSUME NEW q \in Receiver PROVE AnswerOK(q)'
    BY ONLY SMT, <1>1, <1>5, IInv DEF IInv, ReceiversOK, AnswerOK
<1>9. ASSUME NEW q \in Receiver PROVE WaitingOK(q)'
    BY ONLY Zenon, <1>1, <1>5, IInv DEF IInv, ReceiversOK, WaitingOK
<1>10. OneToOne' BY ONLY Zenon, <1>1, <1>5, IInv DEF IInv, OneToOne
<1> QED BY <1>3, <1>4, <1>6, <1>7, <1>8, <1>9, <1>10 DEF IInv, ReceiversOK

LEMMA SendStoresInv ==
    ASSUME IInv, NEW s \in Sender, SendStores(s)
    PROVE  IInv'
<1>1. PICK k0 \in Key : k0 = skey[s] BY DEF IInv, TypeOK
<1>2. /\ status_ = "ok" /\ send[s] = "idle"
      /\ table_[k0].there = "no" /\ items[k0] = NoItem
    BY <1>1 DEF SendStores, IInv, Phase
<1>3. /\ table_[k0].waiter = Nobody /\ table_[k0].value = Empty
      /\ table_[k0].has_been_recvd = "no"
    BY SMT, <1>2 DEF IInv, ItemsOK, ItemOK, NoItem
<1>4. /\ send' = [send EXCEPT ![s] = "ok"]
      /\ table_' = [table_ EXCEPT ![k0] = StoredMessage(s)]
      /\ status_' = status_ /\ items' = items /\ skey' = skey /\ peer' = peer
      /\ recv' = recv /\ rkey' = rkey /\ rstatus' = rstatus /\ rvalue' = rvalue
      /\ rctx' = rctx /\ caller' = caller
    BY <1>1 DEF SendStores, rvars
<1>5. TypeOK'
  <2>1. refs' = [refs EXCEPT ![s] = @ + 1] BY DEF SendStores, Ref
  <2>2. StoredMessage(s) \in Items BY DEF StoredMessage, Items
  <2> QED BY SMT, <1>4, <2>1, <2>2 DEF IInv, TypeOK
<1>6. /\ send'[s] = "ok" /\ skey[s] = k0
      /\ \A t \in Sender \ {s} : send'[t] = send[t]
      /\ table_'[k0].there = "yes" /\ table_'[k0].waiter = Nobody
      /\ table_'[k0].value = s /\ table_'[k0].has_been_recvd = "no"
      /\ \A k \in Key \ {k0} : table_'[k] = table_[k]
  <2>1. /\ StoredMessage(s).there = "yes" /\ StoredMessage(s).waiter = Nobody
        /\ StoredMessage(s).value = s /\ StoredMessage(s).has_been_recvd = "no"
    BY DEF StoredMessage
  <2> QED BY <1>1, <1>4, <2>1 DEF IInv, TypeOK
<1>7. ~Posted(s) /\ \A t \in Sender : Posted(t)' <=> Posted(t) \/ t = s
    BY <1>2, <1>6 DEF Posted
<1>8. Phase' BY <1>2, <1>4 DEF IInv, Phase
<1>9. ItemsOK'
  <2>1. ItemOK(table_[k0], k0)' BY <1>4, <1>6, <1>7 DEF ItemOK
  <2> QED BY <1>4, <1>6, <1>7, <2>1, ItemsMove
<1>10. \A t \in Sender : Posted(t) => skey[t] # k0
    BY <1>2 DEF IInv, SendersOK, PostedOK
<1>11. ASSUME NEW t \in Sender PROVE PostedOK(t)'
  <2>1. PostedOK(t) /\ skey[t] \in Key BY DEF IInv, SendersOK, TypeOK
  <2>2. items[k0].waiter = Nobody BY SMT, <1>2 DEF NoItem
  <2> QED BY SMT, <1>4, <1>6, <1>7, <1>10, <2>1, <2>2 DEF PostedOK
<1>12. ASSUME NEW t \in Sender PROVE CallingOK(t)'
  <2>1. CallingOK(t) /\ skey[t] \in Key BY DEF IInv, SendersOK, TypeOK
  <2>2. send'[t] = "calling" => send[t] = "calling" /\ skey[t] # k0
    BY <1>6, <1>10 DEF Posted
  <2> QED BY SMT, <1>4, <1>6, <2>1, <2>2 DEF CallingOK
<1>13. ASSUME NEW q \in Receiver PROVE AnswerOK(q)'
  <2>1. AnswerOK(q) /\ rkey[q] \in Key BY DEF IInv, ReceiversOK, TypeOK
  <2> QED BY SMT, <1>2, <1>3, <1>4, <1>6, <1>7, <2>1 DEF AnswerOK
<1>14. ASSUME NEW q \in Receiver PROVE WaitingOK(q)'
  <2>1. WaitingOK(q) /\ rkey[q] \in Key BY DEF IInv, ReceiversOK, TypeOK
  <2> QED BY SMT, <1>2, <1>3, <1>4, <1>6, <2>1 DEF WaitingOK
<1>15. OneToOne' BY <1>4, <1>6, <1>7, <1>10 DEF IInv, OneToOne
<1> QED BY <1>5, <1>8, <1>9, <1>11, <1>12, <1>13, <1>14, <1>15
        DEF IInv, SendersOK, ReceiversOK

LEMMA SendTakesWaiterInv ==
    ASSUME ~tolerate_dup_recv, IInv, NEW s \in Sender, SendTakesWaiter(s)
    PROVE  IInv'
<1>1. PICK k0 \in Key : k0 = skey[s] BY DEF IInv, TypeOK
<1>2. PICK i \in Items : i = table_[k0] BY DEF IInv, TypeOK
<1>3. /\ status_ = "ok" /\ send[s] = "idle"
      /\ i.there = "yes" /\ i.waiter # Nobody
    BY <1>1, <1>2 DEF SendTakesWaiter
<1>4. PICK r0 \in Receiver : r0 = i.waiter BY <1>2, <1>3 DEF Items
<1>5. /\ recv[r0] = "waiting" /\ rkey[r0] = k0
      /\ i.value = Empty /\ i.has_been_recvd = "no"
  <2>1. ItemOK(i, k0) BY <1>2 DEF IInv, ItemsOK
  <2> QED BY <1>3, <1>4, <2>1 DEF ItemOK
<1>6. /\ send' = [send EXCEPT ![s] = "calling"]
      /\ peer' = [peer EXCEPT ![s] = r0]
      /\ table_' = [table_ EXCEPT ![k0] = TakenBy(i, s)]
      /\ refs' = refs
      /\ status_' = status_ /\ items' = items /\ skey' = skey
      /\ recv' = recv /\ rkey' = rkey /\ rstatus' = rstatus /\ rvalue' = rvalue
      /\ rctx' = rctx /\ caller' = caller
    BY <1>1, <1>2, <1>4 DEF SendTakesWaiter, rvars
<1>7. TypeOK'
  <2>1. TakenBy(i, s) \in Items BY <1>2 DEF TakenBy, Items
  <2> QED BY <1>6, <2>1 DEF IInv, TypeOK
<1>8. /\ send'[s] = "calling" /\ peer'[s] = r0
      /\ \A t \in Sender \ {s} : send'[t] = send[t] /\ peer'[t] = peer[t]
      /\ table_'[k0].there = "yes" /\ table_'[k0].waiter = Nobody
      /\ table_'[k0].value = Empty /\ table_'[k0].has_been_recvd = "yes"
      /\ \A k \in Key \ {k0} : table_'[k] = table_[k]
      /\ skey[s] = k0 /\ table_[k0] = i
  <2>1. /\ TakenBy(i, s).there = "yes" /\ TakenBy(i, s).waiter = Nobody
        /\ TakenBy(i, s).value = Empty /\ TakenBy(i, s).has_been_recvd = "yes"
    BY <1>5 DEF TakenBy
  <2> QED BY SMT, <1>1, <1>2, <1>6, <2>1 DEF IInv, TypeOK
<1>9. ~Posted(s) /\ \A t \in Sender : Posted(t)' <=> Posted(t) \/ t = s
    BY <1>3, <1>8 DEF Posted
<1>10. Phase' BY <1>3, <1>6 DEF IInv, Phase
<1>11. ItemsOK'
  <2>1. ItemOK(table_[k0], k0)'
    BY ONLY Zenon, <1>5, <1>6, <1>8, <1>9, r0 \in Receiver, s \in Sender DEF ItemOK
  <2> QED BY <1>6, <1>8, <1>9, <2>1, ItemsMove
<1>12. \A t \in Sender : Posted(t) => skey[t] # k0
    BY SMT, <1>3, <1>8 DEF IInv, SendersOK, PostedOK
<1>13. ASSUME NEW t \in Sender PROVE PostedOK(t)'
  <2>1. PostedOK(t) /\ skey[t] \in Key BY DEF IInv, SendersOK, TypeOK
  <2>2. items[k0].waiter = Nobody BY SMT, <1>3 DEF IInv, Phase, NoItem
  <2> QED BY SMT, <1>6, <1>8, <1>9, <1>12, <2>1, <2>2 DEF PostedOK
<1>14. ASSUME NEW t \in Sender PROVE CallingOK(t)'
  <2>1. CallingOK(t) /\ skey[t] \in Key BY DEF IInv, SendersOK, TypeOK
  <2>2. \A q \in Receiver : rstatus[q] = "ok" => rkey[q] # k0
    BY <1>3, <1>5, <1>8 DEF IInv, ReceiversOK, AnswerOK
  <2> QED BY SMT, <1>5, <1>6, <1>8, <2>1, <2>2 DEF CallingOK
<1>15. ASSUME NEW q \in Receiver PROVE AnswerOK(q)'
  <2>1. AnswerOK(q) /\ rkey[q] \in Key BY DEF IInv, ReceiversOK, TypeOK
  <2> QED BY SMT, <1>6, <1>8, <1>9, <2>1 DEF AnswerOK
<1>16. ASSUME NEW q \in Receiver PROVE WaitingOK(q)'
  <2>1. WaitingOK(q) /\ rkey[q] \in Key BY DEF IInv, ReceiversOK, TypeOK
  <2> QED BY SMT, <1>3, <1>4, <1>6, <1>8, <2>1 DEF WaitingOK
<1>17. OneToOne' BY SMT, <1>6, <1>9, <1>8, <1>12 DEF IInv, OneToOne
<1> QED BY <1>7, <1>10, <1>11, <1>13, <1>14, <1>15, <1>16, <1>17
        DEF IInv, SendersOK, ReceiversOK

LEMMA SendCallsWaiterInv ==
    ASSUME IInv, NEW s \in Sender, SendCallsWaiter(s)
    PROVE  IInv'
<1>1. PICK k0 \in Key : k0 = skey[s] BY DEF IInv, TypeOK
<1>2. PICK r0 \in Receiver : r0 = peer[s]
    BY DEF SendCallsWaiter, IInv, SendersOK, CallingOK
<1>3. /\ send[s] = "calling" /\ recv[r0] = "waiting" /\ rkey[r0] = k0
      /\ status_ = "ok" => table_[k0].has_been_recvd = "yes"
      /\ \A r \in Receiver : rkey[r] = k0 => rstatus[r] # "ok"
    BY <1>1, <1>2 DEF SendCallsWaiter, IInv, SendersOK, CallingOK
<1>4. /\ recv' = [recv EXCEPT ![r0] = "done"]
      /\ rstatus' = [rstatus EXCEPT ![r0] = "ok"]
      /\ rvalue' = [rvalue EXCEPT ![r0] = s]
      /\ send' = [send EXCEPT ![s] = "ok"]
      /\ status_' = status_ /\ table_' = table_ /\ items' = items
      /\ skey' = skey /\ peer' = peer /\ rkey' = rkey
      /\ rctx' = rctx /\ caller' = caller
    BY <1>2 DEF SendCallsWaiter, Done
<1>5. TypeOK'
  <2>1. refs' = [refs EXCEPT ![r0] = @ - 1] BY <1>2 DEF SendCallsWaiter, Unref
  <2> QED BY SMT, <1>4, <2>1 DEF IInv, TypeOK
<1>6. /\ recv'[r0] = "done" /\ rstatus'[r0] = "ok" /\ rvalue'[r0] = s
      /\ \A q \in Receiver \ {r0} :
            recv'[q] = recv[q] /\ rstatus'[q] = rstatus[q] /\ rvalue'[q] = rvalue[q]
      /\ send'[s] = "ok" /\ \A t \in Sender \ {s} : send'[t] = send[t]
      /\ skey[s] = k0 /\ peer[s] = r0
    BY <1>1, <1>2, <1>4 DEF IInv, TypeOK
<1>7. Posted(s) /\ \A t \in Sender : Posted(t)' <=> Posted(t)
    BY <1>3, <1>6 DEF Posted
<1>8. Phase' BY <1>4 DEF IInv, Phase
<1>9. ASSUME NEW k \in Key PROVE table_[k].waiter # r0 /\ items[k].waiter # r0
  <2>1. table_[k].waiter = r0 \/ items[k].waiter = r0 => rkey[r0] = k
    <3>1. ItemOK(table_[k], k) /\ ItemOK(items[k], k) BY DEF IInv, ItemsOK
    <3> QED BY <3>1 DEF ItemOK
  <2>2. table_[k0].waiter = Nobody /\ items[k0].waiter = Nobody
    BY <1>6, <1>7 DEF IInv, SendersOK, PostedOK
  <2> QED BY <1>3, <2>1, <2>2
<1>10. ItemsOK' BY SMT, <1>4, <1>6, <1>7, <1>9, ItemsKept
<1>11. \A t \in Sender \ {s} :
          /\ Posted(t) => skey[t] # k0
          /\ send[t] = "calling" => peer[t] # r0 /\ skey[t] # k0
  <2>1. \A t \in Sender \ {s} : Posted(t) => skey[t] # k0
    BY <1>6, <1>7 DEF IInv, OneToOne
  <2>2. \A t \in Sender : send[t] = "calling" => rkey[peer[t]] = skey[t]
    BY DEF IInv, SendersOK, CallingOK
  <2> QED BY <1>3, <2>1, <2>2 DEF Posted
<1>12. ASSUME NEW t \in Sender PROVE PostedOK(t)'
  <2>1. PostedOK(t) /\ rvalue[r0] # t
    BY <1>3 DEF IInv, SendersOK, ReceiversOK, AnswerOK
  <2> QED BY SMT, <1>4, <1>6, <1>7, <2>1 DEF PostedOK
<1>13. ASSUME NEW t \in Sender PROVE CallingOK(t)'
  <2>1. CallingOK(t) BY DEF IInv, SendersOK
  <2> QED BY SMT, <1>3, <1>4, <1>6, <1>11, <2>1 DEF CallingOK
<1>14. ASSUME NEW q \in Receiver PROVE AnswerOK(q)'
  <2>1. AnswerOK(q) BY DEF IInv, ReceiversOK
  <2> QED BY SMT, <1>3, <1>4, <1>6, <1>7, <2>1 DEF AnswerOK
<1>15. ASSUME NEW q \in Receiver PROVE WaitingOK(q)'
  <2>1. WaitingOK(q) BY DEF IInv, ReceiversOK
  <2> QED BY SMT, <1>4, <1>6, <2>1 DEF WaitingOK
<1>16. OneToOne' BY SMT, <1>3, <1>4, <1>6, <1>7 DEF IInv, OneToOne
<1> QED BY <1>5, <1>8, <1>10, <1>12, <1>13, <1>14, <1>15, <1>16
        DEF IInv, SendersOK, ReceiversOK

=============================================================================
