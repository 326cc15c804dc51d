-------------------------- MODULE FIFOQueueProofs ---------------------------
(***************************************************************************)
(* TLAPS proofs about FIFOQueue, for every workload: the done callback of  *)
(* a kernel is called exactly once, and no wakeup is lost.                 *)
(***************************************************************************)
EXTENDS FIFOQueue, TLAPS

(* Zenon does these steps; one that is meant for SMT says so.              *)
USE Zenon

-----------------------------------------------------------------------------
(* The inductive invariant.                                                *)

(* The ops whose attempts go into each of the deques.                      *)
Enqueues == {op \in Op : IsEnqueue(op) \/ kind[op] = "Close"}
Dequeues == {op \in Op : IsDequeue(op)}
Attempted == Enqueues \cup Dequeues

Shape ==
    /\ workload \in DOMAIN Workloads
    /\ enqueue_attempts_ \in Seq(Enqueues) /\ dequeue_attempts_ \in Seq(Dequeues)
    /\ DOMAIN elements_requested = Op /\ DOMAIN is_cancelled = Op
    /\ DOMAIN pc = Thread /\ calls \in [Op -> Nat]
    /\ clean_up \in [Thread -> Seq(Attempted)]
    /\ cur \in [Step -> Attempted \cup {Nobody}]

(* An attempt whose run_callback would return kNoProgress.                 *)
Stuck(op) ==
    /\ kind[op] # "Close"
    /\ IF IsEnqueue(op)
       THEN closed_ # "yes" /\ Least(Room, elements_requested[op]) = 0
       ELSE /\ ~CannotBeFilled(op)
            /\ Least(Len(queues_), elements_requested[op]) = 0

Waits(attempts) ==
    attempts # <<>> =>
       is_cancelled[Head(attempts)] = "no" /\ Stuck(Head(attempts))

(* mu_ is held by the thread inside the loops of FlushUnlocked.  When that *)
(* thread is in the second loop without progress, it has left the first    *)
(* one at an attempt that still cannot go on.                              *)
FlushInv ==
    /\ \A t \in Thread : pc[t] = "locked" <=> mu_ = t
    /\ Quiet => Waits(enqueue_attempts_) /\ Waits(dequeue_attempts_)
    /\ mu_ # Nobody /\ attempting = "kDequeue" /\ changed = "no" =>
          Waits(enqueue_attempts_)

(* No op is twice in a deque or in a clean_up list, ...                    *)
Distinct(s) == \A i, j \in DOMAIN s : s[i] = s[j] => i = j

NoList == {"idle", "cancelling", "callback"}

ListInv ==
    /\ Distinct(enqueue_attempts_) /\ Distinct(dequeue_attempts_)
    /\ \A t \in Thread : Distinct(clean_up[t])
    /\ \A t \in Thread : pc[t] \in NoList => clean_up[t] = <<>>
    /\ \A s \in Step : pc[s] = "callback" <=> cur[s] # Nobody
    /\ \A op \in Op : pc[op] = "idle" => is_cancelled[op] = "no"

(* ... and exactly one place will call done for an op that waits for it.   *)
DoneOf(op) ==
    /\ calls[op] <= 1 /\ (pc[op] = "idle" => calls[op] = 0)
    /\ AnsweredBy(op) # {} <=> pc[op] # "idle" /\ calls[op] = 0
    /\ \A x, y \in AnsweredBy(op) : x = y

DoneInv == \A op \in Op : kind[op] # "Size" => DoneOf(op)

IInv == Shape /\ FlushInv /\ ListInv /\ DoneInv

-----------------------------------------------------------------------------
(* Facts about sequences and about the workload that is run.               *)

(* What is left of a sequence without its head.                            *)
LEMMA SetOfTail ==
    ASSUME NEW S, NEW s \in Seq(S), s # <<>>
    PROVE  /\ Head(s) \in S /\ Head(s) = s[1] /\ 1 \in DOMAIN s /\ Tail(s) \in Seq(S)
           /\ Head(s) \in Range(s)
           /\ \A x : x \in Range(s) <=> x = Head(s) \/ x \in Range(Tail(s))
           /\ Distinct(s) => Distinct(Tail(s)) /\ Head(s) \notin Range(Tail(s))
<1>1. /\ Tail(s) \in Seq(S) /\ Len(Tail(s)) = Len(s) - 1
      /\ \A i \in 1..Len(Tail(s)) : Tail(s)[i] = s[i+1]
  BY SMT
<1>2. /\ DOMAIN s = 1..Len(s) /\ Len(s) \in Nat \ {0}
      /\ DOMAIN Tail(s) = 1..Len(s) - 1
      /\ Head(s) = s[1] /\ Head(s) \in S
  BY SMT, <1>1
<1>3. ASSUME NEW x
      PROVE  x \in Range(s) <=> x = Head(s) \/ x \in Range(Tail(s))
  <2>1. ASSUME NEW i \in 1..Len(s), x = s[i], x # s[1]
        PROVE  x \in Range(Tail(s))
    <3>1. i - 1 \in 1..Len(s) - 1 /\ Tail(s)[i - 1] = x
      BY SMT, <1>1, <1>2, <2>1
    <3> QED  BY <3>1, <1>2 DEF Range
  <2>2. ASSUME NEW i \in 1..Len(s) - 1, x = Tail(s)[i]
        PROVE  x \in Range(s)
    <3>1. i + 1 \in 1..Len(s) /\ s[i + 1] = x
      BY SMT, <1>1, <1>2, <2>2
    <3> QED  BY <3>1, <1>2 DEF Range
  <2> QED  BY SMT, <2>1, <2>2, <1>2 DEF Range
<1>4. ASSUME Distinct(s)
      PROVE  Distinct(Tail(s)) /\ Head(s) \notin Range(Tail(s))
  <2>1. \A i \in 1..Len(s) - 1 : Tail(s)[i] = s[i+1] /\ i + 1 \in 1..Len(s) /\ i + 1 # 1
    BY SMT, <1>1, <1>2
  <2> QED  BY SMT, <2>1, <1>2, <1>4 DEF Range, Distinct
<1> QED  BY SMT, <1>1, <1>2, <1>3, <1>4 DEF Range

(* What a sequence becomes when an element is put at its end.              *)
LEMMA SetOfAppend ==
    ASSUME NEW S, NEW s \in Seq(S), NEW e \in S
    PROVE  /\ Append(s, e) \in Seq(S) /\ Append(s, e) # <<>>
           /\ \A x : x \in Range(Append(s, e)) <=> x \in Range(s) \/ x = e
           /\ Distinct(s) /\ e \notin Range(s) => Distinct(Append(s, e))
<1>1. /\ Append(s, e) \in Seq(S) /\ Append(s, e) # <<>>
      /\ Len(Append(s, e)) = Len(s) + 1
      /\ \A i \in 1..Len(s) : Append(s, e)[i] = s[i]
      /\ Append(s, e)[Len(s)+1] = e
  BY SMT
<1>2. /\ DOMAIN s = 1..Len(s) /\ Len(s) \in Nat
      /\ DOMAIN Append(s, e) = 1..Len(s) + 1
  BY SMT, <1>1
<1>3. \A i \in 1..Len(s) + 1 : i \in 1..Len(s) \/ i = Len(s) + 1
  BY SMT, <1>2
<1>4. \A i \in 1..Len(s) : i \in 1..Len(s) + 1
  BY SMT, <1>2
<1>5. Len(s) + 1 \in 1..Len(s) + 1
  BY SMT, <1>2
<1> QED  BY <1>1, <1>2, <1>3, <1>4, <1>5 DEF Range, Distinct

(* The elements of a sequence.                                             *)
LEMMA SetOfSeq ==
    ASSUME NEW S, NEW s \in Seq(S)
    PROVE  Range(s) \subseteq S
BY SMT DEF Range

(* No step changes the workload.                                           *)
LEMMA Fixed ==
    ASSUME workload' = workload
    PROVE  /\ kind' = kind /\ Op' = Op /\ Step' = Step /\ Thread' = Thread
           /\ Enqueues' = Enqueues /\ Dequeues' = Dequeues /\ Attempted' = Attempted
           /\ capacity_' = capacity_
<1>1. kind' = kind /\ Op' = Op /\ Step' = Step /\ Thread' = Thread /\ capacity_' = capacity_
  BY DEF kind, Op, address, Step, Thread, capacity_
<1> QED  BY <1>1 DEF Enqueues, Dequeues, Attempted, IsEnqueue, IsDequeue

(* What QueueAssumption says of the workload that is run.                  *)
LEMMA Setting ==
    ASSUME Shape
    PROVE  /\ Op \subseteq Thread /\ Step \subseteq Thread /\ Thread \subseteq Op \cup Step
           /\ \A op \in Op : op \notin Step
           /\ Nobody \notin Thread
           /\ Attempted \subseteq Op
           /\ \A op \in Enqueues : op \notin Dequeues
           /\ \A op \in Attempted : kind[op] # "Size" /\ kind[op] # "CloseAndCancel"
<1>1. /\ Op \subseteq Thread /\ Step \subseteq Thread /\ Thread \subseteq Op \cup Step
      /\ \A op \in Op : op \notin Step
      /\ Nobody \notin Thread
  BY QueueAssumption DEF Shape, kind, Op, address, Step, Thread
<1> QED  BY <1>1 DEF Attempted, Enqueues, Dequeues, IsEnqueue, IsDequeue

(* The ops that the deques and the clean_up lists hold.                    *)
LEMMA Held ==
    ASSUME Shape
    PROVE  /\ Range(enqueue_attempts_) \subseteq Enqueues
           /\ Range(dequeue_attempts_) \subseteq Dequeues
           /\ \A t \in Thread : Range(clean_up[t]) \subseteq Attempted
<1>1. /\ enqueue_attempts_ \in Seq(Enqueues) /\ dequeue_attempts_ \in Seq(Dequeues)
      /\ \A t \in Thread : clean_up[t] \in Seq(Attempted)
  BY DEF Shape
<1> QED  BY <1>1, SetOfSeq

-----------------------------------------------------------------------------
(* Before any op has started.                                              *)
LEMMA InitInv == Init => IInv
<1> SUFFICES ASSUME Init PROVE IInv
  OBVIOUS
<1>1. Shape
  BY SMT, QueueAssumption DEF Init, Shape, Op, elements, kind
<1>2. FlushInv
  BY <1>1, Setting DEF Init, FlushInv, Waits
<1>3. ListInv
  BY SMT, <1>1, Setting DEF Init, ListInv, NoList, Distinct
<1>4. DoneInv
  BY SMT, <1>1, Setting DEF Init, DoneInv, DoneOf, AnsweredBy, InDeques, Range
<1> QED  BY <1>1, <1>2, <1>3, <1>4 DEF IInv

-----------------------------------------------------------------------------
(* What a step may do to the answer that is owed to op: nothing, give it   *)
(* at once, make some place responsible for it, or give it from there.     *)
Keeps(op) ==
    /\ calls'[op] = calls[op] /\ (pc'[op] = "idle" <=> pc[op] = "idle")
    /\ AnsweredBy(op)' = AnsweredBy(op)
AtOnce(op) ==
    /\ calls'[op] = calls[op] + 1 /\ pc[op] = "idle" /\ pc'[op] # "idle"
    /\ AnsweredBy(op)' = AnsweredBy(op)
PassesOn(op) ==
    /\ calls'[op] = calls[op] /\ pc'[op] # "idle"
    /\ pc[op] = "idle" \/ AnsweredBy(op) # {}
    /\ \E x : AnsweredBy(op)' = {x}
Answers(op) ==
    /\ calls'[op] = calls[op] + 1 /\ pc'[op] # "idle"
    /\ AnsweredBy(op) # {} /\ AnsweredBy(op)' = {}

(* Each of them leaves one place at most.                                  *)
LEMMA DoneKept ==
    ASSUME IInv, workload' = workload,
           \A op \in Op : kind[op] # "Size" =>
              Keeps(op) \/ AtOnce(op) \/ PassesOn(op) \/ Answers(op)
    PROVE  DoneInv'
<1>1. kind' = kind /\ Op' = Op
  BY Fixed
<1>2. ASSUME NEW op \in Op, kind[op] # "Size"
      PROVE  DoneOf(op)'
  <2>1. DoneOf(op) /\ calls[op] \in Nat
    BY <1>2 DEF IInv, DoneInv, Shape
  <2> QED  BY SMT, <1>2, <2>1 DEF DoneOf, Keeps, AtOnce, PassesOn, Answers
<1> QED  BY <1>1, <1>2 DEF DoneInv

(* Where the answer of op comes from if the attempts stay where they are.  *)
LEMMA SameAnswers ==
    ASSUME workload' = workload, NEW op,
           UNCHANGED <<clean_up, cur, enqueue_attempts_, dequeue_attempts_, is_cancelled>>,
           kind[op] = "CloseAndCancel" =>
              (pc'[op] \in {"idle", "returned"} <=> pc[op] \in {"idle", "returned"})
    PROVE  AnsweredBy(op)' = AnsweredBy(op)
<1>1. kind' = kind /\ Op' = Op /\ Step' = Step /\ Thread' = Thread
  BY Fixed
<1> QED  BY <1>1 DEF AnsweredBy, InDeques

-----------------------------------------------------------------------------
(* Most steps leave the queue and its attempts alone, ...                  *)
Still ==
    UNCHANGED <<workload, queues_, closed_, enqueue_attempts_, dequeue_attempts_,
                elements_requested, is_cancelled>>

(* ... and neither begin nor end a FlushUnlocked, nor owe one no more.     *)
Elsewhere(t) ==
    /\ Still /\ UNCHANGED <<mu_, attempting, changed>>
    /\ \/ pc' = pc
       \/ \E at \in {"flush", "cancelling", "returned"} :
             /\ pc' = [pc EXCEPT ![t] = at] /\ pc[t] \notin {"flush", "locked", "returned"}
             /\ pc[t] \in {"calling", "callback"} => at = "flush"

(* What cannot go on still cannot.                                         *)
LEMMA StillWaits ==
    ASSUME Still
    PROVE  /\ Waits(enqueue_attempts_)' <=> Waits(enqueue_attempts_)
           /\ Waits(dequeue_attempts_)' <=> Waits(dequeue_attempts_)
<1>1. kind' = kind /\ capacity_' = capacity_
  BY Fixed DEF Still
<1>2. \A op : Stuck(op)' <=> Stuck(op)
  BY <1>1 DEF Still, Stuck, Room, CannotBeFilled, IsEnqueue
<1> QED  BY <1>2 DEF Still, Waits

(* No thread is put into a flush or out of one.                            *)
LEMMA ElsewhereKeeps ==
    ASSUME IInv, NEW t \in Thread, Elsewhere(t)
    PROVE  /\ FlushInv'
           /\ DOMAIN pc' = Thread /\ \A r \in Thread : pc'[r] = "idle" => pc[r] = "idle"
           /\ workload' = workload
<1>1. Still /\ UNCHANGED <<mu_, attempting, changed>> /\ DOMAIN pc = Thread
  BY DEF Elsewhere, IInv, Shape
<1>2. workload' = workload /\ Thread' = Thread
  BY <1>1, Fixed DEF Still
<1>3. \A r \in Thread :
         /\ pc'[r] = "locked" <=> pc[r] = "locked"
         /\ pc'[r] = "idle" => pc[r] = "idle"
         /\ pc[r] \in {"flush", "locked", "calling", "callback"} =>
               pc'[r] \in {"flush", "locked", "calling", "callback"}
  BY <1>1 DEF Elsewhere
<1>4. Quiet' => Quiet
  BY <1>2, <1>3 DEF Quiet
<1>5. FlushInv
  BY DEF IInv
<1>6. FlushInv'
  BY <1>1, <1>2, <1>3, <1>4, <1>5, StillWaits DEF FlushInv
<1>7. DOMAIN pc' = Thread
  BY <1>1 DEF Elsewhere
<1> QED  BY <1>2, <1>3, <1>6, <1>7

(* The parts of the invariant that say where the ops are listed.           *)
LEMMA ElsewhereLists ==
    ASSUME IInv, NEW t \in Thread, Elsewhere(t),
           calls' \in [Op -> Nat], clean_up' \in [Thread -> Seq(Attempted)],
           cur' \in [Step -> Attempted \cup {Nobody}],
           \A r \in Thread : Distinct(clean_up'[r]) /\ (pc'[r] \in NoList => clean_up'[r] = <<>>),
           \A s \in Step : pc'[s] = "callback" <=> cur'[s] # Nobody
    PROVE  Shape' /\ ListInv'
<1>1. /\ workload' = workload /\ Still
      /\ DOMAIN pc' = Thread /\ \A r \in Thread : pc'[r] = "idle" => pc[r] = "idle"
  BY ElsewhereKeeps DEF Elsewhere
<1>2. /\ Op' = Op /\ Step' = Step /\ Thread' = Thread /\ Op \subseteq Thread
      /\ Enqueues' = Enqueues /\ Dequeues' = Dequeues /\ Attempted' = Attempted
  BY <1>1, Fixed, Setting DEF IInv
<1>3. Shape'
  BY <1>1, <1>2 DEF IInv, Shape, Still
<1>4. ListInv'
  BY <1>1, <1>2 DEF IInv, ListInv, Still
<1> QED  BY <1>3, <1>4

(* Only pc changes, and calls if the op of this thread is answered at      *)
(* once, which then never had an attempt.                                  *)
LEMMA MovesAlong ==
    ASSUME IInv, NEW t \in Thread, Elsewhere(t), UNCHANGED <<clean_up, cur>>,
           pc[t] # "callback", pc'[t] = "cancelling" => clean_up[t] = <<>>,
           t \in Op /\ kind[t] = "CloseAndCancel" /\ pc'[t] = "returned" =>
              pc[t] \in {"idle", "returned"},
           \/ /\ calls' = calls
              /\ t \in Op /\ kind[t] # "Size" => (pc[t] = "idle" => pc'[t] = "idle")
           \/ /\ t \in Op /\ calls' = [calls EXCEPT ![t] = @ + 1]
              /\ pc[t] = "idle" /\ pc'[t] = "returned"
    PROVE  IInv'
<1>1. /\ FlushInv' /\ workload' = workload
      /\ DOMAIN pc' = Thread /\ \A r \in Thread : pc'[r] = "idle" => pc[r] = "idle"
      /\ UNCHANGED <<enqueue_attempts_, dequeue_attempts_, is_cancelled>>
  BY ElsewhereKeeps DEF Elsewhere, Still
<1>2. /\ Op \subseteq Thread /\ Step \subseteq Thread /\ \A op \in Op : op \notin Step
      /\ calls \in [Op -> Nat] /\ clean_up \in [Thread -> Seq(Attempted)]
      /\ cur \in [Step -> Attempted \cup {Nobody}] /\ DOMAIN pc = Thread
  BY Setting DEF IInv, Shape
<1>3. \A r \in Thread : r # t => pc'[r] = pc[r]
  BY <1>2 DEF Elsewhere
<1>4. pc'[t] # "callback"
  BY <1>2 DEF Elsewhere
<1>5. /\ \A r \in Thread : Distinct(clean_up[r]) /\ (pc[r] \in NoList => clean_up[r] = <<>>)
      /\ \A s \in Step : pc[s] = "callback" <=> cur[s] # Nobody
  BY DEF IInv, ListInv
<1>6. Shape' /\ ListInv'
  <2>1. calls' \in [Op -> Nat]
    BY SMT, <1>2
  <2>2. \A s \in Step : pc'[s] = "callback" <=> cur'[s] # Nobody
    BY <1>2, <1>3, <1>4, <1>5
  <2>3. \A r \in Thread : Distinct(clean_up'[r]) /\ (pc'[r] \in NoList => clean_up'[r] = <<>>)
    BY <1>1, <1>3, <1>4, <1>5 DEF NoList
  <2> QED  BY <1>2, <2>1, <2>2, <2>3, ElsewhereLists
<1>7. ASSUME NEW op \in Op, kind[op] # "Size"
      PROVE  Keeps(op) \/ AtOnce(op)
  <2>1. AnsweredBy(op)' = AnsweredBy(op)
    <3>1. kind[op] = "CloseAndCancel" =>
             (pc'[op] \in {"idle", "returned"} <=> pc[op] \in {"idle", "returned"})
      <4>1. \/ pc'[t] = pc[t]
            \/ pc'[t] \in {"flush", "cancelling", "returned"} /\ pc[t] # "returned"
        BY <1>2 DEF Elsewhere
      <4>2. CASE op # t
        BY <1>2, <1>3, <4>2
      <4>3. CASE op = t
        BY <1>7, <4>1, <4>3
      <4> QED  BY <4>2, <4>3
    <3> QED  BY <1>1, <3>1, SameAnswers
  <2>2. CASE op # t
    <3>1. calls'[op] = calls[op] /\ pc'[op] = pc[op]
      BY <1>2, <1>3, <2>2
    <3> QED  BY <2>1, <3>1 DEF Keeps
  <2>3. CASE op = t
    BY <1>1, <1>2, <1>7, <2>1, <2>3 DEF Keeps, AtOnce
  <2> QED  BY <2>2, <2>3
<1>8. DoneInv'
  BY <1>1, <1>7, DoneKept
<1> QED  BY <1>1, <1>6, <1>8 DEF IInv

-----------------------------------------------------------------------------
(* The done callback of the first op of a clean_up list is called.         *)
LEMMA CallsFirst ==
    ASSUME IInv, NEW t \in Thread, Elsewhere(t), UNCHANGED <<pc, cur>>, clean_up[t] # <<>>, pc[t] # "callback",
           calls' = [calls EXCEPT ![Head(clean_up[t])] = @ + 1],
           clean_up' = [clean_up EXCEPT ![t] = Tail(@)]
    PROVE  IInv'
<1>0. PICK op : op = Head(clean_up[t])
  OBVIOUS
<1>1. /\ FlushInv' /\ workload' = workload
      /\ UNCHANGED <<enqueue_attempts_, dequeue_attempts_, is_cancelled>>
  BY ElsewhereKeeps DEF Elsewhere, Still
<1>2. /\ calls \in [Op -> Nat] /\ clean_up \in [Thread -> Seq(Attempted)]
      /\ cur \in [Step -> Attempted \cup {Nobody}] /\ Attempted \subseteq Op
      /\ \A o \in Attempted : kind[o] # "Size" /\ kind[o] # "CloseAndCancel"
  BY Setting DEF IInv, Shape
<1>3. /\ \A r \in Thread : Distinct(clean_up[r]) /\ (pc[r] \in NoList => clean_up[r] = <<>>)
      /\ \A s \in Step : pc[s] = "callback" <=> cur[s] # Nobody
  BY DEF IInv, ListInv
<1>4. /\ op \in Attempted /\ Tail(clean_up[t]) \in Seq(Attempted) /\ op \in Range(clean_up[t])
      /\ \A x : x \in Range(clean_up[t]) <=> x = op \/ x \in Range(Tail(clean_up[t]))
      /\ Distinct(Tail(clean_up[t])) /\ op \notin Range(Tail(clean_up[t]))
  <2>1. clean_up[t] \in Seq(Attempted) /\ Distinct(clean_up[t])
    BY <1>2, <1>3
  <2> QED  BY ONLY Zenon, <1>0, <2>1, clean_up[t] # <<>>, SetOfTail
<1>5. Shape' /\ ListInv'
  <2>1. calls' \in [Op -> Nat] /\ clean_up' \in [Thread -> Seq(Attempted)]
    BY SMT, <1>0, <1>2, <1>4
  <2>2. \A r \in Thread : Distinct(clean_up'[r]) /\ (pc[r] \in NoList => clean_up'[r] = <<>>)
    BY <1>2, <1>3, <1>4
  <2> QED  BY <1>2, <1>3, <2>1, <2>2, ElsewhereLists
<1>6. kind' = kind /\ Op' = Op /\ Step' = Step /\ Thread' = Thread
  BY <1>1, Fixed
<1>7. \A r \in Thread : \A o :
         o \in Range(clean_up'[r]) <=> o \in Range(clean_up[r]) /\ ~(o = op /\ r = t)
  BY <1>2, <1>4
<1>8. ASSUME NEW o \in Op, o # op
      PROVE  Keeps(o)
  <2>1. calls'[o] = calls[o]
    BY <1>0, <1>2, <1>8
  <2>2. AnsweredBy(o)' = AnsweredBy(o)
    BY <1>1, <1>6, <1>7, <1>8 DEF AnsweredBy, InDeques
  <2> QED  BY <2>1, <2>2 DEF Keeps
<1>9. Answers(op)
  <2>1. t \in AnsweredBy(op)
    BY <1>4 DEF AnsweredBy
  <2>2. DoneOf(op) /\ op \in Op /\ kind[op] # "CloseAndCancel"
    BY <1>2, <1>4 DEF IInv, DoneInv
  <2>3. pc[op] # "idle" /\ calls'[op] = calls[op] + 1 /\ \A x \in AnsweredBy(op) : x = t
    BY <1>0, <1>2, <2>1, <2>2 DEF DoneOf
  <2>4. AnsweredBy(op)' \subseteq AnsweredBy(op)
    <3>1. ASSUME NEW x \in AnsweredBy(op)'
          PROVE  x \in AnsweredBy(op)
      BY <1>1, <1>6, <1>7, <2>2, <3>1 DEF AnsweredBy, InDeques
    <3> QED  BY <3>1
  <2>5. t \notin AnsweredBy(op)'
    <3>1. t \in Step => cur[t] = Nobody
      BY <1>3 DEF NoList
    <3> QED  BY <1>6, <1>7, <2>2, <3>1, Setting DEF AnsweredBy, IInv
  <2> QED  BY <2>1, <2>3, <2>4, <2>5 DEF Answers
<1> QED  BY <1>1, <1>5, <1>8, <1>9, DoneKept DEF IInv

(* CloseAndCancel calls its own done callback, after those it cancelled.   *)
LEMMA CallsItself ==
    ASSUME IInv, NEW t \in Op, Elsewhere(t), UNCHANGED <<clean_up, cur>>,
           kind[t] = "CloseAndCancel", pc[t] = "clean",
           pc' = [pc EXCEPT ![t] = "returned"], calls' = [calls EXCEPT ![t] = @ + 1]
    PROVE  IInv'
<1>0. /\ Op \subseteq Thread /\ Step \subseteq Thread /\ \A o \in Op : o \notin Step
      /\ t \in Thread
      /\ calls \in [Op -> Nat] /\ clean_up \in [Thread -> Seq(Attempted)]
      /\ cur \in [Step -> Attempted \cup {Nobody}] /\ DOMAIN pc = Thread /\ Nobody \notin Thread
      /\ t \notin Attempted
  BY Setting DEF IInv, Shape
<1>1. /\ FlushInv' /\ workload' = workload
      /\ UNCHANGED <<enqueue_attempts_, dequeue_attempts_, is_cancelled>>
  BY <1>0, ElsewhereKeeps DEF Elsewhere, Still
<1>2. Shape' /\ ListInv'
  <2>1. /\ \A r \in Thread : Distinct(clean_up[r]) /\ (pc'[r] \in NoList => clean_up[r] = <<>>)
        /\ \A s \in Step : pc'[s] = "callback" <=> cur[s] # Nobody
    BY <1>0 DEF IInv, ListInv, NoList
  <2>2. calls' \in [Op -> Nat]
    BY SMT, <1>0
  <2> QED  BY <1>0, <2>1, <2>2, ElsewhereLists
<1>3. ASSUME NEW o \in Op, o # t
      PROVE  Keeps(o)
  <2>1. calls'[o] = calls[o] /\ pc'[o] = pc[o]
    BY <1>0, <1>3
  <2> QED  BY <1>1, <2>1, SameAnswers DEF Keeps
<1>4. Answers(t)
  <2>1. t \in AnsweredBy(t)
    BY DEF AnsweredBy
  <2>2. calls'[t] = calls[t] + 1 /\ pc'[t] = "returned"
    BY <1>0
  <2>3. /\ \A r \in Thread : t \notin Range(clean_up[r])
        /\ \A s \in Step : cur[s] # t
        /\ ~InDeques(t)
    BY <1>0, Held DEF IInv, InDeques, Attempted
  <2>4. kind' = kind /\ Op' = Op /\ Step' = Step /\ Thread' = Thread
    BY <1>1, Fixed
  <2>5. AnsweredBy(t)' = {}
    BY <1>1, <2>2, <2>3, <2>4 DEF AnsweredBy, InDeques
  <2> QED  BY <2>1, <2>2, <2>5 DEF Answers
<1> QED  BY <1>1, <1>2, <1>3, <1>4, DoneKept DEF IInv

(* Cancel calls the done callback of the attempt it has marked.            *)
LEMMA CallsMarked ==
    ASSUME IInv, NEW t \in Step, Elsewhere(t), pc[t] = "callback", UNCHANGED clean_up,
           pc' = [pc EXCEPT ![t] = "flush"], cur' = [cur EXCEPT ![t] = Nobody],
           calls' = [calls EXCEPT ![cur[t]] = @ + 1]
    PROVE  IInv'
<1>0. /\ Op \subseteq Thread /\ Step \subseteq Thread /\ \A o \in Op : o \notin Step
      /\ t \in Thread /\ t \notin Op /\ Nobody \notin Thread
      /\ calls \in [Op -> Nat] /\ clean_up \in [Thread -> Seq(Attempted)]
      /\ cur \in [Step -> Attempted \cup {Nobody}] /\ DOMAIN pc = Thread
      /\ Attempted \subseteq Op
      /\ \A o \in Attempted : kind[o] # "Size" /\ kind[o] # "CloseAndCancel"
  BY Setting DEF IInv, Shape
<1>1. /\ FlushInv' /\ workload' = workload
      /\ UNCHANGED <<enqueue_attempts_, dequeue_attempts_, is_cancelled>>
  BY <1>0, ElsewhereKeeps DEF Elsewhere, Still
<1>2. PICK op \in Attempted : op = cur[t]
  BY <1>0 DEF IInv, ListInv
<1>3. clean_up[t] = <<>>
  BY <1>0 DEF IInv, ListInv, NoList
<1>4. Shape' /\ ListInv'
  <2>1. /\ \A r \in Thread : Distinct(clean_up[r]) /\ (pc'[r] \in NoList => clean_up[r] = <<>>)
        /\ \A s \in Step : pc'[s] = "callback" <=> cur'[s] # Nobody
    BY <1>0 DEF IInv, ListInv, NoList
  <2>2. calls' \in [Op -> Nat] /\ cur' \in [Step -> Attempted \cup {Nobody}]
    BY SMT, <1>0, <1>2
  <2> QED  BY <1>0, <2>1, <2>2, ElsewhereLists
<1>5. /\ kind' = kind /\ Op' = Op /\ Step' = Step /\ Thread' = Thread
      /\ \A o \in Op : pc'[o] = pc[o]
      /\ \A o \in Op : \A s \in Step : cur'[s] = o <=> cur[s] = o /\ s # t
  <2>1. kind' = kind /\ Op' = Op /\ Step' = Step /\ Thread' = Thread
    BY <1>1, Fixed
  <2>2. \A o \in Op : pc'[o] = pc[o]
    BY <1>0
  <2>3. \A o \in Op : \A s \in Step : cur'[s] = o <=> cur[s] = o /\ s # t
    BY <1>0
  <2> QED  BY <2>1, <2>2, <2>3
<1>6. ASSUME NEW o \in Op, o # op
      PROVE  Keeps(o)
  <2>1. calls'[o] = calls[o] /\ pc'[o] = pc[o]
    BY <1>0, <1>2, <1>5, <1>6
  <2>2. AnsweredBy(o)' = AnsweredBy(o)
    <3>1. ASSUME NEW x
          PROVE  x \in AnsweredBy(o)' <=> x \in AnsweredBy(o)
      BY <1>1, <1>2, <1>5, <1>6 DEF AnsweredBy, InDeques
    <3> QED  BY <3>1
  <2> QED  BY <2>1, <2>2 DEF Keeps
<1>7. Answers(op)
  <2>1. t \in AnsweredBy(op)
    BY <1>2 DEF AnsweredBy
  <2>2. DoneOf(op) /\ op \in Op /\ kind[op] # "CloseAndCancel"
    BY <1>0, <1>2 DEF IInv, DoneInv
  <2>3. pc[op] # "idle" /\ calls'[op] = calls[op] + 1 /\ \A x \in AnsweredBy(op) : x = t
    BY <1>0, <1>2, <2>1, <2>2 DEF DoneOf
  <2>4. AnsweredBy(op)' \subseteq AnsweredBy(op)
    <3>1. ASSUME NEW x \in AnsweredBy(op)'
          PROVE  x \in AnsweredBy(op)
      BY <1>1, <1>5, <2>2, <3>1 DEF AnsweredBy, InDeques
    <3> QED  BY <3>1
  <2>5. t \notin AnsweredBy(op)'
    <3>1. op \notin Range(clean_up[t])
      BY SMT, <1>3 DEF Range
    <3> QED  BY <1>0, <1>5, <2>2, <3>1 DEF AnsweredBy
  <2> QED  BY <1>5, <2>1, <2>2, <2>3, <2>4, <2>5 DEF Answers
<1> QED  BY <1>0, <1>1, <1>4, <1>6, <1>7, DoneKept DEF IInv

-----------------------------------------------------------------------------
(* The steps that move a thread along, or give an answer.                  *)
LEMMA KernelMoves ==
    ASSUME IInv, NEW t \in Op,
           \/ LookupFails(t) \/ Trivial(t) \/ SizeFails(t) \/ AlreadyCancelled(t)
           \/ CalledCancelled(t)
    PROVE  IInv'
<1>0. t \in Thread /\ DOMAIN pc = Thread
  BY Setting DEF IInv, Shape
<1>1. CASE LookupFails(t) \/ Trivial(t) \/ AlreadyCancelled(t)
  <2>1. /\ pc[t] = "idle" /\ pc' = [pc EXCEPT ![t] = "returned"]
        /\ calls' = [calls EXCEPT ![t] = @ + 1]
        /\ UNCHANGED <<clean_up, cur, mu_, attempting, changed>> /\ Still
    BY <1>1 DEF LookupFails, Trivial, AlreadyCancelled, CanStart, Goto, qvars, attempt, flush, Still
  <2>2. Elsewhere(t)
    BY <2>1 DEF Elsewhere
  <2> QED  BY <1>0, <2>1, <2>2, MovesAlong
<1>2. CASE SizeFails(t)
  <2>1. /\ pc[t] = "idle" /\ pc' = [pc EXCEPT ![t] = "returned"] /\ kind[t] = "Size"
        /\ UNCHANGED <<clean_up, cur, calls, mu_, attempting, changed>> /\ Still
    BY <1>2 DEF SizeFails, CanStart, Goto, qvars, attempt, flush, Still
  <2>2. Elsewhere(t)
    BY <2>1 DEF Elsewhere
  <2> QED  BY <1>0, <2>1, <2>2, MovesAlong
<1>3. CASE CalledCancelled(t)
  <2>1. /\ pc[t] = "calling" /\ pc' = [pc EXCEPT ![t] = "flush"]
        /\ UNCHANGED <<clean_up, cur, calls, mu_, attempting, changed>> /\ Still
    BY <1>3 DEF CalledCancelled, Goto, qvars, attempt, flush, outcome, Still
  <2>2. Elsewhere(t)
    BY <2>1 DEF Elsewhere
  <2> QED  BY <1>0, <2>1, <2>2, MovesAlong
<1> QED  BY <1>1, <1>2, <1>3

(* A step that touches none of it.                                         *)
LEMMA Untouched ==
    ASSUME IInv, Still, UNCHANGED <<pc, clean_up, cur, calls, mu_, attempting, changed>>
    PROVE  IInv'
<1>1. /\ kind' = kind /\ Op' = Op /\ Step' = Step /\ Thread' = Thread
      /\ Enqueues' = Enqueues /\ Dequeues' = Dequeues /\ Attempted' = Attempted
  BY Fixed DEF Still
<1>2. Shape' /\ ListInv'
  BY <1>1 DEF IInv, Shape, ListInv, Still
<1>3. FlushInv'
  BY <1>1, StillWaits DEF IInv, FlushInv, Quiet
<1>4. DoneInv'
  <2>1. \A op : AnsweredBy(op)' = AnsweredBy(op)
    BY SameAnswers DEF Still
  <2> QED  BY <1>1, <2>1 DEF IInv, DoneInv, DoneOf
<1> QED  BY <1>2, <1>3, <1>4 DEF IInv

(* The same of the thread that runs StartCancel of a step.                 *)
LEMMA StepMoves ==
    ASSUME IInv, NEW t \in Step,
           \/ StartStep(t) \/ EndStep(t) \/ StartCancel(t) \/ CancelCalls(t)
           \/ StartCancelReturns(t)
    PROVE  IInv'
<1>0. /\ t \in Thread /\ t \notin Op /\ DOMAIN pc = Thread
      /\ pc[t] = "idle" => clean_up[t] = <<>>
  BY Setting DEF IInv, Shape, ListInv, NoList
<1>1. CASE StartStep(t)
  <2>1. pc' = pc /\ UNCHANGED <<clean_up, cur, calls, mu_, attempting, changed>> /\ Still
    BY <1>1 DEF StartStep, qvars, attempt, flush, outcome, threads, Still
  <2> QED  BY <2>1, Untouched
<1>2. CASE EndStep(t) \/ StartCancel(t) \/ StartCancelReturns(t)
  <2>1. /\ UNCHANGED <<clean_up, cur, calls, mu_, attempting, changed>> /\ Still
        /\ \/ pc' = pc /\ pc[t] = "returned"
           \/ pc[t] = "idle" /\ \E at \in {"cancelling", "returned"} : pc' = [pc EXCEPT ![t] = at]
           \/ pc[t] = "cancelling" /\ pc' = [pc EXCEPT ![t] = "returned"]
    BY <1>2 DEF EndStep, StartCancel, StartCancelReturns, Goto, qvars, attempt, flush, outcome,
                Still
  <2>2. Elsewhere(t) /\ pc[t] # "callback"
    BY <2>1 DEF Elsewhere
  <2>3. pc'[t] = "cancelling" => clean_up[t] = <<>>
    BY <1>0, <2>1
  <2> QED  BY <1>0, <2>1, <2>2, <2>3, MovesAlong
<1>3. CASE CancelCalls(t)
  <2>1. /\ pc[t] = "callback" /\ pc' = [pc EXCEPT ![t] = "flush"]
        /\ cur' = [cur EXCEPT ![t] = Nobody] /\ calls' = [calls EXCEPT ![cur[t]] = @ + 1]
        /\ UNCHANGED <<clean_up, mu_, attempting, changed>> /\ Still
    BY <1>3 DEF CancelCalls, Finished, Goto, qvars, attempt, flush, Still
  <2>2. Elsewhere(t)
    BY <2>1 DEF Elsewhere
  <2> QED  BY <2>1, <2>2, CallsMarked
<1> QED  BY <1>1, <1>2, <1>3

(* The loops over the clean_up lists, without mu_.                         *)
LEMMA ListMoves ==
    ASSUME IInv, NEW t \in Thread,
           \/ t \in Op /\ CallCancelled(t)
           \/ CleanUp(t) \/ CleanedUp(t)
    PROVE  IInv'
<1>0. /\ DOMAIN pc = Thread /\ Thread \subseteq Op \cup Step /\ \A op \in Op : op \notin Step
  BY Setting DEF IInv, Shape
<1>1. CASE CallCancelled(t) \/ CleanUp(t)
  <2>1. /\ pc' = pc /\ pc[t] # "callback" /\ clean_up[t] # <<>> /\ cur' = cur
        /\ calls' = [calls EXCEPT ![Head(clean_up[t])] = @ + 1]
        /\ clean_up' = [clean_up EXCEPT ![t] = Tail(@)]
        /\ UNCHANGED <<mu_, attempting, changed>> /\ Still
    BY <1>1 DEF CallCancelled, CleanUp, Finished, qvars, attempt, flush, Still
  <2>2. Elsewhere(t)
    BY <2>1 DEF Elsewhere
  <2> QED  BY <2>1, <2>2, CallsFirst
<1>2. CASE CleanedUp(t)
  <2>1. /\ pc[t] = "clean" /\ clean_up[t] = <<>>
        /\ UNCHANGED <<clean_up, cur, mu_, attempting, changed>> /\ Still
    BY <1>2 DEF CleanedUp, qvars, attempt, flush, Still
  <2>2. CASE t \in Op /\ kind[t] = "CloseAndCancel"
    <3>1. pc' = [pc EXCEPT ![t] = "returned"] /\ calls' = [calls EXCEPT ![t] = @ + 1]
      BY <1>0, <1>2, <2>2 DEF CleanedUp, Goto, Finished
    <3>2. Elsewhere(t)
      BY <2>1, <3>1 DEF Elsewhere
    <3> QED  BY <2>1, <2>2, <3>1, <3>2, CallsItself
  <2>3. CASE ~(t \in Op /\ kind[t] = "CloseAndCancel")
    <3>1. calls' = calls /\ \E at \in {"cancelling", "returned"} : pc' = [pc EXCEPT ![t] = at]
      BY <1>0, <1>2, <2>3 DEF CleanedUp, Goto
    <3>2. Elsewhere(t)
      BY <2>1, <3>1 DEF Elsewhere
    <3>3. pc'[t] # "idle"
      BY <1>0, <3>1
    <3> QED  BY <2>1, <2>3, <3>1, <3>2, <3>3, MovesAlong
  <2> QED  BY <2>2, <2>3
<1> QED  BY <1>1, <1>2

-----------------------------------------------------------------------------
(* Whoever adds or cancels an attempt owes a FlushUnlocked from then on.   *)
LEMMA OwesFlush ==
    ASSUME IInv, NEW t \in Thread, workload' = workload, mu_ = Nobody, mu_' = Nobody,
           NEW at \in {"flush", "calling", "callback"}, pc' = [pc EXCEPT ![t] = at]
    PROVE  FlushInv'
<1>1. Thread' = Thread /\ DOMAIN pc = Thread /\ Nobody \notin Thread
  BY Fixed, Setting DEF IInv, Shape
<1>2. \A r \in Thread : pc[r] # "locked"
  BY <1>1 DEF IInv, FlushInv
<1>3. pc'[t] = at /\ \A r \in Thread : pc'[r] # "locked"
  BY <1>1, <1>2
<1>4. ~Quiet'
  BY <1>1, <1>3 DEF Quiet
<1> QED  BY <1>1, <1>3, <1>4 DEF FlushInv

(* An op that has just been called is nowhere yet.                         *)
LEMMA NewOp ==
    ASSUME IInv, NEW op \in Op, kind[op] # "Size", pc[op] = "idle"
    PROVE  AnsweredBy(op) = {} /\ ~InDeques(op) /\ is_cancelled[op] = "no"
<1>1. DoneOf(op) /\ is_cancelled[op] = "no"
  BY DEF IInv, DoneInv, ListInv
<1>2. AnsweredBy(op) = {}
  BY <1>1 DEF DoneOf
<1> QED  BY <1>1, <1>2 DEF AnsweredBy

(* An attempt is put at the end of a deque.                                *)
LEMMA Joins ==
    ASSUME IInv, NEW op \in Attempted, pc[op] = "idle", mu_ = Nobody,
           UNCHANGED <<workload, elements_requested, is_cancelled, clean_up, cur, calls, mu_>>,
           pc' = [pc EXCEPT ![op] = "flush"],
           \/ /\ op \in Enqueues /\ enqueue_attempts_' = Append(enqueue_attempts_, op)
              /\ UNCHANGED dequeue_attempts_
           \/ /\ op \in Dequeues /\ dequeue_attempts_' = Append(dequeue_attempts_, op)
              /\ UNCHANGED enqueue_attempts_
    PROVE  IInv'
<1>0. /\ Op \subseteq Thread /\ Step \subseteq Thread /\ \A o \in Op : o \notin Step
      /\ op \in Op /\ op \in Thread /\ DOMAIN pc = Thread /\ Nobody \notin Thread
      /\ kind[op] # "Size" /\ kind[op] # "CloseAndCancel"
      /\ enqueue_attempts_ \in Seq(Enqueues) /\ dequeue_attempts_ \in Seq(Dequeues)
  BY Setting DEF IInv, Shape
<1>1. /\ kind' = kind /\ Op' = Op /\ Step' = Step /\ Thread' = Thread
      /\ Enqueues' = Enqueues /\ Dequeues' = Dequeues /\ Attempted' = Attempted
  BY Fixed
<1>2. FlushInv'
  BY <1>0, OwesFlush
<1>3. AnsweredBy(op) = {} /\ ~InDeques(op) /\ is_cancelled[op] = "no"
  BY <1>0, NewOp
<1>4. /\ enqueue_attempts_' \in Seq(Enqueues) /\ dequeue_attempts_' \in Seq(Dequeues)
      /\ Distinct(enqueue_attempts_') /\ Distinct(dequeue_attempts_')
      /\ \A o : InDeques(o)' <=> InDeques(o) \/ o = op
  <2>1. Distinct(enqueue_attempts_) /\ Distinct(dequeue_attempts_)
    BY DEF IInv, ListInv
  <2>2. op \notin Range(enqueue_attempts_) /\ op \notin Range(dequeue_attempts_)
    BY <1>3 DEF InDeques
  <2>3. CASE op \in Enqueues /\ enqueue_attempts_' = Append(enqueue_attempts_, op)
             /\ dequeue_attempts_' = dequeue_attempts_
    <3>1. /\ Append(enqueue_attempts_, op) \in Seq(Enqueues)
          /\ Distinct(Append(enqueue_attempts_, op))
          /\ \A x : x \in Range(Append(enqueue_attempts_, op)) <=>
                      x \in Range(enqueue_attempts_) \/ x = op
      BY ONLY Zenon, <1>0, <2>1, <2>2, <2>3, SetOfAppend
    <3>2. \A o : InDeques(o)' <=> InDeques(o) \/ o = op
      BY ONLY Zenon, <2>3, <3>1 DEF InDeques
    <3> QED  BY <1>0, <2>1, <2>3, <3>1, <3>2
  <2>4. CASE op \in Dequeues /\ dequeue_attempts_' = Append(dequeue_attempts_, op)
             /\ enqueue_attempts_' = enqueue_attempts_
    <3>1. /\ Append(dequeue_attempts_, op) \in Seq(Dequeues)
          /\ Distinct(Append(dequeue_attempts_, op))
          /\ \A x : x \in Range(Append(dequeue_attempts_, op)) <=>
                      x \in Range(dequeue_attempts_) \/ x = op
      BY ONLY Zenon, <1>0, <2>1, <2>2, <2>4, SetOfAppend
    <3>2. \A o : InDeques(o)' <=> InDeques(o) \/ o = op
      BY ONLY Zenon, <2>4, <3>1 DEF InDeques
    <3> QED  BY <1>0, <2>1, <2>4, <3>1, <3>2
  <2> QED  BY <2>3, <2>4
<1>5. Shape'
  BY <1>0, <1>1, <1>4 DEF IInv, Shape
<1>6. /\ pc'[op] = "flush" /\ \A r \in Thread : r # op => pc'[r] = pc[r]
  BY <1>0
<1>7. ListInv'
  BY <1>0, <1>1, <1>4, <1>6 DEF IInv, ListInv, NoList
<1>8. ASSUME NEW o \in Op, o # op
      PROVE  Keeps(o)
  <2>1. AnsweredBy(o)' = AnsweredBy(o)
    <3>1. pc'[o] = pc[o] /\ (InDeques(o)' <=> InDeques(o))
      BY <1>0, <1>4, <1>6, <1>8
    <3>2. ASSUME NEW x
          PROVE  x \in AnsweredBy(o)' <=> x \in AnsweredBy(o)
      BY <1>1, <3>1 DEF AnsweredBy
    <3> QED  BY <3>2
  <2> QED  BY <1>0, <1>6, <1>8, <2>1 DEF Keeps
<1>9. PassesOn(op)
  <2>1. \A x : x \in AnsweredBy(op)' <=> x \in AnsweredBy(op) \/ x = Nobody
    BY <1>0, <1>1, <1>3, <1>4 DEF AnsweredBy
  <2>2. AnsweredBy(op)' = {Nobody}
    BY <1>3, <2>1
  <2> QED  BY <1>6, <2>2 DEF PassesOn
<1>10. DoneInv'
  BY <1>8, <1>9, DoneKept
<1> QED  BY <1>2, <1>5, <1>7, <1>10 DEF IInv

(* TryEnqueue, TryDequeue and the others; Close.                           *)
LEMMA JoinMoves ==
    ASSUME IInv, NEW op \in Op, RegisterAttempt(op) \/ Close(op)
    PROVE  IInv'
<1>1. CASE RegisterAttempt(op)
  <2>1. /\ pc[op] = "idle" /\ mu_ = Nobody /\ pc' = [pc EXCEPT ![op] = "flush"]
        /\ UNCHANGED <<workload, elements_requested, is_cancelled, clean_up, cur, calls, mu_>>
        /\ IsEnqueue(op) \/ IsDequeue(op)
        /\ IF IsEnqueue(op)
           THEN enqueue_attempts_' = Append(enqueue_attempts_, op) /\ UNCHANGED dequeue_attempts_
           ELSE dequeue_attempts_' = Append(dequeue_attempts_, op) /\ UNCHANGED enqueue_attempts_
    BY <1>1 DEF RegisterAttempt, CanStart, Goto, attempt, flush, outcome
  <2>2. op \in Attempted /\ (IsEnqueue(op) => op \in Enqueues) /\ (IsDequeue(op) => op \in Dequeues)
    BY <2>1 DEF Attempted, Enqueues, Dequeues
  <2> QED  BY <2>1, <2>2, Joins
<1>2. CASE Close(op)
  <2>1. /\ pc[op] = "idle" /\ mu_ = Nobody /\ pc' = [pc EXCEPT ![op] = "flush"]
        /\ UNCHANGED <<workload, elements_requested, is_cancelled, clean_up, cur, calls, mu_>>
        /\ enqueue_attempts_' = Append(enqueue_attempts_, op) /\ UNCHANGED dequeue_attempts_
        /\ kind[op] = "Close"
    BY <1>2 DEF Close, CanStart, Goto, attempt, flush, outcome
  <2>2. op \in Attempted /\ op \in Enqueues
    BY <2>1 DEF Attempted, Enqueues
  <2> QED  BY <2>1, <2>2, Joins
<1> QED  BY <1>1, <1>2

-----------------------------------------------------------------------------
(* An attempt that waits is answered from its deque, and from there alone. *)
LEMMA WaitsAlone ==
    ASSUME IInv, NEW op, InDeques(op), is_cancelled[op] = "no"
    PROVE  /\ op \in Attempted /\ op \in Op /\ pc[op] # "idle" /\ Nobody \in AnsweredBy(op)
           /\ kind[op] # "Size" /\ kind[op] # "CloseAndCancel"
           /\ \A t \in Thread : op \notin Range(clean_up[t])
           /\ \A s \in Step : cur[s] # op
<1>1. /\ op \in Attempted /\ op \in Op /\ kind[op] # "Size" /\ kind[op] # "CloseAndCancel"
      /\ Nobody \notin Thread /\ Step \subseteq Thread
  BY Held, Setting DEF IInv, InDeques, Attempted
<1>2. Nobody \in AnsweredBy(op)
  BY DEF AnsweredBy
<1>3. DoneOf(op)
  BY <1>1 DEF IInv, DoneInv
<1>4. pc[op] # "idle" /\ \A x \in AnsweredBy(op) : x = Nobody
  BY <1>2, <1>3 DEF DoneOf
<1>5. /\ \A t \in Thread : op \notin Range(clean_up[t])
      /\ \A s \in Step : cur[s] # op
  BY <1>1, <1>4 DEF AnsweredBy
<1> QED  BY <1>1, <1>2, <1>4, <1>5

(* Cancel marks an attempt that waits, and will call its done callback.    *)
LEMMA Marks ==
    ASSUME IInv, NEW s \in Step, NEW op, pc[s] = "cancelling", mu_ = Nobody,
           InDeques(op), is_cancelled[op] = "no",
           is_cancelled' = [is_cancelled EXCEPT ![op] = "yes"],
           cur' = [cur EXCEPT ![s] = op], pc' = [pc EXCEPT ![s] = "callback"],
           UNCHANGED <<workload, enqueue_attempts_, dequeue_attempts_, elements_requested,
                       clean_up, calls, mu_>>
    PROVE  IInv'
<1>0. /\ Op \subseteq Thread /\ Step \subseteq Thread /\ \A o \in Op : o \notin Step
      /\ s \in Thread /\ s \notin Op /\ DOMAIN pc = Thread /\ Nobody \notin Thread
      /\ DOMAIN is_cancelled = Op /\ cur \in [Step -> Attempted \cup {Nobody}]
  BY Setting DEF IInv, Shape
<1>1. /\ kind' = kind /\ Op' = Op /\ Step' = Step /\ Thread' = Thread
      /\ Enqueues' = Enqueues /\ Dequeues' = Dequeues /\ Attempted' = Attempted
  BY Fixed
<1>2. FlushInv'
  BY <1>0, OwesFlush
<1>3. /\ op \in Attempted /\ op \in Op /\ pc[op] # "idle" /\ Nobody \in AnsweredBy(op)
      /\ kind[op] # "Size" /\ kind[op] # "CloseAndCancel"
      /\ \A t \in Thread : op \notin Range(clean_up[t])
      /\ \A r \in Step : cur[r] # op
  BY WaitsAlone
<1>4. cur[s] = Nobody /\ clean_up[s] = <<>>
  BY <1>0 DEF IInv, ListInv, NoList
<1>5. /\ pc'[s] = "callback" /\ \A r \in Thread : r # s => pc'[r] = pc[r]
      /\ cur'[s] = op /\ \A r \in Step : r # s => cur'[r] = cur[r]
      /\ is_cancelled'[op] = "yes" /\ \A o \in Op : o # op => is_cancelled'[o] = is_cancelled[o]
      /\ DOMAIN is_cancelled' = Op /\ DOMAIN pc' = Thread
      /\ cur' \in [Step -> Attempted \cup {Nobody}]
  BY <1>0, <1>3
<1>6. Shape'
  BY <1>1, <1>5 DEF IInv, Shape
<1>7. ListInv'
  <2>1. \A r \in Thread : pc'[r] \in NoList => clean_up[r] = <<>>
    BY <1>4, <1>5 DEF IInv, ListInv
  <2>2. ASSUME NEW r \in Step
        PROVE  pc'[r] = "callback" <=> cur'[r] # Nobody
    <3>0. op # Nobody
      BY <1>0, <1>3
    <3>1. CASE r = s
      BY ONLY Zenon, <1>5, <3>0, <3>1
    <3>2. CASE r # s
      <4>1. pc'[r] = pc[r] /\ cur'[r] = cur[r]
        BY ONLY Zenon, <1>0, <1>5, <3>2
      <4> QED  BY <4>1 DEF IInv, ListInv
    <3> QED  BY <3>1, <3>2
  <2>3. ASSUME NEW o \in Op, pc'[o] = "idle"
        PROVE  is_cancelled'[o] = "no"
    <3>1. pc[o] = "idle" /\ o # op
      BY <1>0, <1>3, <1>5, <2>3
    <3> QED  BY <1>5, <3>1 DEF IInv, ListInv
  <2> QED  BY <1>1, <2>1, <2>2, <2>3 DEF IInv, ListInv
<1>8. ASSUME NEW o \in Op, o # op
      PROVE  Keeps(o)
  <2>1. AnsweredBy(o)' = AnsweredBy(o)
    <3>1. ASSUME NEW r \in Step
          PROVE  cur'[r] = o <=> cur[r] = o
      <4>0. o # Nobody
        BY <1>0
      <4>1. CASE r = s
        BY ONLY Zenon, <1>4, <1>5, <4>0, <4>1, <1>8
      <4>2. CASE r # s
        BY ONLY Zenon, <1>5, <4>2
      <4> QED  BY <4>1, <4>2
    <3>2. is_cancelled'[o] = is_cancelled[o] /\ pc'[o] = pc[o]
      BY <1>0, <1>5, <1>8
    <3>3. ASSUME NEW x
          PROVE  x \in AnsweredBy(o)' <=> x \in AnsweredBy(o)
      BY <1>1, <3>1, <3>2 DEF AnsweredBy, InDeques
    <3> QED  BY <3>3
  <2> QED  BY <1>0, <1>5, <1>8, <2>1 DEF Keeps
<1>9. PassesOn(op)
  <2>1. AnsweredBy(op)' = {s}
    <3>1. ASSUME NEW x
          PROVE  x \in AnsweredBy(op)' <=> x = s
      BY <1>0, <1>1, <1>3, <1>5 DEF AnsweredBy
    <3> QED  BY ONLY SMT, <3>1
  <2> QED  BY <1>0, <1>3, <1>5, <2>1 DEF PassesOn
<1>10. DoneInv'
  BY <1>3, <1>8, <1>9, DoneKept
<1> QED  BY <1>2, <1>6, <1>7, <1>10 DEF IInv

(* Cancel, whether it finds the attempt or not.                            *)
LEMMA CancelMoves ==
    ASSUME IInv, NEW s \in Step, NEW tok, Cancel(s, tok)
    PROVE  IInv'
<1>1. PICK found : found = Found(s, CallbackOf(s, tok))
  OBVIOUS
<1>2. /\ pc[s] = "cancelling" /\ mu_ = Nobody
      /\ UNCHANGED <<workload, queues_, closed_, enqueue_attempts_, dequeue_attempts_,
                     elements_requested, calls, clean_up, mu_, attempting, changed>>
  BY DEF Cancel, qvars, flush
<1>3. ASSUME NEW op \in found
      PROVE  InDeques(op) /\ is_cancelled[op] = "no"
  <2>1. PICK deque \in {enqueue_attempts_, dequeue_attempts_} :
           deque = Deque(CallbackOf(s, tok))
    BY DEF Deque
  <2>2. \E i \in DOMAIN deque : op = deque[i] /\ is_cancelled[deque[i]] = "no"
    BY <1>1, <1>3, <2>1 DEF Found, AttemptsOf
  <2> QED  BY <2>1, <2>2 DEF InDeques, Range
<1>4. CASE \E op \in found :
             /\ is_cancelled' = [is_cancelled EXCEPT ![op] = "yes"]
             /\ cur' = [cur EXCEPT ![s] = op] /\ pc' = [pc EXCEPT ![s] = "callback"]
  BY <1>2, <1>3, <1>4, Marks
<1>5. CASE UNCHANGED <<is_cancelled, cur, pc>>
  BY <1>2, <1>5, Untouched DEF Still
<1> QED  BY <1>1, <1>4, <1>5 DEF Cancel, Goto

-----------------------------------------------------------------------------
(* Steps of FlushUnlocked that leave every attempt where it is.            *)
LEMMA InFlush ==
    ASSUME IInv, FlushInv', NEW t \in Thread, pc[t] \in {"flush", "locked"},
           UNCHANGED <<workload, enqueue_attempts_, dequeue_attempts_, is_cancelled, clean_up,
                       cur, calls>>,
           DOMAIN elements_requested' = Op, DOMAIN pc' = Thread,
           \A r \in Thread : r # t => pc'[r] = pc[r], pc'[t] \in {"locked", "clean"}
    PROVE  IInv'
<1>1. /\ kind' = kind /\ Op' = Op /\ Step' = Step /\ Thread' = Thread
      /\ Enqueues' = Enqueues /\ Dequeues' = Dequeues /\ Attempted' = Attempted
      /\ Op \subseteq Thread /\ Step \subseteq Thread
  BY Fixed, Setting DEF IInv
<1>2. /\ \A r \in Thread : pc'[r] = "idle" <=> pc[r] = "idle"
      /\ \A r \in Thread : pc'[r] = "callback" <=> pc[r] = "callback"
      /\ \A r \in Thread : pc'[r] = "cancelling" <=> pc[r] = "cancelling"
      /\ \A r \in Thread : pc'[r] = "returned" <=> pc[r] = "returned"
  OBVIOUS
<1>3. Shape' /\ ListInv'
  <2>1. Shape'
    BY <1>1 DEF IInv, Shape
  <2>2. \A r \in Thread : pc'[r] \in NoList <=> pc[r] \in NoList
    BY <1>2 DEF NoList
  <2>3. /\ \A r \in Thread : pc'[r] \in NoList => clean_up[r] = <<>>
        /\ \A s \in Step : pc'[s] = "callback" <=> cur[s] # Nobody
        /\ \A o \in Op : pc'[o] = "idle" => is_cancelled[o] = "no"
    <3>0. ListInv
      BY DEF IInv
    <3>1. \A r \in Thread : pc'[r] \in NoList => clean_up[r] = <<>>
      BY ONLY Zenon, <2>2, <3>0 DEF ListInv
    <3>2. \A s \in Step : pc'[s] = "callback" <=> cur[s] # Nobody
      BY ONLY Zenon, <1>1, <1>2, <3>0 DEF ListInv
    <3>3. \A o \in Op : pc'[o] = "idle" => is_cancelled[o] = "no"
      BY ONLY Zenon, <1>1, <1>2, <3>0 DEF ListInv
    <3> QED  BY <3>1, <3>2, <3>3
  <2>4. ListInv'
    BY <1>1, <2>3 DEF IInv, ListInv
  <2> QED  BY <2>1, <2>4
<1>4. ASSUME NEW o \in Op
      PROVE  Keeps(o)
  BY <1>1, <1>2, SameAnswers DEF Keeps
<1>5. DoneInv'
  BY <1>4, DoneKept
<1> QED  BY <1>3, <1>5 DEF IInv

(* FlushUnlocked takes mu_ and begins its first loop.                      *)
LEMMA LockMoves ==
    ASSUME IInv, NEW t \in Thread, LockForFlush(t)
    PROVE  IInv'
<1>0. /\ Op \subseteq Thread /\ Step \subseteq Thread /\ DOMAIN pc = Thread
      /\ Nobody \notin Thread /\ DOMAIN elements_requested = Op
  BY Setting DEF IInv, Shape
<1>1. /\ pc[t] = "flush" /\ mu_ = Nobody /\ mu_' = t /\ attempting' = "kEnqueue"
      /\ pc' = [pc EXCEPT ![t] = "locked"]
      /\ UNCHANGED <<workload, enqueue_attempts_, dequeue_attempts_, elements_requested,
                     is_cancelled, calls, clean_up, cur>>
  BY DEF LockForFlush, Goto, qvars, attempt, outcome
<1>2. /\ pc'[t] = "locked" /\ \A r \in Thread : r # t => pc'[r] = pc[r]
      /\ DOMAIN pc' = Thread
  BY <1>0, <1>1
<1>3. Thread' = Thread
  BY <1>1, Fixed
<1>4. FlushInv'
  <2>1. \A r \in Thread : pc[r] # "locked"
    BY <1>0, <1>1 DEF IInv, FlushInv
  <2>2. ~Quiet'
    BY <1>2, <1>3 DEF Quiet
  <2> QED  BY <1>1, <1>2, <1>3, <2>1, <2>2 DEF FlushInv
<1> QED  BY <1>0, <1>1, <1>2, <1>4, InFlush

(* A cancelled attempt is taken off.                                       *)
LEMMA SkipMoves ==
    ASSUME IInv, NEW t \in Thread, SkipCancelled(t)
    PROVE  IInv'
<1>0. /\ enqueue_attempts_ \in Seq(Enqueues) /\ dequeue_attempts_ \in Seq(Dequeues)
      /\ Distinct(enqueue_attempts_) /\ Distinct(dequeue_attempts_) /\ DOMAIN pc = Thread
  BY DEF IInv, Shape, ListInv
<1>1. /\ mu_ = t /\ Attempts # <<>> /\ is_cancelled[Head(Attempts)] # "no" /\ PopAttempt
      /\ UNCHANGED <<workload, elements_requested, is_cancelled, calls, clean_up, cur, pc,
                     mu_, attempting, changed>>
      /\ UNCHANGED <<queues_, closed_>>
  BY DEF SkipCancelled, StillWanted, attempt, flush, outcome, threads
<1>2. /\ kind' = kind /\ Op' = Op /\ Step' = Step /\ Thread' = Thread
      /\ Enqueues' = Enqueues /\ Dequeues' = Dequeues /\ Attempted' = Attempted
      /\ capacity_' = capacity_
  BY <1>1, Fixed
<1>3. /\ enqueue_attempts_' \in Seq(Enqueues) /\ dequeue_attempts_' \in Seq(Dequeues)
      /\ Distinct(enqueue_attempts_') /\ Distinct(dequeue_attempts_')
      /\ \A o : is_cancelled[o] = "no" => (InDeques(o)' <=> InDeques(o))
      /\ attempting = "kDequeue" => enqueue_attempts_' = enqueue_attempts_
  <2>1. CASE attempting = "kEnqueue"
    <3>1. /\ enqueue_attempts_ # <<>> /\ is_cancelled[Head(enqueue_attempts_)] # "no"
          /\ enqueue_attempts_' = Tail(enqueue_attempts_)
          /\ dequeue_attempts_' = dequeue_attempts_
      BY <1>1, <2>1 DEF Attempts, PopAttempt
    <3> QED  BY ONLY Zenon, <1>0, <2>1, <3>1, SetOfTail DEF InDeques
  <2>2. CASE attempting # "kEnqueue"
    <3>1. /\ dequeue_attempts_ # <<>> /\ is_cancelled[Head(dequeue_attempts_)] # "no"
          /\ dequeue_attempts_' = Tail(dequeue_attempts_)
          /\ enqueue_attempts_' = enqueue_attempts_
      BY <1>1, <2>2 DEF Attempts, PopAttempt
    <3> QED  BY ONLY Zenon, <1>0, <2>2, <3>1, SetOfTail DEF InDeques
  <2> QED  BY <2>1, <2>2
<1>4. Shape' /\ ListInv'
  BY <1>1, <1>2, <1>3 DEF IInv, Shape, ListInv
<1>5. FlushInv'
  <2>1. pc[t] = "locked"
    BY <1>1 DEF IInv, FlushInv
  <2>2. ~Quiet'
    BY <1>1, <1>2, <2>1 DEF Quiet
  <2>3. \A o : Stuck(o)' <=> Stuck(o)
    BY <1>1, <1>2 DEF Stuck, Room, CannotBeFilled, IsEnqueue
  <2> QED  BY <1>1, <1>2, <1>3, <2>2, <2>3 DEF IInv, FlushInv, Waits
<1>6. ASSUME NEW o \in Op
      PROVE  Keeps(o)
  <2>1. AnsweredBy(o)' = AnsweredBy(o)
    BY <1>1, <1>2, <1>3 DEF AnsweredBy
  <2> QED  BY <1>1, <2>1 DEF Keeps
<1>7. DoneInv'
  BY <1>1, <1>6, DoneKept
<1> QED  BY <1>4, <1>5, <1>7 DEF IInv

(* The loop over a deque is left.  If there was no progress, the attempt   *)
(* at its front waits; the second loop is the last if neither made any.    *)
LEMMA LeavesKeeps ==
    ASSUME IInv, NEW t \in Thread, NEW p, LeavesLoop(t, p), mu_ = t,
           UNCHANGED <<workload, enqueue_attempts_, dequeue_attempts_, is_cancelled, clean_up,
                       cur, calls>>,
           DOMAIN elements_requested' = Op,
           p = "no" /\ attempting = "kEnqueue" => Waits(enqueue_attempts_)',
           p = "no" /\ attempting = "kDequeue" /\ changed = "no" =>
              /\ Waits(dequeue_attempts_)'
              /\ Waits(enqueue_attempts_) => Waits(enqueue_attempts_)'
    PROVE  IInv'
<1>0. /\ DOMAIN pc = Thread /\ Nobody \notin Thread /\ t # Nobody
      /\ Thread' = Thread /\ pc[t] = "locked"
      /\ \A r \in Thread : pc[r] = "locked" <=> mu_ = r
  BY Setting, Fixed DEF IInv, Shape, FlushInv
<1>1. /\ \/ mu_' = t /\ pc' = pc
         \/ /\ mu_' = Nobody /\ pc' = [pc EXCEPT ![t] = "clean"]
            /\ attempting = "kDequeue" /\ p = "no" /\ changed = "no"
      /\ mu_' # Nobody /\ attempting' = "kDequeue" /\ changed' = "no" =>
            attempting = "kEnqueue" /\ p = "no"
  BY <1>0 DEF LeavesLoop, Goto
<1>2. /\ \A r \in Thread : r # t => pc'[r] = pc[r]
      /\ pc'[t] = IF mu_' = t THEN "locked" ELSE "clean"
      /\ DOMAIN pc' = Thread
  BY <1>0, <1>1
<1>3. FlushInv'
  <2>1. Quiet' => mu_' = Nobody
    BY <1>0, <1>1, <1>2 DEF Quiet
  <2>2. \A r \in Thread : pc'[r] = "locked" <=> mu_' = r
    BY <1>0, <1>1, <1>2
  <2>3. Quiet' => Waits(enqueue_attempts_)' /\ Waits(dequeue_attempts_)'
    BY <1>0, <1>1, <2>1 DEF IInv, FlushInv
  <2> QED  BY <1>0, <1>1, <2>2, <2>3 DEF FlushInv
<1> QED  BY <1>0, <1>1, <1>2, <1>3, InFlush

(* The deque is empty, or empty of attempts that can go on.                *)
LEMMA NoneLeftMoves ==
    ASSUME IInv, NEW t \in Thread, NoAttemptsLeft(t)
    PROVE  IInv'
<1>1. /\ mu_ = t /\ Attempts = <<>> /\ LeavesLoop(t, changed) /\ Still
      /\ UNCHANGED <<clean_up, cur, calls>> /\ DOMAIN elements_requested = Op
  BY DEF NoAttemptsLeft, qvars, attempt, outcome, Still, IInv, Shape
<1>2. PICK p : p = changed
  OBVIOUS
<1>3. /\ attempting = "kEnqueue" => Waits(enqueue_attempts_)'
      /\ attempting = "kDequeue" => Waits(dequeue_attempts_)'
  BY <1>1 DEF Attempts, Waits, Still
<1> QED  BY <1>1, <1>2, <1>3, StillWaits, LeavesKeeps DEF Still

-----------------------------------------------------------------------------
(* run_callback makes progress, or leaves everything as it was because the *)
(* attempt is stuck.                                                       *)
LEMMA RunFacts ==
    ASSUME NEW op, NEW out \in RunCallback(op)
    PROVE  \/ out.run \in {"kComplete", "kProgress"}
           \/ /\ Stuck(op) /\ out.queues_ = queues_ /\ out.closed_ = closed_
              /\ out.elements_requested = elements_requested[op]
<1>1. \A st : \A o \in CompletesWith(op, st) : o.run = "kComplete"
  BY SMT DEF CompletesWith, Outcome
<1>2. \A o \in NoProgress(op) :
         /\ o.queues_ = queues_ /\ o.closed_ = closed_
         /\ o.elements_requested = elements_requested[op]
  BY SMT DEF NoProgress, Outcome
<1>3. CASE kind[op] = "Close"
  BY SMT, <1>1, <1>3 DEF RunCallback, RunClose, Outcome
<1>4. CASE kind[op] # "Close" /\ IsEnqueue(op)
  <2>1. out \in RunEnqueue(op)
    BY <1>4 DEF RunCallback
  <2>2. \A n, run, st : Pushed(op, n, run, st).run = run
    BY DEF Pushed, Outcome
  <2>3. CASE closed_ # "yes" /\ Least(Room, elements_requested[op]) = 0
    BY <1>2, <1>4, <2>1, <2>3 DEF RunEnqueue, Stuck
  <2>4. CASE ~(closed_ # "yes" /\ Least(Room, elements_requested[op]) = 0)
    BY SMT, <1>1, <2>1, <2>2, <2>4 DEF RunEnqueue
  <2> QED  BY <2>3, <2>4
<1>5. CASE kind[op] # "Close" /\ ~IsEnqueue(op)
  <2>1. out \in RunDequeue(op)
    BY <1>5 DEF RunCallback
  <2>2. \A n, q, tup, r : Popped(op, n, q, tup, r).run \in {"kComplete", "kProgress"}
    BY DEF Popped, Outcome
  <2>3. \A o \in RunDequeueClosed(op) : o.run \in {"kComplete", "kProgress"}
    BY SMT, <2>2 DEF RunDequeueClosed, RestoreFails, Outcome
  <2>4. CASE ~CannotBeFilled(op) /\ Least(Len(queues_), elements_requested[op]) = 0
    BY <1>2, <1>5, <2>1, <2>4 DEF RunDequeue, Stuck
  <2>5. CASE ~(~CannotBeFilled(op) /\ Least(Len(queues_), elements_requested[op]) = 0)
    BY <1>1, <2>1, <2>2, <2>3, <2>5 DEF RunDequeue
  <2> QED  BY <2>4, <2>5
<1> QED  BY <1>3, <1>4, <1>5

(* The attempt at the front of its deque completes: the answer is due from *)
(* the clean_up list of the thread, and from nowhere else.                 *)
LEMMA Completes ==
    ASSUME IInv, NEW t \in Thread, mu_ = t, Attempts # <<>>,
           is_cancelled[Head(Attempts)] = "no", PopAttempt, changed' = "yes",
           clean_up' = [clean_up EXCEPT ![t] = Append(@, Head(Attempts))],
           UNCHANGED <<workload, is_cancelled, calls, cur, mu_, attempting, pc>>,
           DOMAIN elements_requested' = Op
    PROVE  IInv'
<1>0. PICK op : op = Head(Attempts)
  OBVIOUS
<1>1. /\ enqueue_attempts_ \in Seq(Enqueues) /\ dequeue_attempts_ \in Seq(Dequeues)
      /\ Distinct(enqueue_attempts_) /\ Distinct(dequeue_attempts_) /\ DOMAIN pc = Thread
      /\ clean_up \in [Thread -> Seq(Attempted)] /\ Nobody \notin Thread
      /\ \A o \in Enqueues : o \notin Dequeues
      /\ Range(enqueue_attempts_) \subseteq Enqueues /\ Range(dequeue_attempts_) \subseteq Dequeues
  BY Setting, Held DEF IInv, Shape, ListInv
<1>2. /\ kind' = kind /\ Op' = Op /\ Step' = Step /\ Thread' = Thread
      /\ Enqueues' = Enqueues /\ Dequeues' = Dequeues /\ Attempted' = Attempted
  BY Fixed
<1>3. /\ enqueue_attempts_' \in Seq(Enqueues) /\ dequeue_attempts_' \in Seq(Dequeues)
      /\ Distinct(enqueue_attempts_') /\ Distinct(dequeue_attempts_')
      /\ InDeques(op) /\ \A o : InDeques(o)' <=> InDeques(o) /\ o # op
  <2>1. CASE attempting = "kEnqueue"
    <3>1. /\ enqueue_attempts_ # <<>> /\ op = Head(enqueue_attempts_)
          /\ enqueue_attempts_' = Tail(enqueue_attempts_)
          /\ dequeue_attempts_' = dequeue_attempts_
      BY <1>0, <2>1 DEF Attempts, PopAttempt
    <3> QED  BY ONLY SMT, <1>1, <3>1, SetOfTail DEF InDeques
  <2>2. CASE attempting # "kEnqueue"
    <3>1. /\ dequeue_attempts_ # <<>> /\ op = Head(dequeue_attempts_)
          /\ dequeue_attempts_' = Tail(dequeue_attempts_)
          /\ enqueue_attempts_' = enqueue_attempts_
      BY <1>0, <2>2 DEF Attempts, PopAttempt
    <3> QED  BY ONLY SMT, <1>1, <3>1, SetOfTail DEF InDeques
  <2> QED  BY <2>1, <2>2
<1>4. /\ op \in Attempted /\ op \in Op /\ pc[op] # "idle" /\ Nobody \in AnsweredBy(op)
      /\ kind[op] # "Size" /\ kind[op] # "CloseAndCancel"
      /\ \A r \in Thread : op \notin Range(clean_up[r])
      /\ \A s \in Step : cur[s] # op
  BY <1>0, <1>3, WaitsAlone
<1>5. /\ pc[t] = "locked" /\ FlushInv'
  <2>1. pc[t] = "locked"
    BY DEF IInv, FlushInv
  <2>2. ~Quiet'
    BY <1>2, <2>1 DEF Quiet
  <2> QED  BY <1>2, <2>1, <2>2 DEF IInv, FlushInv
<1>6. /\ clean_up' \in [Thread -> Seq(Attempted)] /\ Distinct(clean_up'[t])
      /\ \A r \in Thread : r # t => clean_up'[r] = clean_up[r]
      /\ \A o : o \in Range(clean_up'[t]) <=> o \in Range(clean_up[t]) \/ o = op
  <2>1. PICK list : list = clean_up[t]
    OBVIOUS
  <2>2. list \in Seq(Attempted) /\ Distinct(list) /\ op \notin Range(list)
    BY <1>1, <1>4, <2>1 DEF IInv, ListInv
  <2>3. /\ Append(list, op) \in Seq(Attempted) /\ Distinct(Append(list, op))
        /\ \A o : o \in Range(Append(list, op)) <=> o \in Range(list) \/ o = op
    BY ONLY Zenon, <1>4, <2>2, SetOfAppend
  <2> QED  BY <1>0, <1>1, <2>1, <2>3
<1>7. Shape'
  BY <1>2, <1>3, <1>6 DEF IInv, Shape
<1>8. ListInv'
  BY <1>2, <1>3, <1>5, <1>6 DEF IInv, ListInv, NoList
<1>9. ASSUME NEW o \in Op, o # op
      PROVE  Keeps(o)
  <2>1. \A r \in Thread : o \in Range(clean_up'[r]) <=> o \in Range(clean_up[r])
    BY <1>6, <1>9
  <2>2. AnsweredBy(o)' = AnsweredBy(o)
    BY <1>2, <1>3, <1>9, <2>1 DEF AnsweredBy
  <2> QED  BY <2>2 DEF Keeps
<1>10. PassesOn(op)
  <2>1. \A r \in Thread : op \in Range(clean_up'[r]) <=> r = t
    BY <1>4, <1>6
  <2>2. AnsweredBy(op)' = {t}
    BY <1>2, <1>3, <1>4, <2>1 DEF AnsweredBy
  <2> QED  BY <1>4, <2>2 DEF PassesOn
<1>11. DoneInv'
  BY <1>4, <1>9, <1>10, DoneKept
<1> QED  BY <1>5, <1>7, <1>8, <1>11 DEF IInv

(* The loop body of FlushUnlocked on an attempt that is not cancelled.     *)
LEMMA AttemptMoves ==
    ASSUME IInv, NEW t \in Thread, TryAttempt(t)
    PROVE  IInv'
<1>1. PICK op : op = Head(Attempts)
  OBVIOUS
<1>2. PICK out \in RunCallback(op) :
         /\ queues_' = out.queues_ /\ closed_' = out.closed_
         /\ elements_requested' = [elements_requested EXCEPT ![op] = out.elements_requested]
         /\ IF out.run = "kComplete"
            THEN /\ clean_up' = [clean_up EXCEPT ![t] = Append(@, op)]
                 /\ PopAttempt /\ changed' = "yes"
                 /\ UNCHANGED <<mu_, attempting, pc>>
            ELSE /\ LeavesLoop(t, IF out.run = "kProgress" THEN "yes" ELSE changed)
                 /\ UNCHANGED <<clean_up, enqueue_attempts_, dequeue_attempts_>>
  BY <1>1 DEF TryAttempt
<1>3. /\ mu_ = t /\ Attempts # <<>> /\ is_cancelled[op] = "no"
      /\ UNCHANGED <<workload, is_cancelled, calls, cur>>
      /\ DOMAIN elements_requested = Op
  BY <1>1 DEF TryAttempt, StillWanted, IInv, Shape
<1>4. DOMAIN elements_requested' = Op
  BY <1>2, <1>3
<1>5. CASE out.run = "kComplete"
  BY <1>1, <1>2, <1>3, <1>4, <1>5, Completes
<1>6. CASE out.run # "kComplete"
  <2>1. PICK p : p = IF out.run = "kProgress" THEN "yes" ELSE changed
    OBVIOUS
  <2>2. /\ LeavesLoop(t, p) /\ UNCHANGED <<clean_up, enqueue_attempts_, dequeue_attempts_>>
    BY <1>2, <1>6, <2>1
  <2>3. ASSUME p = "no"
        PROVE  /\ Stuck(op) /\ UNCHANGED <<queues_, closed_>>
               /\ \A o \in Op : elements_requested'[o] = elements_requested[o]
    <3>1. out.run # "kProgress"
      BY <2>1, <2>3
    <3> QED  BY <1>2, <1>3, <1>6, <3>1, RunFacts
  <2>4. /\ Range(enqueue_attempts_) \subseteq Op /\ Range(dequeue_attempts_) \subseteq Op
        /\ enqueue_attempts_ # <<>> => Head(enqueue_attempts_) \in Op
        /\ dequeue_attempts_ # <<>> => Head(dequeue_attempts_) \in Op
    BY Held, Setting, SetOfTail DEF IInv, Shape, Attempted
  <2>5. ASSUME p = "no", NEW o \in Op
        PROVE  Stuck(o)' <=> Stuck(o)
    BY <1>3, <2>3, <2>5, Fixed DEF Stuck, Room, CannotBeFilled, IsEnqueue
  <2>6. p = "no" => (Waits(enqueue_attempts_) => Waits(enqueue_attempts_)')
    BY <1>3, <2>2, <2>4, <2>5 DEF Waits
  <2>7. p = "no" /\ attempting = "kEnqueue" => Waits(enqueue_attempts_)'
    BY <1>1, <1>3, <2>2, <2>3, <2>4, <2>5 DEF Waits, Attempts
  <2>8. p = "no" /\ attempting = "kDequeue" => Waits(dequeue_attempts_)'
    BY <1>1, <1>3, <2>2, <2>3, <2>4, <2>5 DEF Waits, Attempts
  <2> QED  BY <1>3, <1>4, <2>2, <2>6, <2>7, <2>8, LeavesKeeps
<1> QED  BY <1>5, <1>6

-----------------------------------------------------------------------------
INSTANCE FiniteSetTheorems

(* The list of the enqueues that CloseAndCancel moves out.                 *)
LEMMA CancelledList ==
    ASSUME IInv,
           NEW order \in InOrder({i \in DOMAIN enqueue_attempts_ :
                                     enqueue_attempts_[i] \in PendingEnqueues}),
           NEW list, list = [i \in DOMAIN order |-> enqueue_attempts_[order[i]]]
    PROVE  /\ list \in Seq(Attempted) /\ Distinct(list)
           /\ \A o : o \in Range(list) <=> o \in PendingEnqueues
<1> DEFINE P == {i \in DOMAIN enqueue_attempts_ : enqueue_attempts_[i] \in PendingEnqueues}
           n == Cardinality(P)
<1>1. /\ enqueue_attempts_ \in Seq(Enqueues) /\ DOMAIN enqueue_attempts_ = 1..Len(enqueue_attempts_)
      /\ Len(enqueue_attempts_) \in Nat
  BY SMT DEF IInv, Shape
<1>2. n \in Nat
  <2>1. IsFiniteSet(1..Len(enqueue_attempts_))
    BY SMT, <1>1, FS_Interval
  <2>2. IsFiniteSet(P)
    BY <1>1, <2>1, FS_Subset
  <2> QED  BY <2>2, FS_CardinalityType
<1>3. /\ order \in [1..n -> P] /\ Range(order) = P /\ DOMAIN order = 1..n
      /\ \A i, j \in 1..n : i < j => order[i] < order[j]
  BY DEF InOrder
<1>4. \A i \in P : i \in DOMAIN enqueue_attempts_ /\ enqueue_attempts_[i] \in PendingEnqueues
                   /\ enqueue_attempts_[i] \in Attempted /\ i \in Int
  BY SMT, <1>1 DEF Attempted
<1>5. \A x \in PendingEnqueues : \E i \in P : x = enqueue_attempts_[i]
  BY DEF PendingEnqueues, Range
<1> HIDE DEF n, P
<1>6. list \in Seq(Attempted) /\ DOMAIN list = 1..n
  BY SMT, <1>2, <1>3, <1>4
<1>7. Distinct(list)
  <2> SUFFICES ASSUME NEW i \in 1..n, NEW j \in 1..n, list[i] = list[j]
               PROVE  i = j
    BY SMT, <1>6 DEF Distinct
  <2>1. order[i] \in P /\ order[j] \in P
    BY <1>3
  <2>2. enqueue_attempts_[order[i]] = enqueue_attempts_[order[j]]
    BY <1>3
  <2>3. order[i] = order[j]
    BY <1>4, <2>1, <2>2 DEF IInv, ListInv, Distinct
  <2>4. order[i] \in Int /\ order[j] \in Int
    BY <1>4, <2>1
  <2> QED  BY SMT, <1>2, <1>3, <2>3, <2>4
<1>8. \A o : o \in Range(list) <=> o \in PendingEnqueues
  <2>1. \A k \in P : \E i \in 1..n : order[i] = k
    BY <1>3 DEF Range
  <2>2. ASSUME NEW o \in PendingEnqueues
        PROVE  o \in Range(list)
    <3>1. PICK k \in P : o = enqueue_attempts_[k]
      BY <1>5
    <3>2. PICK i \in 1..n : order[i] = k
      BY <2>1
    <3>3. list[i] = o
      BY <1>3, <3>1, <3>2
    <3> QED  BY <1>6, <3>3 DEF Range
  <2>3. ASSUME NEW i \in 1..n
        PROVE  list[i] \in PendingEnqueues
    BY <1>3, <1>4
  <2> QED  BY <1>6, <2>2, <2>3 DEF Range
<1> QED  BY <1>6, <1>7, <1>8

(* CloseAndCancel moves the done callbacks of the enqueues that wait to a  *)
(* list of its own, and will call its own after them.                      *)
LEMMA RevokeMoves ==
    ASSUME IInv, NEW op \in Op, CloseAndCancel(op)
    PROVE  IInv'
<1>0. /\ Op \subseteq Thread /\ Step \subseteq Thread /\ \A o \in Op : o \notin Step
      /\ op \in Thread /\ DOMAIN pc = Thread /\ Nobody \notin Thread
      /\ clean_up \in [Thread -> Seq(Attempted)]
      /\ \A o \in Attempted : kind[o] # "CloseAndCancel"
  BY Setting DEF IInv, Shape
<1>1. /\ pc[op] = "idle" /\ mu_ = Nobody /\ kind[op] = "CloseAndCancel"
      /\ is_cancelled' = [o \in Op |-> IF o \in PendingEnqueues THEN "yes" ELSE is_cancelled[o]]
      /\ pc' = [pc EXCEPT ![op] = "calling"]
      /\ UNCHANGED <<workload, enqueue_attempts_, dequeue_attempts_, elements_requested,
                     calls, cur, mu_>>
  BY DEF CloseAndCancel, CanStart, Goto, flush
<1>2. PICK list : /\ clean_up' = [clean_up EXCEPT ![op] = list]
                  /\ list \in Seq(Attempted) /\ Distinct(list)
                  /\ \A o : o \in Range(list) <=> o \in PendingEnqueues
  <2>1. PICK order \in InOrder({i \in DOMAIN enqueue_attempts_ :
                                   enqueue_attempts_[i] \in PendingEnqueues}) :
           clean_up' = [clean_up EXCEPT ![op] =
                          [i \in DOMAIN order |-> enqueue_attempts_[order[i]]]]
    BY DEF CloseAndCancel
  <2> QED  BY <2>1, CancelledList
<1>3. /\ kind' = kind /\ Op' = Op /\ Step' = Step /\ Thread' = Thread
      /\ Enqueues' = Enqueues /\ Dequeues' = Dequeues /\ Attempted' = Attempted
  BY <1>1, Fixed
<1>4. FlushInv'
  BY <1>0, <1>1, OwesFlush
<1>5. /\ pc'[op] = "calling" /\ \A r \in Thread : r # op => pc'[r] = pc[r]
      /\ clean_up'[op] = list /\ \A r \in Thread : r # op => clean_up'[r] = clean_up[r]
      /\ DOMAIN pc' = Thread /\ DOMAIN is_cancelled' = Op
      /\ clean_up' \in [Thread -> Seq(Attempted)]
  BY <1>0, <1>1, <1>2
<1>6. clean_up[op] = <<>> /\ Range(clean_up[op]) = {}
  BY SMT, <1>0, <1>1 DEF IInv, ListInv, NoList, Range
<1>7. ASSUME NEW o, o \in PendingEnqueues
      PROVE  /\ InDeques(o) /\ o \in Op /\ pc[o] # "idle" /\ AnsweredBy(o) # {}
             /\ kind[o] # "CloseAndCancel" /\ is_cancelled'[o] = "yes"
             /\ \A t \in Thread : o \notin Range(clean_up[t])
             /\ \A r \in Step : cur[r] # o
  <2>1. InDeques(o) /\ is_cancelled[o] = "no"
    BY <1>7 DEF PendingEnqueues, InDeques
  <2> QED  BY <1>1, <1>7, <2>1, WaitsAlone
<1>8. Shape'
  BY <1>1, <1>3, <1>5 DEF IInv, Shape
<1>9. ListInv'
  <2>1. \A o \in Op : pc'[o] = "idle" => is_cancelled'[o] = "no"
    BY <1>0, <1>1, <1>5, <1>7 DEF IInv, ListInv
  <2>2. \A t \in Thread : Distinct(clean_up'[t]) /\ (pc'[t] \in NoList => clean_up'[t] = <<>>)
    BY <1>2, <1>5 DEF IInv, ListInv, NoList
  <2>3. \A s \in Step : pc'[s] = "callback" <=> cur'[s] # Nobody
    BY <1>0, <1>1, <1>5 DEF IInv, ListInv
  <2> QED  BY <1>1, <1>3, <2>1, <2>2, <2>3 DEF IInv, ListInv
<1>10. ASSUME NEW o \in Op, o # op, o \notin PendingEnqueues
       PROVE  Keeps(o)
  <2>1. is_cancelled'[o] = is_cancelled[o] /\ pc'[o] = pc[o]
    BY <1>0, <1>1, <1>5, <1>10
  <2>2. \A t \in Thread : o \in Range(clean_up'[t]) <=> o \in Range(clean_up[t])
    BY <1>2, <1>5, <1>6, <1>10
  <2>3. AnsweredBy(o)' = AnsweredBy(o)
    BY <1>1, <1>3, <2>1, <2>2 DEF AnsweredBy, InDeques
  <2> QED  BY <1>1, <2>1, <2>3 DEF Keeps
<1>11. ASSUME NEW o \in PendingEnqueues
       PROVE  PassesOn(o)
  <2>1. \A t \in Thread : o \in Range(clean_up'[t]) <=> t = op
    BY <1>2, <1>5, <1>7
  <2>2. AnsweredBy(o)' = {op}
    <3>1. ASSUME NEW x
          PROVE  x \in AnsweredBy(o)' <=> x = op
      BY <1>0, <1>1, <1>3, <1>7, <2>1 DEF AnsweredBy
    <3> QED  BY <3>1
  <2>3. pc'[o] # "idle"
    BY <1>0, <1>5, <1>7
  <2> QED  BY <1>1, <1>7, <2>2, <2>3 DEF PassesOn
<1>12. PassesOn(op)
  <2>1. AnsweredBy(op) = {} /\ op \notin PendingEnqueues
    BY <1>1, <1>7, NewOp
  <2>2. \A t \in Thread : op \notin Range(clean_up'[t])
    BY <1>2, <1>5, <2>1 DEF AnsweredBy
  <2>3. AnsweredBy(op)' = {op}
    <3>1. ~InDeques(op) /\ \A s \in Step : cur[s] # op
      BY <1>1, <2>1, NewOp DEF AnsweredBy
    <3> QED  BY <1>1, <1>3, <1>5, <2>2, <3>1 DEF AnsweredBy, InDeques
  <2> QED  BY <1>1, <1>5, <2>3 DEF PassesOn
<1>13. DoneInv'
  BY <1>1, <1>10, <1>11, <1>12, DoneKept
<1> QED  BY <1>4, <1>8, <1>9, <1>13 DEF IInv

-----------------------------------------------------------------------------
(* Every step keeps the invariant.                                         *)
LEMMA NextInv == IInv /\ [Next]_vars => IInv'
<1> SUFFICES ASSUME IInv, [Next]_vars
             PROVE  IInv'
  OBVIOUS
<1>1. CASE UNCHANGED vars \/ ClearContainer \/ Terminated
  <2>1. Still /\ UNCHANGED <<pc, clean_up, cur, calls, mu_, attempting, changed>>
    BY <1>1 DEF vars, ClearContainer, Terminated, qvars, attempt, flush, outcome, threads, Still
  <2> QED  BY <2>1, Untouched
<1>2. ASSUME NEW op \in Op, OpStep(op)
      PROVE  IInv'
  <2>1. op \in Thread
    BY Setting DEF IInv
  <2> QED  BY <1>2, <2>1, KernelMoves, JoinMoves, RevokeMoves, ListMoves DEF OpStep
<1>3. ASSUME NEW t \in Thread, StepOf(t)
      PROVE  IInv'
  BY <1>3, LockMoves, SkipMoves, NoneLeftMoves, AttemptMoves, ListMoves DEF StepOf
<1>4. ASSUME NEW s \in Step, StartStep(s) \/ EndStep(s) \/ StartCancel(s) \/ CancelStep(s)
      PROVE  IInv'
  BY <1>4, StepMoves, CancelMoves DEF CancelStep
<1> QED  BY <1>1, <1>2, <1>3, <1>4 DEF Next

(* The invariant holds in every reachable state, for every workload.       *)
THEOREM Invariance == Spec => []IInv
BY InitInv, NextInv, PTL DEF Spec

(* No wakeup is lost in FlushUnlocked: when no thread is about to call it, *)
(* the attempts at the front of both deques cannot go on, whatever         *)
(* enqueues, dequeues, Close, CloseAndCancel and Cancel came before.       *)
THEOREM NoWakeupIsLost == Spec => []NothingLeftUndone
<1>1. ASSUME NEW op, Stuck(op)
      PROVE  RunCallback(op) = NoProgress(op)
  BY <1>1 DEF Stuck, RunCallback, RunEnqueue, RunDequeue
<1>2. IInv => NothingLeftUndone
  BY <1>1 DEF IInv, FlushInv, Waits, NothingLeftUndone, Blocked
<1> QED  BY <1>2, Invariance, PTL

(* The done callback of a kernel is called exactly once, by the thread     *)
(* whose flush completes its attempt, by the one that cancels it, or at    *)
(* once; until then exactly one place is responsible for the call.         *)
THEOREM CallbacksOnce == Spec => []DoneExactlyOnce
<1>1. ASSUME IInv, NEW op \in Op, kind[op] # "Size"
      PROVE  /\ calls[op] <= 1
             /\ Cardinality(AnsweredBy(op)) =
                   IF pc[op] = "idle" \/ calls[op] = 1 THEN 0 ELSE 1
  <2>1. DoneOf(op) /\ calls[op] \in Nat
    BY <1>1 DEF IInv, DoneInv, Shape
  <2>2. CASE pc[op] = "idle" \/ calls[op] = 1
    <3>1. AnsweredBy(op) = {}
      BY SMT, <2>1, <2>2 DEF DoneOf
    <3> QED  BY <2>1, <2>2, <3>1, FS_EmptySet DEF DoneOf
  <2>3. CASE ~(pc[op] = "idle" \/ calls[op] = 1)
    <3>1. PICK x \in AnsweredBy(op) : AnsweredBy(op) = {x}
      BY SMT, <2>1, <2>3 DEF DoneOf
    <3> QED  BY <2>1, <2>3, <3>1, FS_Singleton DEF DoneOf
  <2> QED  BY <2>2, <2>3
<1>2. IInv => DoneExactlyOnce
  BY <1>1 DEF DoneExactlyOnce
<1> QED  BY <1>2, Invariance, PTL

=============================================================================
