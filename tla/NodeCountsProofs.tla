-------------------------- MODULE NodeCountsProofs --------------------------
(***************************************************************************)
(* NodeCounts for nodes with any number of inputs: the packed counts never *)
(* overflow, and a node is made ready once, when it is due.                *)
(***************************************************************************)
EXTENDS NodeCounts, TLAPS

(* SMT has half a minute for a step; a step meant for Zenon says so.       *)
USE SMTT(30)

(* A loop's merge has no control inputs: with one, ReadyWhenDue fails.     *)
NoControlledLoopMerge == \A s \in Shapes : IsLoopMerge(s) => s.control = 0

DataInputs == IF IsLoopMerge(shape) THEN 1 ELSE shape.data

(* What has arrived is bounded by the shape.                               *)
ArrivedInv ==
    /\ live + dead <= DataInputs
    /\ control <= shape.control
    /\ deadControl <= control
    /\ c.repr = CreateHandle(MaxPending(shape), MaxDead(shape))

(* While the node waits, its count says what has not arrived.              *)
WaitingInv ==
    IF phase = "waiting"
    THEN /\ exact.has_started = 0
         /\ exact.pending =
              IF IsMerge(shape)
              THEN 2 * (shape.control - control) + (IF live = 0 THEN 1 ELSE 0)
              ELSE shape.data + shape.control - live - dead - control
    ELSE /\ exact.has_started = 1
         /\ exact.pending <= 1
         /\ MaxDead(shape) > 0
         /\ Due

(* The dead inputs are counted until the node is ready.                    *)
DeadInv ==
    /\ exact.dead_count <= MaxDead(shape)
    /\ ~IsMerge(shape) => exact.dead_count = dead + deadControl
    /\ IsMerge(shape) /\ phase = "waiting" /\ exact.pending > 0 =>
          exact.dead_count = dead
    /\ MaxDead(shape) = 0 => readied = 0

IInv ==
    /\ TypeOK /\ ArrivedInv /\ WaitingInv /\ DeadInv
    /\ RepresentationIsExact /\ ReadyWhenDue

-----------------------------------------------------------------------------
(* Within the bounds for which CreateHandle chooses the packed counts,     *)
(* their arithmetic does not wrap.                                         *)
LEMMA NoWrap ==
    ASSUME NEW repr, NEW n \in Nat,
           repr = "large" \/ n <= kMaxCountForPackedCounts
    PROVE  Wrap(repr, n) = n
  BY DEF Wrap, kMaxCountForPackedCounts

(* What the proofs need to know of a shape and of its representation.      *)
LEMMA ShapeFacts ==
    ASSUME NEW s \in Shapes
    PROVE  /\ s.data \in Nat /\ s.control \in Nat
           /\ IsMerge(s) => s.data > 0
           /\ IsLoopMerge(s) => IsMerge(s) /\ s.data = 2
           /\ MaxDead(s) = s.data + s.control
           /\ IsMerge(s) => MaxPending(s) = 1 + 2 * s.control
           /\ ~IsMerge(s) => MaxPending(s) = s.data + s.control
           /\ MaxPending(s) \in Nat /\ MaxDead(s) \in Nat
  BY ShapesAssumption DEF MaxPending, MaxDead, IsMerge, IsLoopMerge

LEMMA HandleFacts ==
    ASSUME NEW s \in Shapes
    PROVE  LET repr == CreateHandle(MaxPending(s), MaxDead(s)) IN
           \/ repr = "large"
           \/ /\ repr = "packed"
              /\ MaxPending(s) <= kMaxCountForPackedCounts
              /\ MaxDead(s) <= kMaxCountForPackedCounts
  BY ShapeFacts DEF CreateHandle, kMaxCountForPackedCounts

(* A count, and that n is within the width of its representation.          *)
Counts ==
    [pending : Nat, dead_count : Nat, has_started : 0..1,
     repr : {"large", "packed"}]
Fits(r, n) == r.repr = "large" \/ n <= kMaxCountForPackedCounts

(* What the four kinds of arrival do to a count that has room for it.      *)
LEMMA LiveArrival ==
    ASSUME NEW r \in Counts
    PROVE  LET a == MergeLive(r) IN
           /\ a.count \in Counts /\ a.count.repr = r.repr
           /\ a.count.dead_count = r.dead_count
           /\ a.count.has_started = r.has_started
           /\ a.count.pending = IF r.has_started = 1 THEN r.pending
                                ELSE r.pending - (r.pending % 2)
           /\ a.ready <=> r.has_started = 0 /\ r.pending = 1
           /\ ~a.dead
  <1> DEFINE a == MergeLive(r)
             d == mark_live(r)
  <1>1. a.count = d /\ a.ready = (pending(r) = 1) /\ a.dead = FALSE
    BY DEF MergeLive, Arrival
  <1>2. NotReady(r) <=> r.has_started = 0 /\ r.pending > 0
    BY DEF NotReady, node_state, Counts
  <1>3. pending(r) = 1 <=> r.has_started = 0 /\ r.pending = 1
    BY <1>2 DEF pending, Counts
  <1> DEFINE k == r.pending - (r.pending % 2)
  <1>4. k \in Nat /\ (r.pending = 0 => k = 0)
    BY DEF Counts
  <1>5. /\ d \in Counts /\ d.repr = r.repr
        /\ d.dead_count = r.dead_count /\ d.has_started = r.has_started
        /\ d.pending = IF r.has_started = 1 THEN r.pending ELSE k
    <2>1. d = IF NotReady(r) THEN [r EXCEPT !.pending = k] ELSE r
      BY DEF mark_live
    <2> HIDE DEF d, k
    <2> QED BY <1>2, <1>4, <2>1 DEF Counts
  <1> HIDE DEF a, d
  <1> QED BY Zenon, <1>1, <1>3, <1>5 DEF a

LEMMA DeadArrival ==
    ASSUME NEW r \in Counts, NEW n \in Nat, NEW b \in BOOLEAN,
           r.has_started = 0 /\ r.pending > 0 => Fits(r, r.dead_count + 1)
    PROVE  LET a == MergeDead(r, n, b) IN
           /\ a.count \in Counts /\ a.count.repr = r.repr
           /\ a.count.dead_count = IF r.has_started = 0 /\ r.pending > 0
                                   THEN r.dead_count + 1 ELSE r.dead_count
           /\ a.count.has_started = r.has_started
           /\ a.count.pending = r.pending
           /\ a.dead <=> a.count.dead_count = n \/ b
           /\ a.ready <=> r.has_started = 0 /\ r.pending = 1 /\ a.dead
  <1> DEFINE a == MergeDead(r, n, b)
             d == increment_dead_count(r)
  <1>1. /\ a.count = d
        /\ a.dead = (d.dead_count = n \/ b)
        /\ a.ready = (pending(d) = 1 /\ (d.dead_count = n \/ b))
    BY DEF MergeDead, Arrival
  <1>2. r.has_started = 0 /\ r.pending > 0 =>
          Wrap(r.repr, r.dead_count + 1) = r.dead_count + 1
    BY NoWrap DEF Fits, Counts
  <1>3. /\ d \in Counts /\ d.repr = r.repr
        /\ d.dead_count = IF r.has_started = 0 /\ r.pending > 0
                          THEN r.dead_count + 1 ELSE r.dead_count
        /\ d.has_started = r.has_started
        /\ d.pending = r.pending
    BY <1>2 DEF Counts, increment_dead_count, NotReady, node_state
  <1>4. pending(d) = 1 <=> r.has_started = 0 /\ r.pending = 1
    BY <1>3 DEF Counts, pending, NotReady, node_state
  <1> HIDE DEF a, d
  <1> QED BY Zenon, <1>1, <1>3, <1>4 DEF a

LEMMA ControlArrival ==
    ASSUME NEW r \in Counts, NEW n \in Nat, r.pending >= 2,
           Fits(r, r.pending)
    PROVE  LET a == MergeControl(r, n) IN
           /\ a.count \in Counts /\ a.count.repr = r.repr
           /\ a.count.dead_count = r.dead_count
           /\ a.count.has_started = r.has_started
           /\ a.count.pending = r.pending - 2
           /\ a.dead <=> r.dead_count = n
           /\ r.has_started = 0 =>
                (a.ready <=> r.pending = 2 \/ (r.pending = 3 /\ r.dead_count = n))
  <1> DEFINE a == MergeControl(r, n)
             d == decrement_pending(r, 2)
             k == pending(d)
  <1>1. /\ a.count = d
        /\ a.dead = (d.dead_count = n)
        /\ a.ready = (k = 0 \/ (k = 1 /\ d.dead_count = n))
    BY DEF MergeControl, Arrival
  <1>2. r.pending - 2 \in Nat /\ Wrap(r.repr, r.pending - 2) = r.pending - 2
    BY NoWrap DEF Fits, Counts, kMaxCountForPackedCounts
  <1>3. /\ d \in Counts /\ d.repr = r.repr
        /\ d.dead_count = r.dead_count /\ d.has_started = r.has_started
        /\ d.pending = r.pending - 2
    BY <1>2 DEF Counts, decrement_pending
  <1>4. r.has_started = 0 => (k = 0 <=> r.pending = 2) /\ (k = 1 <=> r.pending = 3)
    BY <1>3 DEF Counts, pending, NotReady, node_state
  <1> HIDE DEF a, d, k
  <1> QED BY Zenon, <1>1, <1>3, <1>4 DEF a

LEMMA PlainArrival ==
    ASSUME NEW r \in Counts, NEW b \in BOOLEAN, NEW need,
           r.pending >= 1, r.has_started = 0,
           Fits(r, r.pending), Fits(r, r.dead_count + 1)
    PROVE  LET a == NotMerge(r, b, need) IN
           /\ a.count \in Counts /\ a.count.repr = r.repr
           /\ a.count.dead_count = IF b THEN r.dead_count + 1 ELSE r.dead_count
           /\ a.count.has_started = 0
           /\ a.count.pending = r.pending - 1
           /\ a.dead <=> a.count.dead_count > 0
           /\ a.ready <=> r.pending = 1
  <1> DEFINE a == NotMerge(r, b, need)
             d == adjust_for_activation(r, b)
  <1>1. a.count = d /\ a.ready = (d.pending = 0) /\ a.dead = (d.dead_count > 0)
    BY DEF NotMerge, Arrival
  <1>2. NotReady(r)
    BY DEF NotReady, node_state, Counts
  <1>3. /\ r.pending - 1 \in Nat /\ Wrap(r.repr, r.pending - 1) = r.pending - 1
        /\ Wrap(r.repr, r.dead_count + 1) = r.dead_count + 1
    BY NoWrap DEF Fits, Counts, kMaxCountForPackedCounts
  <1>4. /\ d \in Counts /\ d.repr = r.repr
        /\ d.dead_count = IF b THEN r.dead_count + 1 ELSE r.dead_count
        /\ d.has_started = 0
        /\ d.pending = r.pending - 1
    <2> DEFINE k == r.pending - 1
               m == r.dead_count + 1
    <2>0. k \in Nat /\ m \in Nat
      BY <1>3 DEF Counts
    <2>1. CASE b
      <3>1. d = [r EXCEPT !.dead_count = m, !.pending = k]
        BY Zenon, <1>2, <1>3, <2>1 DEF adjust_for_activation
      <3> HIDE DEF d, k, m
      <3>2. /\ d \in Counts /\ d.repr = r.repr /\ d.has_started = 0
            /\ d.dead_count = m /\ d.pending = k
        BY Zenon, <2>0, <3>1 DEF Counts
      <3> QED BY <2>1, <3>2 DEF k, m
    <2>2. CASE ~b
      <3>1. d = [r EXCEPT !.pending = k]
        BY Zenon, <1>3, <2>2 DEF adjust_for_activation, Counts
      <3> HIDE DEF d, k
      <3>2. /\ d \in Counts /\ d.repr = r.repr /\ d.has_started = 0
            /\ d.dead_count = r.dead_count /\ d.pending = k
        BY <2>0, <3>1 DEF Counts
      <3> QED BY <2>2, <3>2 DEF k
    <2> QED BY <2>1, <2>2
  <1> HIDE DEF a, d
  <1>5. d.pending = 0 <=> r.pending = 1
    BY <1>4 DEF Counts
  <1> QED BY Zenon, <1>1, <1>4, <1>5 DEF a

LEMMA InitInv == Init => IInv
  <1> SUFFICES ASSUME Init PROVE IInv
    OBVIOUS
  <1> DEFINE repr == CreateHandle(MaxPending(shape), MaxDead(shape))
             n == MaxPending(shape)
  <1>1. shape \in Shapes /\ n \in Nat
    BY ShapeFacts DEF Init
  <1>2. repr \in {"large", "packed"}
        /\ (repr = "large" \/ n <= kMaxCountForPackedCounts)
    BY <1>1, HandleFacts
  <1>3. /\ c = [pending |-> Wrap(repr, n), dead_count |-> 0,
                has_started |-> 0, repr |-> repr]
        /\ exact = [pending |-> Wrap("large", n), dead_count |-> 0,
                    has_started |-> 0, repr |-> "large"]
    BY DEF Init, set_initial_count
  <1> HIDE DEF repr, n
  <1>4. Wrap(repr, n) = n /\ Wrap("large", n) = n
    BY <1>1, <1>2, NoWrap
  <1>5. TypeOK
    BY <1>1, <1>2, <1>3, <1>4 DEF TypeOK, Init
  <1>6. ArrivedInv
    BY <1>1, <1>3, ShapeFacts DEF ArrivedInv, DataInputs, Init, repr
  <1>7. WaitingInv /\ DeadInv
    BY <1>1, <1>3, <1>4, ShapeFacts DEF WaitingInv, DeadInv, Init, n
  <1>8. RepresentationIsExact
    BY <1>3, <1>4 DEF RepresentationIsExact
  <1>9. ReadyWhenDue
    BY <1>1, ShapeFacts DEF ReadyWhenDue, Due, Init
  <1> QED BY <1>5, <1>6, <1>7, <1>8, <1>9 DEF IInv

(* The two counts in the invariant, field by field.                        *)
LEMMA CountFacts ==
    ASSUME IInv
    PROVE  /\ c \in Counts /\ exact \in Counts /\ exact.repr = "large"
           /\ c.pending = exact.pending /\ c.dead_count = exact.dead_count
           /\ c.has_started = exact.has_started
           /\ exact.pending <= MaxPending(shape)
           /\ \A n \in Nat : n <= MaxPending(shape) \/ n <= MaxDead(shape) =>
                 Fits(c, n) /\ Fits(exact, n)
  <1>1. /\ c \in Counts /\ exact \in Counts /\ exact.repr = "large"
        /\ shape \in Shapes
    BY DEF IInv, TypeOK, Counts
  <1>2. /\ c.pending = exact.pending /\ c.dead_count = exact.dead_count
        /\ c.has_started = exact.has_started
    BY <1>1 DEF IInv, RepresentationIsExact, Counts
  <1>3. exact.pending <= MaxPending(shape)
    BY <1>1, ShapeFacts DEF IInv, TypeOK, ArrivedInv, WaitingInv, Counts,
       IsMerge, IsLoopMerge
  <1>4. c.repr = "large" \/ /\ MaxPending(shape) <= kMaxCountForPackedCounts
                            /\ MaxDead(shape) <= kMaxCountForPackedCounts
    BY <1>1, HandleFacts DEF IInv, ArrivedInv
  <1>5. ASSUME NEW n \in Nat, n <= MaxPending(shape) \/ n <= MaxDead(shape)
        PROVE  Fits(c, n) /\ Fits(exact, n)
    BY <1>1, <1>4, <1>5, ShapeFacts DEF Fits, kMaxCountForPackedCounts
  <1> QED BY <1>1, <1>2, <1>3, <1>5

(* The same arrival on the two counts keeps them equal.                    *)
LEMMA ArrivalStep ==
    ASSUME IInv, NEW a, NEW b, Apply(a, b),
           a.count \in Counts, b.count \in Counts,
           a.count.repr = c.repr, b.count.repr = "large",
           a.count.pending = b.count.pending,
           a.count.dead_count = b.count.dead_count,
           a.count.has_started = b.count.has_started,
           live' \in Nat, dead' \in Nat, control' \in Nat,
           deadControl' \in Nat
    PROVE  /\ TypeOK' /\ RepresentationIsExact'
           /\ c'.repr = c.repr /\ exact' = b.count
           /\ shape' = shape /\ phase' = phase
           /\ readied' = (IF a.ready THEN readied + 1 ELSE readied)
           /\ verdict' = (IF ~a.ready THEN verdict
                          ELSE IF a.dead THEN "dead" ELSE "live")
  <1>1. /\ c' = a.count /\ exact' = b.count
        /\ shape' = shape /\ phase' = phase
        /\ readied' = (IF a.ready THEN readied + 1 ELSE readied)
        /\ verdict' = (IF ~a.ready THEN verdict
                       ELSE IF a.dead THEN "dead" ELSE "live")
    BY DEF Apply
  <1>2. c' \in Counts /\ exact' \in Counts /\ exact'.repr = "large"
    BY <1>1
  <1>3. readied' \in Nat /\ verdict' \in {"none", "live", "dead"}
    BY <1>1 DEF IInv, TypeOK
  <1>4. TypeOK'
    BY <1>1, <1>2, <1>3 DEF TypeOK, IInv, Counts
  <1>5. RepresentationIsExact'
    BY <1>1, <1>2 DEF RepresentationIsExact, Counts
  <1> QED BY <1>1, <1>4, <1>5

LEMMA Parity == \A k \in Nat : (2 * k) % 2 = 0 /\ (2 * k + 1) % 2 = 1
  OBVIOUS

(* One step of each arrival, for the two kinds of node.                    *)
LEMMA PlainStep ==
    ASSUME IInv, ~IsMerge(shape), NEW dies \in BOOLEAN, NEW need,
           Apply(NotMerge(c, dies, need), NotMerge(exact, dies, need)),
           NEW dl \in 0..1, NEW dd \in 0..1, NEW dk \in 0..1, NEW dx \in 0..1,
           live' = live + dl, dead' = dead + dd, control' = control + dk,
           deadControl' = deadControl + dx,
           dl + dd + dk = 1, dx <= dk, dies <=> dd + dx = 1,
           live' + dead' <= shape.data, control' <= shape.control
    PROVE  IInv'
  <1> DEFINE a == NotMerge(c, dies, need)
             b == NotMerge(exact, dies, need)
  <1>1. /\ shape \in Shapes /\ live \in Nat /\ dead \in Nat
        /\ control \in Nat /\ deadControl \in Nat /\ readied \in Nat
        /\ shape.data \in Nat /\ shape.control \in Nat
        /\ MaxDead(shape) = shape.data + shape.control
        /\ MaxPending(shape) = shape.data + shape.control
        /\ ~IsLoopMerge(shape)
    BY ShapeFacts DEF IInv, TypeOK
  <1>2. phase = "waiting"
    BY <1>1 DEF IInv, WaitingInv, Due
  <1>3. /\ exact.has_started = 0
        /\ exact.pending = shape.data + shape.control - live - dead - control
        /\ exact.pending >= 1
        /\ exact.dead_count = dead + deadControl
        /\ dead + deadControl + 1 <= MaxDead(shape)
    <2>1. /\ exact.has_started = 0
          /\ exact.pending = shape.data + shape.control - live - dead - control
          /\ exact.dead_count = dead + deadControl
          /\ deadControl <= control
      BY <1>2 DEF IInv, WaitingInv, DeadInv, ArrivedInv
    <2> QED BY <1>1, <2>1
  <1>4. /\ Fits(c, c.pending) /\ Fits(exact, exact.pending)
        /\ Fits(c, c.dead_count + 1) /\ Fits(exact, exact.dead_count + 1)
    BY <1>1, <1>3, CountFacts DEF Counts
  <1>5. /\ b.count.pending = exact.pending - 1
        /\ b.count.dead_count = dead' + deadControl'
        /\ b.count.has_started = 0
        /\ a.ready <=> exact.pending = 1
        /\ a.dead <=> dead' + deadControl' > 0
        /\ a.count \in Counts /\ b.count \in Counts
        /\ a.count.repr = c.repr /\ b.count.repr = "large"
        /\ a.count.pending = b.count.pending
        /\ a.count.dead_count = b.count.dead_count
        /\ a.count.has_started = b.count.has_started
    BY <1>1, <1>3, <1>4, CountFacts, PlainArrival
  <1> HIDE DEF a, b
  <1>6. /\ TypeOK' /\ RepresentationIsExact'
        /\ c'.repr = c.repr /\ exact' = b.count
        /\ shape' = shape /\ phase' = phase
        /\ readied' = (IF a.ready THEN readied + 1 ELSE readied)
        /\ verdict' = (IF ~a.ready THEN verdict
                       ELSE IF a.dead THEN "dead" ELSE "live")
    <2>1. /\ live' \in Nat /\ dead' \in Nat /\ control' \in Nat
          /\ deadControl' \in Nat
      BY <1>1
    <2>2. Apply(a, b)
      BY DEF a, b
    <2> QED BY <1>5, <2>1, <2>2, ArrivalStep
  <1>7. ArrivedInv'
    BY <1>1, <1>6 DEF IInv, ArrivedInv, DataInputs
  <1>8. WaitingInv'
    <2>1. exact'.has_started = 0 /\ exact'.pending = exact.pending - 1
      BY <1>5, <1>6
    <2>2. exact.pending - 1 =
            shape.data + shape.control - live' - dead' - control'
      BY <1>1, <1>3
    <2> QED BY <1>2, <1>6, <2>1, <2>2 DEF WaitingInv
  <1>9. MaxDead(shape) > 0 /\ dead' + deadControl' <= MaxDead(shape)
    <2>1. deadControl' <= shape.control /\ dead' <= shape.data
      BY <1>1 DEF IInv, ArrivedInv
    <2> QED BY <1>1, <1>3, <2>1
  <1>10. DeadInv'
    BY <1>1, <1>5, <1>6, <1>9 DEF DeadInv
  <1>11. ReadyWhenDue'
    <2>1. ~Due /\ (Due' <=> exact.pending = 1)
      BY <1>1, <1>3, <1>6 DEF Due
    <2>2. DueDead' <=> dead' + deadControl' > 0
      BY <1>6 DEF DueDead
    <2> QED BY <1>1, <1>5, <1>6, <1>9, <2>1, <2>2 DEF IInv, ReadyWhenDue
  <1> QED BY <1>6, <1>7, <1>8, <1>10, <1>11 DEF IInv

LEMMA ArriveLiveInv ==
    ASSUME IInv, ArriveLive PROVE IInv'
  <1> USE CountFacts, ShapeFacts
  <1>1. /\ shape \in Shapes /\ live \in Nat /\ dead \in Nat
        /\ control \in Nat /\ deadControl \in Nat /\ readied \in Nat
        /\ live' = live + 1 /\ dead' = dead /\ control' = control
        /\ deadControl' = deadControl /\ DataLeft
    BY DEF ArriveLive, IInv, TypeOK
  <1>2. CASE IsMerge(shape)
    <2> DEFINE a == MergeLive(c)
               b == MergeLive(exact)
    <2>1. Apply(a, b)
      BY <1>2 DEF ArriveLive
    <2>2. /\ b.count.pending = IF exact.has_started = 1 THEN exact.pending
                               ELSE exact.pending - (exact.pending % 2)
          /\ b.count.dead_count = exact.dead_count
          /\ b.count.has_started = exact.has_started
          /\ a.ready <=> exact.has_started = 0 /\ exact.pending = 1
          /\ ~a.dead
          /\ a.count \in Counts /\ b.count \in Counts
          /\ a.count.repr = c.repr /\ b.count.repr = "large"
          /\ a.count.pending = b.count.pending
          /\ a.count.dead_count = b.count.dead_count
          /\ a.count.has_started = b.count.has_started
      BY LiveArrival
    <2> HIDE DEF a, b
    <2>3. /\ TypeOK' /\ RepresentationIsExact'
          /\ c'.repr = c.repr /\ exact' = b.count
          /\ shape' = shape /\ phase' = phase
          /\ readied' = (IF a.ready THEN readied + 1 ELSE readied)
          /\ verdict' = (IF ~a.ready THEN verdict
                         ELSE IF a.dead THEN "dead" ELSE "live")
      BY <1>1, <2>1, <2>2, ArrivalStep
    <2>4. ArrivedInv'
      BY <1>1, <2>3 DEF IInv, ArrivedInv, DataInputs, DataLeft
    <2>5. phase = "waiting" =>
            /\ exact.has_started = 0
            /\ b.count.pending = 2 * (shape.control - control)
            /\ a.ready <=> live = 0 /\ control = shape.control
      <3> SUFFICES ASSUME phase = "waiting" PROVE
            /\ exact.has_started = 0
            /\ b.count.pending = 2 * (shape.control - control)
            /\ a.ready <=> live = 0 /\ control = shape.control
        OBVIOUS
      <3> DEFINE k == shape.control - control
      <3>1. k \in Nat /\ exact.has_started = 0
            /\ exact.pending = 2 * k + (IF live = 0 THEN 1 ELSE 0)
        BY <1>1, <1>2 DEF IInv, WaitingInv, ArrivedInv
      <3>2. k = 0 <=> control = shape.control
        BY <1>1
      <3> HIDE DEF k
      <3>3. b.count.pending = 2 * k
        BY <2>2, <3>1, Parity
      <3>4. a.ready <=> live = 0 /\ k = 0
        BY <2>2, <3>1
      <3> QED BY <3>1, <3>2, <3>3, <3>4 DEF k
    <2>6. phase # "waiting" => Due /\ exact.has_started = 1 /\ ~a.ready
      BY <2>2 DEF IInv, WaitingInv
    <2>7. Due' <=> control = shape.control
      BY <1>1, <1>2, <2>3 DEF Due
    <2>8. WaitingInv'
      <3>1. CASE phase = "waiting"
        <4>1. exact'.has_started = 0
              /\ exact'.pending = 2 * (shape.control - control)
          BY <2>2, <2>3, <2>5, <3>1
        <4>2. live' # 0 /\ control' = control
          BY <1>1
        <4> QED BY <1>1, <1>2, <2>3, <3>1, <4>1, <4>2 DEF WaitingInv
      <3>2. CASE phase # "waiting"
        <4>1. /\ exact.pending <= 1 /\ MaxDead(shape) > 0 /\ Due
              /\ exact.has_started = 1
          BY <3>2 DEF IInv, WaitingInv
        <4>2. Due' /\ exact'.pending <= 1 /\ exact'.has_started = 1
          BY <2>2, <2>3, <2>7, <4>1 DEF Due
        <4> QED BY <2>3, <3>2, <4>1, <4>2 DEF WaitingInv
      <3> QED BY <3>1, <3>2
    <2>9. DeadInv'
      <3>1. exact'.dead_count = exact.dead_count /\ exact'.dead_count \in Nat
        BY <2>2, <2>3 DEF Counts
      <3>2. MaxDead(shape) > 0
        BY <1>1, <1>2
      <3>3. phase = "waiting" /\ exact'.pending > 0 => exact.pending > 0
        BY <1>1, <1>2, <2>3, <2>5 DEF IInv, WaitingInv, ArrivedInv
      <3> QED BY <1>1, <1>2, <2>3, <3>1, <3>2, <3>3 DEF IInv, DeadInv
    <2>10. ReadyWhenDue'
      <3>1. Due <=> control = shape.control /\ live > 0
        BY <1>1, <1>2 DEF Due, DataLeft
      <3>2. MaxDead(shape) > 0 /\ ~DueDead'
        BY <1>1, <1>2, <2>3 DEF DueDead
      <3>3. DueDead <=> live = 0
        BY <1>2 DEF DueDead
      <3> QED BY <1>1, <2>2, <2>3, <2>5, <2>6, <2>7, <3>1, <3>2, <3>3
              DEF IInv, ReadyWhenDue, Due
    <2> QED BY <2>3, <2>4, <2>8, <2>9, <2>10 DEF IInv
  <1>3. CASE ~IsMerge(shape)
    <2>1. Apply(NotMerge(c, FALSE, TRUE), NotMerge(exact, FALSE, TRUE))
      BY Zenon, <1>3 DEF ArriveLive
    <2>2. live' + dead' <= shape.data /\ control' <= shape.control
      BY <1>1, <1>3 DEF DataLeft, IInv, ArrivedInv
    <2>3. /\ live' = live + 1 /\ dead' = dead + 0 /\ control' = control + 0
          /\ deadControl' = deadControl + 0
      BY <1>1
    <2>4. /\ 1 + 0 + 0 = 1 /\ 0 <= 0 /\ (FALSE <=> 0 + 0 = 1)
          /\ 0 \in 0..1 /\ 1 \in 0..1
      OBVIOUS
    <2> QED BY <1>3, <2>1, <2>2, <2>3, <2>4, PlainStep, Zenon
  <1> QED BY <1>2, <1>3

LEMMA ArriveDeadInv ==
    ASSUME IInv, ArriveDead PROVE IInv'
  <1> USE CountFacts, ShapeFacts
  <1>1. /\ shape \in Shapes /\ live \in Nat /\ dead \in Nat
        /\ control \in Nat /\ deadControl \in Nat /\ readied \in Nat
        /\ live' = live /\ dead' = dead + 1 /\ control' = control
        /\ deadControl' = deadControl /\ DataLeft
    BY DEF ArriveDead, IInv, TypeOK
  <1>2. CASE IsMerge(shape)
    <2> DEFINE a == MergeDead(c, shape.data, IsLoopMerge(shape))
               b == MergeDead(exact, shape.data, IsLoopMerge(shape))
               waits == exact.has_started = 0 /\ exact.pending > 0
    <2>1. Apply(a, b) /\ IsLoopMerge(shape) \in BOOLEAN
      BY <1>2 DEF ArriveDead, IsLoopMerge
    <2>2. waits <=> phase = "waiting" /\ (live = 0 \/ control < shape.control)
      BY <1>1, <1>2 DEF IInv, WaitingInv, ArrivedInv
    <2>3. dead + 1 <= shape.data /\ dead + 1 <= MaxDead(shape)
      BY <1>1 DEF DataLeft
    <2>4. waits => exact.dead_count = dead /\ phase = "waiting"
      BY <1>1, <1>2, <2>2 DEF IInv, DeadInv
    <2>5. waits => Fits(c, c.dead_count + 1) /\ Fits(exact, exact.dead_count + 1)
      BY <1>1, <2>3, <2>4
    <2>6. /\ b.count.pending = exact.pending
          /\ b.count.dead_count = IF waits THEN dead + 1 ELSE exact.dead_count
          /\ b.count.has_started = exact.has_started
          /\ a.dead <=> b.count.dead_count = shape.data \/ IsLoopMerge(shape)
          /\ a.ready <=> exact.has_started = 0 /\ exact.pending = 1 /\ a.dead
          /\ a.count \in Counts /\ b.count \in Counts
          /\ a.count.repr = c.repr /\ b.count.repr = "large"
          /\ a.count.pending = b.count.pending
          /\ a.count.dead_count = b.count.dead_count
          /\ a.count.has_started = b.count.has_started
      <3>1. /\ a.count \in Counts /\ a.count.repr = c.repr
            /\ a.count.dead_count = IF waits THEN exact.dead_count + 1 ELSE exact.dead_count
            /\ a.count.has_started = exact.has_started /\ a.count.pending = exact.pending
            /\ a.dead <=> a.count.dead_count = shape.data \/ IsLoopMerge(shape)
            /\ a.ready <=> exact.has_started = 0 /\ exact.pending = 1 /\ a.dead
        BY <1>1, <2>1, <2>5, DeadArrival
      <3>2. /\ b.count \in Counts /\ b.count.repr = "large"
            /\ b.count.dead_count = IF waits THEN exact.dead_count + 1 ELSE exact.dead_count
            /\ b.count.has_started = exact.has_started /\ b.count.pending = exact.pending
        BY <1>1, <2>1, <2>5, DeadArrival
      <3> HIDE DEF a, b
      <3> QED BY <2>4, <3>1, <3>2
    <2> HIDE DEF a, b
    <2>7. /\ TypeOK' /\ RepresentationIsExact'
          /\ c'.repr = c.repr /\ exact' = b.count
          /\ shape' = shape /\ phase' = phase
          /\ readied' = (IF a.ready THEN readied + 1 ELSE readied)
          /\ verdict' = (IF ~a.ready THEN verdict
                         ELSE IF a.dead THEN "dead" ELSE "live")
      BY <1>1, <2>1, <2>6, ArrivalStep
    <2>8. ArrivedInv'
      BY <1>1, <2>7 DEF IInv, ArrivedInv, DataInputs, DataLeft
    <2>9. ~(dead = DataInputs) /\ DataInputs \in Nat
      BY <1>1 DEF DataLeft, DataInputs
    <2>10. (Due <=> control = shape.control /\ live > 0)
           /\ (Due' <=> control = shape.control
                        /\ (live > 0 \/ dead + 1 = DataInputs))
      BY <1>1, <1>2, <2>7, <2>9 DEF Due, DataInputs
    <2>11. WaitingInv'
      <3>1. CASE phase = "waiting"
        BY <1>1, <1>2, <2>6, <2>7, <3>1 DEF IInv, WaitingInv
      <3>2. CASE phase # "waiting"
        <4>1. /\ exact.pending <= 1 /\ MaxDead(shape) > 0 /\ Due
              /\ exact.has_started = 1
          BY <3>2 DEF IInv, WaitingInv
        <4>2. Due' /\ exact'.pending <= 1 /\ exact'.has_started = 1
          BY <2>6, <2>7, <2>10, <4>1
        <4> QED BY <2>7, <3>2, <4>1, <4>2 DEF WaitingInv
      <3> QED BY <3>1, <3>2
    <2>12. DeadInv'
      <3>1. exact'.dead_count <= MaxDead(shape) /\ MaxDead(shape) > 0
        BY <1>1, <1>2, <2>3, <2>6, <2>7 DEF IInv, DeadInv
      <3>2. phase = "waiting" /\ exact.pending > 0 => waits
        BY DEF IInv, WaitingInv
      <3> QED BY <1>1, <1>2, <2>6, <2>7, <3>1, <3>2 DEF DeadInv
    <2>13. ReadyWhenDue'
      <3>1. exact.has_started = 0 /\ exact.pending = 1 <=>
              phase = "waiting" /\ control = shape.control /\ live = 0
        BY <1>1, <1>2 DEF IInv, WaitingInv, ArrivedInv
      <3>2. phase # "waiting" => Due
        BY DEF IInv, WaitingInv
      <3>3. dead + 1 = DataInputs <=> dead + 1 = shape.data \/ IsLoopMerge(shape)
        BY <1>1 DEF DataInputs, DataLeft
      <3>4. a.ready <=> ~Due /\ Due'
        <4>1. CASE exact.has_started = 0 /\ exact.pending = 1
          BY <1>1, <2>6, <2>10, <3>1, <3>3, <4>1
        <4>2. CASE ~(exact.has_started = 0 /\ exact.pending = 1)
          BY <1>1, <2>6, <2>10, <3>1, <3>2, <4>2
        <4> QED BY <4>1, <4>2
      <3>5. Due => Due'
        BY <2>10
      <3>6. /\ MaxDead(shape) > 0
            /\ (DueDead <=> live = 0) /\ (DueDead' <=> live = 0)
        BY <1>1, <1>2, <2>7 DEF DueDead
      <3>7. a.ready => live = 0 /\ a.dead
        BY <2>6, <3>1
      <3> QED BY <1>1, <2>7, <3>4, <3>5, <3>6, <3>7 DEF IInv, ReadyWhenDue
    <2> QED BY <2>7, <2>8, <2>11, <2>12, <2>13 DEF IInv
  <1>3. CASE ~IsMerge(shape)
    <2>1. Apply(NotMerge(c, TRUE, TRUE), NotMerge(exact, TRUE, TRUE))
      BY Zenon, <1>3 DEF ArriveDead
    <2>2. live' + dead' <= shape.data /\ control' <= shape.control
      BY <1>1, <1>3 DEF DataLeft, IInv, ArrivedInv
    <2>3. /\ live' = live + 0 /\ dead' = dead + 1 /\ control' = control + 0
          /\ deadControl' = deadControl + 0
      BY <1>1
    <2>4. /\ 0 + 1 + 0 = 1 /\ 0 <= 0 /\ (TRUE <=> 1 + 0 = 1)
          /\ 0 \in 0..1 /\ 1 \in 0..1
      OBVIOUS
    <2> QED BY <1>3, <2>1, <2>2, <2>3, <2>4, PlainStep, Zenon
  <1> QED BY <1>2, <1>3

LEMMA ArriveControlInv ==
    ASSUME IInv, NoControlledLoopMerge, NEW from_dead \in BOOLEAN,
           ArriveControl(from_dead)
    PROVE  IInv'
  <1> USE CountFacts, ShapeFacts
  <1>1. /\ shape \in Shapes /\ live \in Nat /\ dead \in Nat
        /\ control \in Nat /\ deadControl \in Nat /\ readied \in Nat
        /\ live' = live /\ dead' = dead /\ control' = control + 1
        /\ control < shape.control
        /\ ~IsLoopMerge(shape)
    BY DEF ArriveControl, IInv, TypeOK, NoControlledLoopMerge
  <1>2. /\ from_dead => deadControl' = deadControl + 1
        /\ ~from_dead => deadControl' = deadControl
    BY DEF ArriveControl
  <1>3. /\ deadControl' \in Nat /\ deadControl' <= control'
        /\ live + dead <= shape.data /\ control' <= shape.control
    <2>1. deadControl <= control /\ live + dead <= shape.data
      BY <1>1 DEF IInv, ArrivedInv, DataInputs
    <2> QED BY <1>1, <1>2, <2>1
  <1>4. CASE IsMerge(shape)
    <2> DEFINE a == MergeControl(c, shape.data)
               b == MergeControl(exact, shape.data)
    <2>1. Apply(a, b)
      BY <1>4 DEF ArriveControl
    <2>2. phase = "waiting" /\ ~Due
      BY <1>1 DEF IInv, WaitingInv, Due
    <2>3. /\ exact.has_started = 0
          /\ exact.pending =
               2 * (shape.control - control) + (IF live = 0 THEN 1 ELSE 0)
      BY <1>4, <2>2 DEF IInv, WaitingInv
    <2>4. /\ exact.pending >= 2
          /\ exact.pending = 2 <=> control + 1 = shape.control /\ live > 0
          /\ exact.pending = 3 <=> control + 1 = shape.control /\ live = 0
      BY <1>1, <2>3
    <2>5. exact.dead_count = dead
      BY <1>4, <2>2, <2>4 DEF IInv, DeadInv, Counts
    <2>6. Fits(c, c.pending) /\ Fits(exact, exact.pending)
      BY <1>1 DEF Counts
    <2>7. /\ b.count.pending = exact.pending - 2
          /\ b.count.dead_count = dead
          /\ b.count.has_started = 0
          /\ a.dead <=> dead = shape.data
          /\ a.ready <=> \/ exact.pending = 2
                         \/ exact.pending = 3 /\ dead = shape.data
          /\ a.count \in Counts /\ b.count \in Counts
          /\ a.count.repr = c.repr /\ b.count.repr = "large"
          /\ a.count.pending = b.count.pending
          /\ a.count.dead_count = b.count.dead_count
          /\ a.count.has_started = b.count.has_started
      <3>1. /\ c.pending = exact.pending /\ c.dead_count = dead
            /\ c.has_started = 0 /\ shape.data \in Nat
        BY <1>1, <2>3, <2>5
      <3>2. /\ a.count \in Counts /\ a.count.repr = c.repr
            /\ a.count.dead_count = dead /\ a.count.has_started = 0
            /\ a.count.pending = exact.pending - 2
            /\ a.dead <=> dead = shape.data
            /\ a.ready <=> \/ exact.pending = 2
                           \/ exact.pending = 3 /\ dead = shape.data
        BY <2>4, <2>6, <3>1, ControlArrival
      <3>3. /\ b.count \in Counts /\ b.count.repr = "large"
            /\ b.count.dead_count = dead /\ b.count.has_started = 0
            /\ b.count.pending = exact.pending - 2
        BY <2>3, <2>4, <2>5, <2>6, <3>1, ControlArrival
      <3> HIDE DEF a, b
      <3> QED BY <3>2, <3>3
    <2> HIDE DEF a, b
    <2>8. /\ TypeOK' /\ RepresentationIsExact'
          /\ c'.repr = c.repr /\ exact' = b.count
          /\ shape' = shape /\ phase' = phase
          /\ readied' = (IF a.ready THEN readied + 1 ELSE readied)
          /\ verdict' = (IF ~a.ready THEN verdict
                         ELSE IF a.dead THEN "dead" ELSE "live")
      <3>1. live' \in Nat /\ dead' \in Nat /\ control' \in Nat
        BY <1>1
      <3> QED BY <1>3, <2>1, <2>7, <3>1, ArrivalStep
    <2>9. ArrivedInv'
      BY <1>1, <1>3, <2>8 DEF IInv, ArrivedInv, DataInputs
    <2>10. WaitingInv'
      <3>1. exact'.has_started = 0 /\ exact'.pending = exact.pending - 2
        BY <2>7, <2>8
      <3>2. exact.pending - 2 =
              2 * (shape.control - control') + (IF live' = 0 THEN 1 ELSE 0)
        BY <1>1, <2>3
      <3> QED BY <1>4, <2>2, <2>8, <3>1, <3>2 DEF WaitingInv
    <2>11. DeadInv'
      <3>1. dead <= MaxDead(shape) /\ MaxDead(shape) > 0
        BY <1>1, <1>3
      <3>2. exact'.dead_count = dead' /\ shape' = shape
        BY <1>1, <2>7, <2>8
      <3> QED BY <1>1, <1>4, <3>1, <3>2 DEF DeadInv
    <2>12. ReadyWhenDue'
      <3>1. Due' <=> control + 1 = shape.control /\ (live > 0 \/ dead = shape.data)
        BY <1>1, <1>4, <2>8 DEF Due
      <3>2. a.ready <=> Due'
        BY <1>1, <2>4, <2>7, <3>1
      <3>3. a.ready => (a.dead <=> live = 0)
        BY <1>1, <1>3, <2>4, <2>7
      <3>4. MaxDead(shape) > 0 /\ (DueDead' <=> live = 0)
        BY <1>1, <1>4, <2>8 DEF DueDead
      <3> QED BY <1>1, <2>2, <2>8, <3>2, <3>3, <3>4 DEF IInv, ReadyWhenDue
    <2> QED BY <2>8, <2>9, <2>10, <2>11, <2>12 DEF IInv
  <1>5. CASE ~IsMerge(shape)
    <2>1. Apply(NotMerge(c, from_dead, FALSE), NotMerge(exact, from_dead, FALSE))
      BY Zenon, <1>5 DEF ArriveControl
    <2>2. live' + dead' <= shape.data /\ control' <= shape.control
      BY <1>1, <1>3
    <2>3. live' = live + 0 /\ dead' = dead + 0 /\ control' = control + 1
      BY <1>1
    <2>4. 0 + 0 + 1 = 1 /\ 0 <= 1 /\ 1 <= 1 /\ 0 \in 0..1 /\ 1 \in 0..1
      OBVIOUS
    <2>5. CASE from_dead
      <3>1. deadControl' = deadControl + 1 /\ (from_dead <=> 0 + 1 = 1)
        BY <1>2, <2>5
      <3> QED BY <1>5, <2>1, <2>2, <2>3, <2>4, <3>1, PlainStep, Zenon
    <2>6. CASE ~from_dead
      <3>1. deadControl' = deadControl + 0 /\ (from_dead <=> 0 + 0 = 1)
        BY <1>1, <1>2, <2>6
      <3> QED BY <1>5, <2>1, <2>2, <2>3, <2>4, <3>1, PlainStep, Zenon
    <2> QED BY <2>5, <2>6
  <1> QED BY <1>4, <1>5

(* Starting and completing a node, as VLOG does, changes nothing else.     *)
LEMMA StartCompleteInv ==
    ASSUME IInv, Start \/ Complete PROVE IInv'
  <1> USE CountFacts, ShapeFacts
  <1>1. /\ shape \in Shapes /\ shape' = shape /\ live' = live /\ dead' = dead
        /\ control' = control /\ deadControl' = deadControl
        /\ readied' = readied /\ verdict' = verdict
    BY DEF Start, Complete, IInv, TypeOK
  <1>2. ReadyWhenDue' /\ (Due' <=> Due)
    BY <1>1 DEF IInv, ReadyWhenDue, Due, DueDead
  <1>3. Due /\ MaxDead(shape) > 0 /\ phase' # "waiting"
    <2>1. CASE Start
      BY <1>1, <2>1 DEF Start, IInv, TypeOK, DeadInv, ReadyWhenDue
    <2>2. CASE Complete
      BY <2>2 DEF Complete, IInv, WaitingInv
    <2> QED BY <2>1, <2>2
  <1>4. /\ c' \in Counts /\ exact' \in Counts
        /\ c'.repr = c.repr /\ exact'.repr = "large"
        /\ c'.pending = exact'.pending /\ c'.dead_count = exact'.dead_count
        /\ exact'.dead_count = exact.dead_count
        /\ c'.has_started = 1 /\ exact'.has_started = 1
        /\ exact'.pending <= 1
        /\ phase' \in {"started", "completed"}
    <2>1. CASE Start
      <3>1. c' = [c EXCEPT !.has_started = 1]
            /\ exact' = [exact EXCEPT !.has_started = 1]
            /\ phase = "waiting" /\ phase' = "started"
        BY <2>1 DEF Start, mark_started
      <3>2. exact.pending <= 1
        BY <1>1, <1>3, <3>1 DEF IInv, WaitingInv, TypeOK, Due
      <3> QED BY <3>1, <3>2 DEF Counts
    <2>2. CASE Complete
      <3>1. c' = [c EXCEPT !.pending = 1]
            /\ exact' = [exact EXCEPT !.pending = 1]
            /\ phase = "started" /\ phase' = "completed"
        BY <2>2 DEF Complete, mark_completed
      <3>2. exact.has_started = 1
        BY <3>1 DEF IInv, WaitingInv
      <3> QED BY <3>1, <3>2 DEF Counts
    <2> QED BY <2>1, <2>2
  <1>5. TypeOK'
    BY <1>1, <1>4 DEF IInv, TypeOK, Counts
  <1>6. RepresentationIsExact'
    BY <1>4 DEF RepresentationIsExact, Counts
  <1>7. ArrivedInv'
    BY <1>1, <1>4 DEF IInv, ArrivedInv, DataInputs
  <1>8. WaitingInv'
    BY <1>1, <1>2, <1>3, <1>4 DEF WaitingInv
  <1>9. DeadInv'
    BY <1>1, <1>3, <1>4 DEF IInv, DeadInv
  <1> QED BY <1>2, <1>5, <1>6, <1>7, <1>8, <1>9 DEF IInv

LEMMA NextInv == NoControlledLoopMerge /\ IInv /\ [Next]_vars => IInv'
  <1> SUFFICES ASSUME NoControlledLoopMerge, IInv, [Next]_vars PROVE IInv'
    OBVIOUS
  <1>1. CASE ArriveLive
    BY <1>1, ArriveLiveInv
  <1>2. CASE ArriveDead
    BY <1>2, ArriveDeadInv
  <1>3. CASE \E from_dead \in BOOLEAN : ArriveControl(from_dead)
    BY <1>3, ArriveControlInv
  <1>4. CASE Start \/ Complete
    BY <1>4, StartCompleteInv
  <1>5. CASE UNCHANGED vars
    BY <1>5 DEF vars, IInv, TypeOK, ArrivedInv, WaitingInv, DeadInv, DataInputs,
       RepresentationIsExact, ReadyWhenDue, Due, DueDead
  <1> QED BY <1>1, <1>2, <1>3, <1>4, <1>5 DEF Next

LEMMA Invariance ==
    ASSUME NoControlledLoopMerge PROVE Spec => []IInv
  <1>1. IInv /\ [Next]_vars => IInv'
    BY NextInv
  <1>2. Init => IInv
    BY InitInv
  <1> QED BY <1>1, <1>2, PTL DEF Spec

-----------------------------------------------------------------------------
(* The counts keep their types: no arrival drives a count below zero.      *)
THEOREM TypeCorrect ==
    ASSUME NoControlledLoopMerge PROVE Spec => []TypeOK
  <1>1. IInv => TypeOK
    BY DEF IInv
  <1> QED BY <1>1, Invariance, PTL

(* The three bits CreateHandle gives a node with few inputs are enough,    *)
(* whatever the number of inputs and the order of their arrival.           *)
THEOREM PackedCountsAreExact ==
    ASSUME NoControlledLoopMerge PROVE Spec => []RepresentationIsExact
  <1>1. IInv => RepresentationIsExact
    BY DEF IInv
  <1> QED BY <1>1, Invariance, PTL

(* ActivateNodes makes a node ready exactly once, when its last awaited    *)
(* input arrives, and with the deadness its inputs determine: for every    *)
(* number of inputs and every order of arrival, except for the merge of a  *)
(* loop variable that has control inputs.                                  *)
THEOREM ReadyOnceWhenDue ==
    ASSUME NoControlledLoopMerge PROVE Spec => []ReadyWhenDue
  <1>1. IInv => ReadyWhenDue
    BY DEF IInv
  <1> QED BY <1>1, Invariance, PTL
=============================================================================
