------------------------- MODULE DirectSessionSteps -------------------------
(***************************************************************************)
(* The inductive invariant of DirectSession, for any numbers of calls of   *)
(* Run, of Close and of Reset, any signatures, timeouts, bad calls and     *)
(* inputs, and the proof that the steps of Run preserve it.                *)
(***************************************************************************)
EXTENDS DirectSession, TLAPS

(* SMT has half a minute for a step; a step meant for Zenon says so.       *)
USE SMTT(30)

(* Where a call has a callback with the session's manager that it may      *)
(* still deregister; where it waits for its executors; where it has none.  *)
Waiting == {"wait", "cancel", "cancelling", "wait_again"}
Registered == {"start", "deregister"} \cup Waiting
Unstarted == {"idle", "lookup", "lookup_sorted", "create", "send", "register",
              "start"}

(* One closer at most is between the two critical sections of StartCancel, *)
(* and only it has callbacks to run.                                       *)
PhaseInv ==
    /\ ~(cm.is_cancelling /\ cm.is_cancelled)
    /\ cm.notified => cm.is_cancelled
    /\ \A c \in Closer :
          /\ at[c] = "cancelling" => cm.is_cancelling
          /\ at[c] = "notify" => cm.is_cancelled
          /\ todo[c] # {} \/ cur[c] # Nobody => at[c] = "cancelling"
          /\ \A d \in Closer : at[c] = "cancelling" /\ at[d] = "cancelling" => c = d

(* Tokens are handed out once, and callbacks_ holds those of the calls     *)
(* between RegisterCallback and DeregisterCallback until StartCancel takes *)
(* them all.                                                               *)
TokenInv ==
    /\ \A t \in cm.callbacks : t < cm.next_cancellation_token
    /\ ~IsLive(cm) => cm.callbacks = {}
    /\ \A r \in Call :
          /\ token[r] < cm.next_cancellation_token
          /\ token[r] \in cm.callbacks => pc[r] \in Registered
          /\ IsLive(cm) /\ pc[r] \in Registered => token[r] \in cm.callbacks
          /\ \A q \in Call : r # q /\ token[r] # kInvalidToken => token[r] # token[q]

(* The frame is whole where Run needs it, and Run waits for its executors. *)
FrameInv ==
    \A r \in Call :
       /\ pc[r] \in Registered \cup {"register", "deregister_wait", "check", "destroy"} =>
             frame[r] = "whole"
       /\ pc[r] \in Unstarted => notified[r] = 0 /\ exec[r] = "none"
       /\ exec[r] \in {"running", "ended", "updated"} =>
             pc[r] \in Waiting /\ notified[r] = 0

(* A callback that a closer has taken belongs to a call that has not       *)
(* passed DeregisterCallback, and each such call is cancelled or will be.  *)
CancelInv ==
    \A r \in Call :
       /\ \A c \in Closer : r \in todo[c] \/ cur[c] = r =>
             pc[r] \in Registered \cup {"deregister_wait"}
       /\ ~IsLive(cm) /\ pc[r] \in Registered =>
             ~IsLive(scm[r]) \/ \E c \in Closer : r \in todo[c]

(* A step that is cancelled has an error already, or will see when it      *)
(* deregisters that the session was closed.                                *)
ResultInv ==
    \A r \in Call :
       /\ ~IsLive(scm[r]) =>
             \/ status[r] # "ok"
             \/ ~IsLive(cm) /\ pc[r] \in Registered \cup {"deregister_wait"}
       /\ pc[r] \in {"cancel", "cancelling"} => status[r] # "ok"
       /\ ret[r] = "ok" => /\ IsLive(scm[r])
                           /\ pc[r] \in {"destroy", "destroy_state", "returned"}

IInv == TypeOK /\ PhaseInv /\ TokenInv /\ FrameInv /\ CancelInv /\ ResultInv

-----------------------------------------------------------------------------
(* What the critical sections of StartCancel do to a manager.              *)
LEMMA ManagerSteps ==
    ASSUME NEW m \in Managers(Nat)
    PROVE  /\ BeginCancel(m) \in Managers(Nat) /\ ~IsLive(BeginCancel(m))
           /\ BeginCancel(m).is_cancelling /\ BeginCancel(m).callbacks = {}
           /\ BeginCancel(m).is_cancelled = m.is_cancelled
           /\ BeginCancel(m).notified = m.notified
           /\ BeginCancel(m).next_cancellation_token = m.next_cancellation_token
           /\ NotifyCancelled(EndCancel(m)) \in Managers(Nat)
           /\ ~IsLive(NotifyCancelled(EndCancel(m)))
BY Zenon DEF Managers, BeginCancel, EndCancel, NotifyCancelled, IsLive

(* What get_cancellation_token and RegisterCallback do to a manager.       *)
LEMMA RegisterFacts ==
    ASSUME NEW m \in Managers(Nat)
    PROVE  LET t == m.next_cancellation_token
               n == Register(get_cancellation_token(m), t)
           IN  /\ n \in Managers(Nat) /\ n.next_cancellation_token = t + 1
               /\ n.is_cancelling = m.is_cancelling /\ n.is_cancelled = m.is_cancelled
               /\ n.notified = m.notified
               /\ n.callbacks = IF IsLive(m) THEN m.callbacks \cup {t} ELSE m.callbacks
<1> DEFINE g == get_cancellation_token(m)
<1>1. /\ g \in Managers(Nat) /\ g.callbacks = m.callbacks
      /\ g.next_cancellation_token = m.next_cancellation_token + 1
      /\ g.is_cancelling = m.is_cancelling /\ g.is_cancelled = m.is_cancelled
      /\ g.notified = m.notified
    BY DEF Managers, get_cancellation_token
<1> HIDE DEF g
<1> QED BY <1>1 DEF Managers, Register, IsLive, g

(* Up to SendInputs Run only looks for its executors.                      *)
LEMMA LookupInv ==
    ASSUME IInv, NEW r \in Call, TypeOK',
           pc[r] \in {"idle", "lookup", "lookup_sorted", "create"},
           NEW p \in {"lookup", "lookup_sorted", "create", "send", "returned"},
           pc' = [pc EXCEPT ![r] = p],
           NEW s \in Statuses \cup {"none"}, s # "ok", ret' = [ret EXCEPT ![r] = s],
           UNCHANGED <<session, token, state, execs, closers>>
    PROVE  IInv'
<1> USE SessionAssumption DEF IInv, TypeOK, Managers, Statuses, IsLive, kInvalidToken,
        Waiting, Registered, Unstarted, session, run, state, execs, closers
<1>1. PhaseInv'
    BY DEF PhaseInv
<1>2. TokenInv'
    BY DEF TokenInv, PhaseInv
<1>3. FrameInv'
    BY DEF FrameInv
<1>4. CancelInv'
    BY DEF CancelInv, PhaseInv, TokenInv
<1>5. ResultInv'
    BY DEF ResultInv, PhaseInv, CancelInv
<1> HIDE DEF IInv, IsLive
<1> QED BY ONLY TypeOK', <1>1, <1>2, <1>3, <1>4, <1>5 DEF IInv

(* The steps of a call of Run up to the inputs preserve the inductive      *)
(* invariant ...                                                           *)
LEMMA LookupStepsInv ==
    ASSUME IInv, NEW r \in Call,
           \/ CheckNotClosed(r) \/ RunRejected(r) \/ FastLookup(r)
           \/ SortedLookup(r) \/ InsertExecutors(r)
    PROVE  IInv'
<1> USE SessionAssumption
<1>1. ret[r] # "ok"
    BY DEF IInv, ResultInv, CheckNotClosed, RunRejected, FastLookup, SortedLookup,
           InsertExecutors
<1>2. TypeOK
    BY DEF IInv
<1>3. UNCHANGED <<session, token, state, execs, closers>>
    BY DEF CheckNotClosed, RunRejected, FastLookup, SortedLookup, InsertExecutors
<1>4. ASSUME CheckNotClosed(r) PROVE IInv'
    <2>1. PICK p \in {"lookup", "returned"}, s \in {"cancelled", ret[r]} :
             pc' = [pc EXCEPT ![r] = p] /\ ret' = [ret EXCEPT ![r] = s]
        BY <1>2, <1>4 DEF CheckNotClosed, Goto, Returns, TypeOK
    <2>2. /\ executors_' \in [Key -> Call \cup {Nobody}]
          /\ uses' \in [Call -> Call \cup {Nobody}]
        BY <1>2, <1>4 DEF CheckNotClosed, TypeOK
    <2>3. TypeOK'
        BY ZenonT(30), <1>2, <1>3, <2>1, <2>2 DEF TypeOK, Statuses, session, state, execs, closers
    <2>4. s \in Statuses \cup {"none"} /\ s # "ok"
        BY <1>1, <1>2, <2>1 DEF TypeOK, Statuses
    <2> QED BY Zenon, <1>3, <1>4, <2>1, <2>3, <2>4, LookupInv DEF CheckNotClosed
<1>5. ASSUME RunRejected(r) PROVE IInv'
    <2>1. PICK p \in {"returned"}, s \in {"error"} :
             pc' = [pc EXCEPT ![r] = p] /\ ret' = [ret EXCEPT ![r] = s]
        BY <1>2, <1>5 DEF RunRejected, Goto, Returns, TypeOK
    <2>2. /\ executors_' \in [Key -> Call \cup {Nobody}]
          /\ uses' \in [Call -> Call \cup {Nobody}]
        BY <1>2, <1>5 DEF RunRejected, TypeOK
    <2>3. TypeOK'
        BY ZenonT(30), <1>2, <1>3, <2>1, <2>2 DEF TypeOK, Statuses, session, state, execs, closers
    <2>4. s \in Statuses \cup {"none"} /\ s # "ok"
        BY <1>1, <1>2, <2>1 DEF TypeOK, Statuses
    <2> QED BY Zenon, <1>3, <1>5, <2>1, <2>3, <2>4, LookupInv DEF RunRejected
<1>6. ASSUME FastLookup(r) PROVE IInv'
    <2>1. PICK p \in {"lookup_sorted", "send"}, s \in {ret[r]} :
             pc' = [pc EXCEPT ![r] = p] /\ ret' = [ret EXCEPT ![r] = s]
        BY <1>2, <1>6 DEF FastLookup, Goto, Returns, TypeOK
    <2>2. /\ executors_' \in [Key -> Call \cup {Nobody}]
          /\ uses' \in [Call -> Call \cup {Nobody}]
        BY <1>2, <1>6 DEF FastLookup, TypeOK
    <2>3. TypeOK'
        BY ZenonT(30), <1>2, <1>3, <2>1, <2>2 DEF TypeOK, Statuses, session, state, execs, closers
    <2>4. s \in Statuses \cup {"none"} /\ s # "ok"
        BY <1>1, <1>2, <2>1 DEF TypeOK, Statuses
    <2> QED BY Zenon, <1>3, <1>6, <2>1, <2>3, <2>4, LookupInv DEF FastLookup
<1>7. ASSUME SortedLookup(r) PROVE IInv'
    <2>1. PICK p \in {"create", "send"}, s \in {ret[r]} :
             pc' = [pc EXCEPT ![r] = p] /\ ret' = [ret EXCEPT ![r] = s]
        BY <1>2, <1>7 DEF SortedLookup, Goto, Returns, TypeOK
    <2>2. /\ executors_' \in [Key -> Call \cup {Nobody}]
          /\ uses' \in [Call -> Call \cup {Nobody}]
        BY <1>2, <1>7 DEF SortedLookup, TypeOK, Emplace
    <2>3. TypeOK'
        BY ZenonT(30), <1>2, <1>3, <2>1, <2>2 DEF TypeOK, Statuses, session, state, execs, closers
    <2>4. s \in Statuses \cup {"none"} /\ s # "ok"
        BY <1>1, <1>2, <2>1 DEF TypeOK, Statuses
    <2> QED BY Zenon, <1>3, <1>7, <2>1, <2>3, <2>4, LookupInv DEF SortedLookup
<1>8. ASSUME InsertExecutors(r) PROVE IInv'
    <2>1. PICK p \in {"send"}, s \in {ret[r]} :
             pc' = [pc EXCEPT ![r] = p] /\ ret' = [ret EXCEPT ![r] = s]
        BY <1>2, <1>8 DEF InsertExecutors, Goto, Returns, TypeOK
    <2>2. /\ executors_' \in [Key -> Call \cup {Nobody}]
          /\ uses' \in [Call -> Call \cup {Nobody}]
        BY <1>2, <1>8 DEF InsertExecutors, TypeOK, Emplace
    <2>3. TypeOK'
        BY ZenonT(30), <1>2, <1>3, <2>1, <2>2 DEF TypeOK, Statuses, session, state, execs, closers
    <2>4. s \in Statuses \cup {"none"} /\ s # "ok"
        BY <1>1, <1>2, <2>1 DEF TypeOK, Statuses
    <2> QED BY Zenon, <1>3, <1>8, <2>1, <2>3, <2>4, LookupInv DEF InsertExecutors
<1> QED BY <1>4, <1>5, <1>6, <1>7, <1>8

(* ... and so do the other steps of Run.                                   *)
LEMMA RunInv == ASSUME IInv, NEW r \in Call, Run(r) PROVE IInv'
<1> USE SessionAssumption DEF IInv, TypeOK, Managers, Statuses, IsLive, kInvalidToken,
        Waiting, Registered, Unstarted, session, run, state, execs, closers
<1>1. ASSUME SendInputs(r), pc' = [pc EXCEPT ![r] = "register"], ret' = ret PROVE IInv'
    <2>0. /\ pc[r] = "send" /\ pc' = [pc EXCEPT ![r] = "register"]
          /\ ret' = ret /\ frame' = [frame EXCEPT ![r] = "whole"]
          /\ UNCHANGED <<session, executors_, uses, token, scm, status, notified, execs,
                         closers>>
        BY <1>1 DEF SendInputs
    <2> USE <2>0
    <2>1. TypeOK' /\ PhaseInv' /\ FrameInv'
        BY DEF PhaseInv, FrameInv
    <2>2. TokenInv' /\ CancelInv' /\ ResultInv'
        BY DEF TokenInv, PhaseInv, CancelInv, ResultInv
    <2> QED BY ONLY SMTT(30), <2>1, <2>2 DEF IInv
<1>2. ASSUME SendInputs(r), pc' = [pc EXCEPT ![r] = "destroy"],
             ret' = [ret EXCEPT ![r] = "error"]
      PROVE  IInv'
    <2>0. /\ pc[r] = "send" /\ pc' = [pc EXCEPT ![r] = "destroy"]
          /\ ret' = [ret EXCEPT ![r] = "error"] /\ frame' = [frame EXCEPT ![r] = "whole"]
          /\ UNCHANGED <<session, executors_, uses, token, scm, status, notified, execs,
                         closers>>
        BY <1>2 DEF SendInputs
    <2> USE <2>0
    <2>1. TypeOK' /\ PhaseInv' /\ FrameInv'
        BY DEF PhaseInv, FrameInv
    <2>2. TokenInv' /\ CancelInv' /\ ResultInv'
        BY DEF TokenInv, PhaseInv, CancelInv, ResultInv
    <2> QED BY ONLY SMTT(30), <2>1, <2>2 DEF IInv
<1>3. ASSUME RegisterStep(r), IsLive(cm) PROVE IInv'
    <2>0. /\ pc[r] = "register" /\ IsLive(cm) /\ pc' = [pc EXCEPT ![r] = "start"]
          /\ token' = [token EXCEPT ![r] = cm.next_cancellation_token]
          /\ cm' \in Managers(Nat)
          /\ cm'.is_cancelling = cm.is_cancelling /\ cm'.is_cancelled = cm.is_cancelled
          /\ cm'.notified = cm.notified
          /\ cm'.next_cancellation_token = cm.next_cancellation_token + 1
          /\ cm'.callbacks = cm.callbacks \cup {cm.next_cancellation_token}
          /\ UNCHANGED <<closed_, sessions_, executors_, ret, uses, state, execs,
                         closers>>
        BY Zenon, <1>3, RegisterFacts DEF RegisterStep, Goto
    <2> USE <2>0
    <2>1. TypeOK' /\ PhaseInv' /\ FrameInv'
        BY DEF PhaseInv, FrameInv
    <2>2. TokenInv' /\ CancelInv' /\ ResultInv'
        BY DEF TokenInv, PhaseInv, CancelInv, ResultInv
    <2> QED BY ONLY SMTT(30), <2>1, <2>2 DEF IInv
<1>4. ASSUME RegisterStep(r), ~IsLive(cm) PROVE IInv'
    <2>0. /\ pc[r] = "register" /\ ~IsLive(cm) /\ pc' = [pc EXCEPT ![r] = "destroy"]
          /\ token' = [token EXCEPT ![r] = cm.next_cancellation_token]
          /\ cm' \in Managers(Nat) /\ cm'.callbacks = cm.callbacks
          /\ cm'.is_cancelling = cm.is_cancelling /\ cm'.is_cancelled = cm.is_cancelled
          /\ cm'.notified = cm.notified
          /\ cm'.next_cancellation_token = cm.next_cancellation_token + 1
          /\ ret' = [ret EXCEPT ![r] = "cancelled"]
          /\ notified' = [notified EXCEPT ![r] = @ + 1]
          /\ UNCHANGED <<closed_, sessions_, executors_, uses, scm, status, frame, execs,
                         closers>>
        BY Zenon, <1>4, RegisterFacts DEF RegisterStep, Goto, Returns
    <2> USE <2>0
    <2>1. TypeOK' /\ PhaseInv' /\ FrameInv'
        BY DEF PhaseInv, FrameInv
    <2>2. TokenInv' /\ CancelInv' /\ ResultInv'
        BY DEF TokenInv, PhaseInv, CancelInv, ResultInv
    <2> QED BY ONLY SMTT(30), <2>1, <2>2 DEF IInv
<1>5. ASSUME RunAsync(r) PROVE IInv'
    <2> USE <1>5 DEF RunAsync, Goto, Returns
    <2>1. TypeOK' /\ PhaseInv' /\ FrameInv'
        BY DEF PhaseInv, FrameInv
    <2>2. TokenInv' /\ CancelInv' /\ ResultInv'
        BY DEF TokenInv, PhaseInv, CancelInv, ResultInv
    <2> QED BY ONLY SMTT(30), <2>1, <2>2 DEF IInv
<1>6. ASSUME Waits(r) PROVE IInv'
    <2> USE <1>6 DEF Waits, Goto, Returns
    <2>1. TypeOK' /\ PhaseInv'
        BY DEF PhaseInv
    <2>2. TokenInv' /\ FrameInv'
        BY DEF TokenInv, PhaseInv, FrameInv
    <2>3. CancelInv' /\ ResultInv'
        BY DEF TokenInv, PhaseInv, CancelInv, ResultInv
    <2> QED BY ONLY SMTT(30), <2>1, <2>2, <2>3 DEF IInv
<1>7. ASSUME TimesOut(r) PROVE IInv'
    <2> USE <1>7 DEF TimesOut, Update, Goto, Returns
    <2>1. TypeOK' /\ PhaseInv'
        BY DEF PhaseInv
    <2>2. TokenInv' /\ FrameInv'
        BY DEF TokenInv, PhaseInv, FrameInv
    <2>3. CancelInv' /\ ResultInv'
        BY DEF TokenInv, PhaseInv, CancelInv, ResultInv
    <2> QED BY ONLY SMTT(30), <2>1, <2>2, <2>3 DEF IInv
<1>8. ASSUME TimeoutCancels(r), IsLive(scm[r]) PROVE IInv'
    <2>0. /\ pc[r] = "cancel" /\ pc' = [pc EXCEPT ![r] = "cancelling"]
          /\ \E m \in Managers(Nat) : ~IsLive(m) /\ scm' = [scm EXCEPT ![r] = m]
          /\ UNCHANGED <<session, executors_, ret, uses, token, status, notified,
                         frame, execs, closers>>
        BY <1>8, ManagerSteps DEF TimeoutCancels, Goto
    <2> USE <2>0
    <2>1. TypeOK' /\ PhaseInv'
        BY DEF PhaseInv
    <2>2. TokenInv' /\ FrameInv'
        BY DEF TokenInv, PhaseInv, FrameInv
    <2>3. CancelInv' /\ ResultInv'
        BY DEF TokenInv, PhaseInv, CancelInv, ResultInv
    <2> QED BY ONLY SMTT(30), <2>1, <2>2, <2>3 DEF IInv
<1>9. ASSUME TimeoutCancels(r), ~IsLive(scm[r]) PROVE IInv'
    <2>0. /\ pc[r] = "cancel" /\ pc' = [pc EXCEPT ![r] = "wait_again"] /\ scm' = scm
          /\ UNCHANGED <<session, executors_, ret, uses, token, status, notified,
                         frame, execs, closers>>
        BY <1>9 DEF TimeoutCancels, Goto
    <2> USE <2>0
    <2>1. TypeOK' /\ PhaseInv'
        BY DEF PhaseInv
    <2>2. TokenInv' /\ FrameInv'
        BY DEF TokenInv, PhaseInv, FrameInv
    <2>3. CancelInv' /\ ResultInv'
        BY DEF TokenInv, PhaseInv, CancelInv, ResultInv
    <2> QED BY ONLY SMTT(30), <2>1, <2>2, <2>3 DEF IInv
<1>10. ASSUME TimeoutCancelled(r) PROVE IInv'
    <2>0. /\ pc[r] = "cancelling" /\ pc' = [pc EXCEPT ![r] = "wait_again"]
          /\ \E m \in Managers(Nat) : ~IsLive(m) /\ scm' = [scm EXCEPT ![r] = m]
          /\ UNCHANGED <<session, executors_, ret, uses, token, status, notified,
                         frame, execs, closers>>
        BY Zenon, <1>10, ManagerSteps DEF TimeoutCancelled, Goto
    <2> USE <2>0
    <2>1. TypeOK' /\ PhaseInv'
        BY DEF PhaseInv
    <2>2. TokenInv' /\ FrameInv'
        BY DEF TokenInv, PhaseInv, FrameInv
    <2>3. CancelInv' /\ ResultInv'
        BY DEF TokenInv, PhaseInv, CancelInv, ResultInv
    <2> QED BY ONLY SMTT(30), <2>1, <2>2, <2>3 DEF IInv
<1>11. ASSUME DeregisterStep(r), IsLive(cm) PROVE IInv'
    <2>0. /\ pc[r] = "deregister" /\ IsLive(cm)
          /\ pc' = [pc EXCEPT ![r] = "check"] /\ status' = status
          /\ cm' \in Managers(Nat) /\ cm'.callbacks = cm.callbacks \ {token[r]}
          /\ cm'.is_cancelling = cm.is_cancelling /\ cm'.is_cancelled = cm.is_cancelled
          /\ cm'.notified = cm.notified
          /\ cm'.next_cancellation_token = cm.next_cancellation_token
          /\ UNCHANGED <<closed_, sessions_, executors_, ret, uses, token, scm,
                         notified, frame, execs, closers>>
        BY <1>11 DEF DeregisterStep, Erase, MustWait, Goto
    <2> USE <2>0
    <2>1. PhaseInv' /\ FrameInv'
        BY DEF PhaseInv, FrameInv
    <2>3. TypeOK'
        OBVIOUS
    <2>2. TokenInv' /\ CancelInv' /\ ResultInv'
        BY DEF TokenInv, PhaseInv, CancelInv, ResultInv
    <2> QED BY ONLY SMTT(30), <2>1, <2>2, <2>3 DEF IInv
<1>12. ASSUME DeregisterStep(r), MustWait(cm) PROVE IInv'
    <2>0. /\ pc[r] = "deregister" /\ pc' = [pc EXCEPT ![r] = "deregister_wait"]
          /\ ~IsLive(cm) /\ UNCHANGED <<cm, status>>
          /\ UNCHANGED <<closed_, sessions_, executors_, ret, uses, token, scm,
                         notified, frame, execs, closers>>
        BY <1>12 DEF DeregisterStep, MustWait, Goto
    <2> USE <2>0
    <2>1. TypeOK' /\ PhaseInv'
        BY DEF PhaseInv
    <2>2. TokenInv' /\ FrameInv'
        BY DEF TokenInv, PhaseInv, FrameInv
    <2>3. CancelInv' /\ ResultInv'
        BY DEF TokenInv, PhaseInv, CancelInv, ResultInv
    <2> QED BY ONLY SMTT(30), <2>1, <2>2, <2>3 DEF IInv
<1>13. ASSUME DeregisterStep(r), ~IsLive(cm), ~MustWait(cm) PROVE IInv'
    <2>a. /\ pc[r] = "deregister" /\ pc' = [pc EXCEPT ![r] = "check"]
          /\ cm.is_cancelled /\ cm' = cm /\ status' = Update(r, "cancelled")
          /\ UNCHANGED <<closed_, sessions_, executors_, ret, uses, token, scm,
                         notified, frame, execs, closers>>
        BY ONLY <1>13 DEF DeregisterStep, MustWait, IsLive, Goto
    <2>b. \E s \in Statuses \ {"ok"} : status' = [status EXCEPT ![r] = s]
        <3>1. status[r] \in Statuses
            OBVIOUS
        <3>2. status' = [status EXCEPT ![r] = IF status[r] = "ok" THEN "cancelled" ELSE status[r]]
            BY ONLY <2>a DEF Update
        <3> QED BY ONLY Zenon, <3>1, <3>2 DEF Statuses
    <2> USE <2>a, <2>b
    <2>1. TypeOK'
        OBVIOUS
    <2>4. PhaseInv'
        BY DEF PhaseInv
    <2>2. TokenInv' /\ FrameInv'
        BY DEF TokenInv, PhaseInv, FrameInv
    <2>3. CancelInv' /\ ResultInv'
        BY DEF TokenInv, PhaseInv, CancelInv, ResultInv
    <2> QED BY ONLY SMTT(30), <2>1, <2>2, <2>3, <2>4 DEF IInv
<1>14. ASSUME DeregisterWakes(r) PROVE IInv'
    <2> USE <1>14 DEF DeregisterWakes, Update, Goto, Returns
    <2>1. TypeOK' /\ PhaseInv'
        BY DEF PhaseInv
    <2>2. TokenInv' /\ FrameInv'
        BY DEF TokenInv, PhaseInv, FrameInv
    <2>3. CancelInv' /\ ResultInv'
        BY DEF TokenInv, PhaseInv, CancelInv, ResultInv
    <2> QED BY ONLY SMTT(30), <2>1, <2>2, <2>3 DEF IInv
<1>15. ASSUME RecvOutputs(r) PROVE IInv'
    <2> USE <1>15 DEF RecvOutputs, Goto, Returns
    <2>1. PhaseInv' /\ FrameInv'
        BY DEF PhaseInv, FrameInv
    <2>3. TypeOK'
        OBVIOUS
    <2>2. TokenInv' /\ CancelInv' /\ ResultInv'
        BY DEF TokenInv, PhaseInv, CancelInv, ResultInv
    <2> QED BY ONLY SMTT(30), <2>1, <2>2, <2>3 DEF IInv
<1>16. ASSUME DestroyManager(r) PROVE IInv'
    <2> USE <1>16 DEF DestroyManager, Goto, Returns
    <2>1. TypeOK' /\ PhaseInv'
        BY DEF PhaseInv
    <2>2. TokenInv' /\ FrameInv'
        BY DEF TokenInv, PhaseInv, FrameInv
    <2>3. CancelInv' /\ ResultInv'
        BY DEF TokenInv, PhaseInv, CancelInv, ResultInv
    <2> QED BY ONLY SMTT(30), <2>1, <2>2, <2>3 DEF IInv
<1>17. ASSUME DestroyRunState(r) PROVE IInv'
    <2> USE <1>17 DEF DestroyRunState, Goto, Returns
    <2>1. TypeOK' /\ PhaseInv'
        BY DEF PhaseInv
    <2>2. TokenInv' /\ FrameInv'
        BY DEF TokenInv, PhaseInv, FrameInv
    <2>3. CancelInv' /\ ResultInv'
        BY DEF TokenInv, PhaseInv, CancelInv, ResultInv
    <2> QED BY ONLY SMTT(30), <2>1, <2>2, <2>3 DEF IInv
<1> HIDE DEF IInv, IsLive
<1> QED BY ONLY Zenon, IInv, r \in Call, Run(r), <1>1, <1>2, <1>3, <1>4, <1>5, <1>6,
           <1>7, <1>8, <1>9, <1>10, <1>11, <1>12, <1>13, <1>14, <1>15, <1>16, <1>17, LookupStepsInv
         DEF Run, SendInputs, Goto, Returns
=============================================================================
