--------------------------- MODULE DirectSession ---------------------------
(***************************************************************************)
(* DirectSession::Run, Close and DirectSessionFactory::Reset               *)
(* (tensorflow/core/common_runtime/direct_session.cc) on one session.      *)
(*                                                                         *)
(* Each Call is one Run, on its own thread.  Its stack frame holds the     *)
(* RunState and the step's CancellationManager, which the executors and    *)
(* the callback that Run registers with the session's manager borrow.  The *)
(* executors of a call and their barrier are one process, which ends by    *)
(* calling the barrier's done callback; a call in Blocks has a kernel that *)
(* may wait until the step is cancelled.  Each Closer is a thread that     *)
(* closes the session, those in Resetter through the factory's Reset.      *)
(***************************************************************************)
EXTENDS CancellationOps, FiniteSets

CONSTANTS
    Call, Closer, Resetter,
    Clients,     \* the sets of those of them that may be there together
    Key,         \* the signatures of calls: feeds, fetches and targets
    key,         \* Call -> its signature, in the order of the arguments
    sorted,      \* Key -> the signature with its lists sorted
    HasTimeout,  \* calls with timeout_in_ms > 0
    Blocks,      \* calls that may wait for ever
    BadCalls,    \* calls that are refused, or whose kernels or outputs fail
    BadInputs,   \* calls one of whose inputs cannot be sent
    Nobody

ASSUME SessionAssumption ==
    /\ Resetter \subseteq Closer /\ Call \cap Closer = {}
    /\ Nobody \notin Call \cup Closer
    /\ Clients \subseteq SUBSET (Call \cup Closer)
    /\ key \in [Call -> Key] /\ sorted \in [Key -> Key]
    /\ \A k \in Key : sorted[sorted[k]] = sorted[k]
    /\ HasTimeout \subseteq Call /\ Blocks \subseteq Call
    /\ BadCalls \subseteq Call /\ BadInputs \subseteq Call

VARIABLES
    closed_,      \* "yes" or "no"
    sessions_,    \* the factory's list: whether it holds the session
    cm,           \* cancellation_manager_, of the session
    executors_,   \* Key -> who made its ExecutorsAndKeys, or Nobody
    pc, ret,      \* of a call: where it is, the status it returns
    uses,         \* Call -> the ExecutorsAndKeys it runs, or Nobody
    token,        \* Call -> its token
    scm,          \* Call -> step_cancellation_manager
    status,       \* Call -> run_state.status
    notified,     \* Call -> how often executors_done was notified
    frame,        \* Call -> "none", "whole", "no_manager" or "gone"
    exec, result, \* of the executors of a call: progress, final status
    at, todo, cur \* of a closer: progress, callbacks to run, the running one

session == <<closed_, sessions_, cm>>
run == <<pc, ret, uses, token>>
state == <<scm, status, notified, frame>>
execs == <<exec, result>>
closers == <<at, todo, cur>>
vars == <<session, executors_, run, state, execs, closers>>

(* Those that are not there have nothing to do.                            *)
Begins(clients, t) == IF t \in clients THEN "idle" ELSE "returned"

Init ==
    /\ \E clients \in Clients :
       /\ pc = [r \in Call |-> Begins(clients, r)]
       /\ at = [c \in Closer |-> Begins(clients, c)]
    /\ closed_ = "no" /\ sessions_ = "listed" /\ cm = NewManager
    /\ executors_ = [k \in Key |-> Nobody]
    /\ ret = [r \in Call |-> "none"]
    /\ uses = [r \in Call |-> Nobody]
    /\ token = [r \in Call |-> kInvalidToken]
    /\ scm = [r \in Call |-> NewManager]
    /\ status = [r \in Call |-> "ok"] /\ notified = [r \in Call |-> 0]
    /\ frame = [r \in Call |-> "none"]
    /\ exec = [r \in Call |-> "none"] /\ result = [r \in Call |-> "ok"]
    /\ todo = [c \in Closer |-> {}]
    /\ cur = [c \in Closer |-> Nobody]

Goto(r, place) == pc' = [pc EXCEPT ![r] = place]
Returns(r, s) == ret' = [ret EXCEPT ![r] = s]

(* Status::Update keeps the first error.                                   *)
Update(r, s) == [status EXCEPT ![r] = IF @ = "ok" THEN s ELSE @]

-----------------------------------------------------------------------------
(* Run, up to the executors it will use.                                   *)
CheckNotClosed(r) ==
    /\ pc[r] = "idle"
    /\ IF closed_ = "yes" THEN Goto(r, "returned") /\ Returns(r, "cancelled")
                          ELSE Goto(r, "lookup") /\ UNCHANGED ret
    /\ UNCHANGED <<session, executors_, uses, token, state, execs, closers>>

(* No graph yet, an invalid argument, or a graph that cannot be built.     *)
RunRejected(r) ==
    /\ pc[r] \in {"lookup", "create"} /\ r \in BadCalls
    /\ Goto(r, "returned") /\ Returns(r, "error")
    /\ UNCHANGED <<session, executors_, uses, token, state, execs, closers>>

(* GetOrCreateExecutors: the lookup, the one with sorted lists, and the    *)
(* insertion, each under executor_lock_.                                   *)
FastLookup(r) ==
    /\ pc[r] = "lookup"
    /\ IF executors_[key[r]] # Nobody
       THEN /\ uses' = [uses EXCEPT ![r] = executors_[key[r]]]
            /\ Goto(r, "send")
       ELSE Goto(r, "lookup_sorted") /\ UNCHANGED uses
    /\ UNCHANGED <<session, executors_, ret, token, state, execs, closers>>

(* emplace leaves an entry that is there alone.                            *)
Emplace(map, k, e) == [map EXCEPT ![k] = IF @ = Nobody THEN e ELSE @]

SortedLookup(r) ==
    /\ pc[r] = "lookup_sorted"
    /\ LET found == executors_[sorted[key[r]]] IN
       IF found # Nobody
       THEN /\ uses' = [uses EXCEPT ![r] = found]
            /\ executors_' = Emplace(executors_, key[r], found)
            /\ Goto(r, "send")
       ELSE Goto(r, "create") /\ UNCHANGED <<uses, executors_>>
    /\ UNCHANGED <<session, ret, token, state, execs, closers>>

InsertsOwn(r) ==
    /\ pc[r] = "create"
    /\ executors_' = [executors_ EXCEPT ![sorted[key[r]]] = r, ![key[r]] = r]
    /\ uses' = [uses EXCEPT ![r] = r]
    /\ Goto(r, "send")
    /\ UNCHANGED <<session, ret, token, state, execs, closers>>
InsertExecutors(r) ==
    /\ pc[r] = "create"
    /\ LET inserted == Emplace(executors_, sorted[key[r]], r)
           mine == inserted[sorted[key[r]]] IN
       /\ executors_' = Emplace(inserted, key[r], mine)
       /\ uses' = [uses EXCEPT ![r] = mine]
    /\ Goto(r, "send")
    /\ UNCHANGED <<session, ret, token, state, execs, closers>>

(* SendInputs fails on an input without a key in the rendezvous, a handle  *)
(* whose tensor is not in the session state, or a failed Send.             *)
InputsFail(r) == r \in BadInputs

(* The frame is set up, and the inputs go to the rendezvous.               *)
SendInputs(r) ==
    /\ pc[r] = "send"
    /\ frame' = [frame EXCEPT ![r] = "whole"]
    /\ \/ Goto(r, "register") /\ UNCHANGED ret
       \/ InputsFail(r) /\ Goto(r, "destroy") /\ Returns(r, "error")
    /\ UNCHANGED <<session, executors_, uses, token, scm, status, notified, execs,
                   closers>>

(* The step is registered with the session's manager.                      *)
RegisterStep(r) ==
    /\ pc[r] = "register"
    /\ token' = [token EXCEPT ![r] = cm.next_cancellation_token]
    /\ cm' = Register(get_cancellation_token(cm), cm.next_cancellation_token)
    /\ IF IsLive(cm)
       THEN Goto(r, "start") /\ UNCHANGED <<ret, notified>>
       ELSE /\ notified' = [notified EXCEPT ![r] = @ + 1]
            /\ Goto(r, "destroy") /\ Returns(r, "cancelled")
    /\ UNCHANGED <<closed_, sessions_, executors_, uses, scm, status, frame, execs,
                   closers>>

RunAsync(r) ==
    /\ pc[r] = "start"
    /\ exec' = [exec EXCEPT ![r] = "running"]
    /\ Goto(r, "wait")
    /\ UNCHANGED <<session, executors_, ret, uses, token, state, result, closers>>

-----------------------------------------------------------------------------
(* The executors of a call and the barrier's done callback.                *)
ExecutorsEnd(r) ==
    /\ exec[r] = "running"
    /\ exec' = [exec EXCEPT ![r] = "ended"]
    /\ \E s \in {"ok", "error"} :
       /\ s = "error" => (r \in BadCalls \/ ~IsLive(scm[r]))
       /\ result' = [result EXCEPT ![r] = s]
    /\ UNCHANGED <<session, executors_, run, state, closers>>

DoneUpdates(r) ==
    /\ exec[r] = "ended"
    /\ exec' = [exec EXCEPT ![r] = "updated"]
    /\ status' = Update(r, result[r])
    /\ UNCHANGED <<session, executors_, run, scm, notified, frame, result, closers>>

DoneNotifies(r) ==
    /\ exec[r] = "updated"
    /\ exec' = [exec EXCEPT ![r] = "over"]
    /\ notified' = [notified EXCEPT ![r] = @ + 1]
    /\ UNCHANGED <<session, executors_, run, scm, status, frame, result, closers>>

-----------------------------------------------------------------------------
(* Run, from the wait for executors_done to the return.                    *)
Waits(r) ==
    /\ pc[r] \in {"wait", "wait_again"} /\ notified[r] > 0
    /\ Goto(r, "deregister")
    /\ UNCHANGED <<session, executors_, ret, uses, token, state, execs, closers>>

TimesOut(r) ==
    /\ pc[r] = "wait" /\ r \in HasTimeout /\ notified[r] = 0
    /\ status' = Update(r, "deadline_exceeded")
    /\ Goto(r, "cancel")
    /\ UNCHANGED <<session, executors_, ret, uses, token, scm, notified, frame,
                   execs, closers>>

TimeoutCancelsNothing(r) ==
    /\ pc[r] = "cancel"
    /\ Goto(r, "wait_again")
    /\ UNCHANGED <<session, executors_, ret, uses, token, state, execs, closers>>
TimeoutCancels(r) ==
    /\ pc[r] = "cancel"
    /\ IF IsLive(scm[r])
       THEN Goto(r, "cancelling") /\ scm' = [scm EXCEPT ![r] = BeginCancel(@)]
       ELSE Goto(r, "wait_again") /\ UNCHANGED scm
    /\ UNCHANGED <<session, executors_, ret, uses, token, status, notified, frame,
                   execs, closers>>

TimeoutCancelled(r) ==
    /\ pc[r] = "cancelling"
    /\ scm' = [scm EXCEPT ![r] = NotifyCancelled(EndCancel(@))]
    /\ Goto(r, "wait_again")
    /\ UNCHANGED <<session, executors_, ret, uses, token, status, notified, frame,
                   execs, closers>>

(* DeregisterCallback on the session's manager, and what Run makes of its  *)
(* result.                                                                 *)
IgnoresResult(r) ==
    /\ pc[r] = "deregister"
    /\ cm' = IF IsLive(cm) THEN Erase(cm, token[r]) ELSE cm
    /\ Goto(r, IF MustWait(cm) THEN "deregister_wait" ELSE "check")
    /\ UNCHANGED <<closed_, sessions_, executors_, ret, uses, token, state, execs,
                   closers>>
DeregisterStep(r) ==
    /\ pc[r] = "deregister"
    /\ \/ /\ IsLive(cm)
          /\ cm' = Erase(cm, token[r])
          /\ Goto(r, "check")
          /\ UNCHANGED status
       \/ /\ MustWait(cm)
          /\ Goto(r, "deregister_wait")
          /\ UNCHANGED <<cm, status>>
       \/ /\ ~IsLive(cm) /\ ~MustWait(cm)
          /\ status' = Update(r, "cancelled")
          /\ Goto(r, "check")
          /\ UNCHANGED cm
    /\ UNCHANGED <<closed_, sessions_, executors_, ret, uses, token, scm, notified,
                   frame, execs, closers>>

DeregisterWakes(r) ==
    /\ pc[r] = "deregister_wait" /\ cm.notified
    /\ status' = Update(r, "cancelled")
    /\ Goto(r, "check")
    /\ UNCHANGED <<session, executors_, ret, uses, token, scm, notified, frame,
                   execs, closers>>

(* RecvOutputs fails on a dead output, or one without a key.               *)
OutputsFail(r) == r \in BadCalls

(* The outputs are received only if the step succeeded.                    *)
RecvOutputs(r) ==
    /\ pc[r] = "check"
    /\ \/ status[r] # "ok" /\ Returns(r, status[r])
       \/ status[r] = "ok" /\ Returns(r, "ok")
       \/ status[r] = "ok" /\ OutputsFail(r) /\ Returns(r, "error")
    /\ Goto(r, "destroy")
    /\ UNCHANGED <<session, executors_, uses, token, state, execs, closers>>

(* The frame is destroyed in reverse order: the step's manager, then the   *)
(* RunState, whose destructor waits for executors_done.                    *)
DestroyManager(r) ==
    /\ pc[r] = "destroy"
    /\ frame' = [frame EXCEPT ![r] = "no_manager"]
    /\ Goto(r, "destroy_state")
    /\ UNCHANGED <<session, executors_, ret, uses, token, scm, status, notified,
                   execs, closers>>

DestroyRunState(r) ==
    /\ pc[r] = "destroy_state" /\ notified[r] > 0
    /\ frame' = [frame EXCEPT ![r] = "gone"]
    /\ Goto(r, "returned")
    /\ UNCHANGED <<session, executors_, ret, uses, token, scm, status, notified,
                   execs, closers>>

-----------------------------------------------------------------------------
(* DirectSessionFactory::Reset takes the list, then resets and closes what *)
(* it took.                                                                *)
TakeSessions(c) ==
    /\ c \in Resetter /\ at[c] = "idle"
    /\ sessions_' = "empty"
    /\ at' = [at EXCEPT ![c] = IF sessions_ = "listed" THEN "reset" ELSE "returned"]
    /\ UNCHANGED <<closed_, cm, executors_, run, state, execs, todo, cur>>

ResetSession(c) ==
    /\ at[c] = "reset"
    /\ at' = [at EXCEPT ![c] = "close"]
    /\ UNCHANGED <<session, executors_, run, state, execs, todo, cur>>

(* Close.  The callback that Run registered is StartCancel on the step's   *)
(* manager.                                                                *)
StartCancel(c) ==
    /\ at[c] = (IF c \in Resetter THEN "close" ELSE "idle")
    /\ IF IsLive(cm)
       THEN /\ todo' = [todo EXCEPT ![c] = {r \in Call : token[r] \in cm.callbacks}]
            /\ cm' = BeginCancel(cm)
            /\ at' = [at EXCEPT ![c] = "cancelling"]
       ELSE /\ at' = [at EXCEPT ![c] = "mark"]
            /\ UNCHANGED <<todo, cm>>
    /\ UNCHANGED <<closed_, sessions_, executors_, run, state, execs, cur>>

CancelStep(c) ==
    /\ at[c] = "cancelling" /\ cur[c] = Nobody
    /\ \E r \in todo[c] :
       /\ todo' = [todo EXCEPT ![c] = @ \ {r}]
       /\ IF IsLive(scm[r])
          THEN /\ cur' = [cur EXCEPT ![c] = r]
               /\ scm' = [scm EXCEPT ![r] = BeginCancel(@)]
          ELSE UNCHANGED <<cur, scm>>
    /\ UNCHANGED <<session, executors_, run, status, notified, frame, execs, at>>

StepCancelled(c) ==
    /\ cur[c] # Nobody
    /\ scm' = [scm EXCEPT ![cur[c]] = NotifyCancelled(EndCancel(@))]
    /\ cur' = [cur EXCEPT ![c] = Nobody]
    /\ UNCHANGED <<session, executors_, run, status, notified, frame, execs, at,
                   todo>>

MarkCancelled(c) ==
    /\ at[c] = "cancelling" /\ cur[c] = Nobody /\ todo[c] = {}
    /\ cm' = EndCancel(cm)
    /\ at' = [at EXCEPT ![c] = "notify"]
    /\ UNCHANGED <<closed_, sessions_, executors_, run, state, execs, todo, cur>>

Notify(c) ==
    /\ at[c] = "notify"
    /\ cm' = NotifyCancelled(cm)
    /\ at' = [at EXCEPT ![c] = "mark"]
    /\ UNCHANGED <<closed_, sessions_, executors_, run, state, execs, todo, cur>>

MarkClosed(c) ==
    /\ at[c] = "mark"
    /\ closed_' = "yes"
    /\ at' = [at EXCEPT ![c] = IF closed_ = "yes" THEN "returned" ELSE "deregister"]
    /\ UNCHANGED <<sessions_, cm, executors_, run, state, execs, todo, cur>>

Deregister(c) ==
    /\ at[c] = "deregister"
    /\ sessions_' = "empty"
    /\ at' = [at EXCEPT ![c] = "returned"]
    /\ UNCHANGED <<closed_, cm, executors_, run, state, execs, todo, cur>>

-----------------------------------------------------------------------------
Run(r) ==
    \/ CheckNotClosed(r) \/ RunRejected(r)
    \/ FastLookup(r) \/ SortedLookup(r) \/ InsertExecutors(r)
    \/ SendInputs(r) \/ RegisterStep(r) \/ RunAsync(r)
    \/ Waits(r) \/ TimesOut(r) \/ TimeoutCancels(r) \/ TimeoutCancelled(r)
    \/ DeregisterStep(r) \/ DeregisterWakes(r) \/ RecvOutputs(r)
    \/ DestroyManager(r) \/ DestroyRunState(r)

Executors(r) == ExecutorsEnd(r) \/ DoneUpdates(r) \/ DoneNotifies(r)

Close(c) ==
    \/ TakeSessions(c) \/ ResetSession(c)
    \/ StartCancel(c) \/ CancelStep(c) \/ StepCancelled(c)
    \/ MarkCancelled(c) \/ Notify(c) \/ MarkClosed(c) \/ Deregister(c)

(* Every call and every closer has returned.                               *)
AllReturned ==
    /\ \A r \in Call : pc[r] = "returned"
    /\ \A c \in Closer : at[c] = "returned"

Done == AllReturned /\ UNCHANGED vars

Next ==
    \/ \E r \in Call : Run(r) \/ Executors(r)
    \/ \E c \in Closer : Close(c)
    \/ Done

Spec == Init /\ [][Next]_vars

(* A thread that can move does so: calls that have begun, the executors of *)
(* calls that do not wait for ever or have been cancelled, and closers     *)
(* that have begun.  Nothing makes a client call Run or Close.             *)
Begun(r) == pc[r] # "idle"
MayNotBlock(r) == r \notin Blocks \/ ~IsLive(scm[r]) \/ exec[r] # "running"
Closing(c) == at[c] # "idle"

LiveSpec ==
    /\ Spec
    /\ \A r \in Call : WF_vars(Begun(r) /\ Run(r))
    /\ \A r \in Call : WF_vars(MayNotBlock(r) /\ Executors(r))
    /\ \A c \in Closer : WF_vars(Closing(c) /\ Close(c))

-----------------------------------------------------------------------------
(* Properties.                                                             *)
Statuses == {"ok", "error", "cancelled", "deadline_exceeded"}

TypeOK ==
    /\ closed_ \in {"yes", "no"} /\ sessions_ \in {"listed", "empty"}
    /\ cm \in Managers(Nat)
    /\ executors_ \in [Key -> Call \cup {Nobody}]
    /\ pc \in [Call -> {"idle", "lookup", "lookup_sorted", "create", "send",
                        "register", "start", "wait", "cancel", "cancelling",
                        "wait_again", "deregister", "deregister_wait", "check",
                        "destroy", "destroy_state", "returned"}]
    /\ ret \in [Call -> Statuses \cup {"none"}]
    /\ uses \in [Call -> Call \cup {Nobody}]
    /\ token \in [Call -> Nat \cup {kInvalidToken}]
    /\ scm \in [Call -> Managers(Nat)]
    /\ status \in [Call -> Statuses] /\ notified \in [Call -> Nat]
    /\ frame \in [Call -> {"none", "whole", "no_manager", "gone"}]
    /\ exec \in [Call -> {"none", "running", "ended", "updated", "over"}]
    /\ result \in [Call -> {"ok", "error"}]
    /\ at \in [Closer -> {"idle", "reset", "close", "cancelling", "notify", "mark",
                          "deregister", "returned"}]
    /\ todo \in [Closer -> SUBSET Call] /\ cur \in [Closer -> Call \cup {Nobody}]

(* Run's frame lives as long as anyone borrows it: the executors and the   *)
(* barrier's done callback use run_state and step_cancellation_manager, a  *)
(* thread in Close that took Run's callback will use the latter.           *)
Borrowed(r) ==
    \/ exec[r] \in {"running", "ended", "updated"}
    \/ \E c \in Closer : r \in todo[c] \cup {cur[c]}
FrameOutlivesItsUsers == \A r \in Call : Borrowed(r) => frame[r] = "whole"

(* A step that was cancelled, by Close or by its timeout, is never         *)
(* reported as a success: Run does not receive outputs that the cancelled  *)
(* executors may not have sent.                                            *)
CancelledRunsFail == \A r \in Call : ret[r] = "ok" => IsLive(scm[r])

(* Once Close has finished StartCancel no step runs on uncancelled,        *)
(* whenever it passed CheckNotClosed, registered and started.              *)
CancelReachesEveryStep ==
    \A r \in Call : cm.is_cancelled /\ exec[r] = "running" => ~IsLive(scm[r])

(* Calls with the same signature up to order run the same executors (so    *)
(* the same stateful kernels), also when they are built concurrently, and  *)
(* the cache keeps every ExecutorsAndKeys that a call uses.                *)
ExecutorsShared ==
    \A r, q \in Call :
        uses[r] # Nobody /\ uses[q] # Nobody /\ sorted[key[r]] = sorted[key[q]] =>
            uses[r] = uses[q] /\ executors_[key[r]] = uses[r]

(* A call that has a timeout, that does not wait for ever, or whose        *)
(* session is being closed returns; so on every early return of Run but    *)
(* one somebody notifies executors_done.  The exception: when its inputs   *)
(* could not be sent Run is stuck in the destructor of RunState            *)
(* (DestructorDoesNotBlock).                                               *)
RunsReturn ==
    \A r \in Call :
        Begun(r) /\ (r \in HasTimeout \/ r \notin Blocks \/ ~IsLive(cm))
            ~> \/ pc[r] = "returned"
               \/ pc[r] = "destroy_state" /\ exec[r] = "none" /\ InputsFail(r)

-----------------------------------------------------------------------------
(* What comments of the code say.                                          *)

(* direct_session.cc: "If we don't explicitly notify                       *)
(* `run_state.executors_done`, the RunState destructor would block on this *)
(* notification."  A Run whose executors never start notifies it.          *)
DestructorDoesNotBlock ==
    \A r \in Call : pc[r] = "destroy_state" /\ exec[r] = "none" => notified[r] > 0

(* direct_session.h: Deregister "ensures that Reset requests from the      *)
(* 'factory' don't get sent to sessions that are already closed".          *)
ResetFindsOpenSessions ==
    \A c \in Closer : at[c] = "reset" => closed_ = "no"
=============================================================================
