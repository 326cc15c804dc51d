--------------------------- MODULE DistributedStep ---------------------------
(***************************************************************************)
(* One step of a MasterSession on several workers: the RunGraph calls of   *)
(* master_session.cc, their handling by worker.cc and graph_mgr.cc, the    *)
(* RecvTensor calls of rpc_rendezvous_mgr.cc and their handling by         *)
(* grpc_worker_service.cc, the aborts and the clean-up; with calls that    *)
(* are slow, cancelled or lost, and workers that restart.                  *)
(*                                                                         *)
(* An executor is reduced to the sends and receives of its graph, done in  *)
(* order, and to its failure; the ExecutorBarrier of a worker is in its    *)
(* handler.  The graphs have been registered with the workers' first       *)
(* incarnations.  The client's own cancellation of RunStep is left out: it *)
(* calls the same StartCancel as Close.                                    *)
(***************************************************************************)
EXTENDS RemoteRendezvous

CONSTANTS Worker, Exec, NoKey,
          Jobs      \* what may be run, see Job

Call == ({"run"} \X Worker) \cup ({"recv"} \X Key)
RunCall(w) == <<"run", w>>
RecvCall(k) == <<"recv", k>>

(* order: the workers as RunPartitions calls them; units: the executors of *)
(* a worker; ops: the sends and receives of an executor; src, dst: where a *)
(* key is sent and received; fetch: the key a worker returns to the        *)
(* master, or NoKey; feeds: the workers whose request has inputs; bad:     *)
(* those whose request PrepareRunGraph refuses; fails: the executors that  *)
(* may fail; dead: the keys whose tensor may be dead; crashes: the workers *)
(* that may restart; cuts: the calls that may lose their connection while  *)
(* the worker lives on; closes: whether Close may be called.               *)
Job ==
    [order : Seq(Worker), units : [Worker -> SUBSET Exec],
     ops : [Exec -> Seq({"send", "recv"} \X Key)],
     src : [Key -> Worker], dst : [Key -> Worker],
     fetch : [Worker -> Key \cup {NoKey}], feeds : SUBSET Worker,
     bad : SUBSET Worker, fails : SUBSET Exec, dead : SUBSET Key,
     crashes : SUBSET Worker, cuts : SUBSET Call, closes : {"no", "yes"}]

ASSUME DistributedAssumption == Jobs \subseteq Job /\ NoKey \notin Key

VARIABLES
    job,      \* what is run
    master,   \* RunPartitions and its RunManyGraphs
    session,  \* "open", or "closed" by Close
    rpc,      \* Call -> the remote call, see NewCall
    mgr,      \* Worker -> its rendezvous manager
    inc,      \* Worker -> its incarnation: "first" or "second"
    run,      \* Worker -> its handler of RunGraph
    exec,     \* Exec -> the executor
    status,   \* Key -> status_ of its RpcRecvTensorCall
    object,   \* Key -> the object whose waiter the RecvTensor handler is, or 0
    aborter,  \* Call or Worker -> AbortStep's closure, Cleanup of the worker
    ran       \* Exec -> how it ended, whatever became of its worker

vars == <<job, master, session, rpc, mgr, inc, run, exec, status, object,
          aborter, ran>>

(* client: "none", "waiting" (cancel_func_ is set), "done" or "gone";      *)
(* server: "none", "sent", "handling", "replied" or "lost"; cancelled: by  *)
(* the client; told: the server has heard of that; armed: the handler has  *)
(* set its cancel callback.                                                *)
NewCall == [client |-> "none", server |-> "none", result |-> "none",
            cancelled |-> "no", told |-> "no", armed |-> "no"]
NewRun == [at |-> "none", obj |-> 0, out |-> 0, pending |-> 0, status |-> "ok",
           cm |-> "none", cancelling |-> "no"]
NewExec == [at |-> "none", pos |-> 1, status |-> "ok", last |-> "no"]
NewAborter == [at |-> "none", obj |-> 0]

Parts == {job.order[i] : i \in DOMAIN job.order}
Server(c) == IF c[1] = "run" THEN c[2] ELSE job.src[c[2]]

Init ==
    /\ job \in Jobs
    /\ master = [at |-> "issue", next |-> 1, status |-> "ok",
                 registered |-> "no", result |-> "none"]
    /\ session = "open"
    /\ rpc = [c \in Call |-> NewCall]
    /\ mgr = [w \in Worker |-> NewMgr]
    /\ inc = [w \in Worker |-> "first"]
    /\ run = [w \in Worker |-> NewRun]
    /\ exec = [e \in Exec |-> NewExec]
    /\ status = [k \in Key |-> "ok"]
    /\ object = [k \in Key |-> 0]
    /\ aborter = [t \in Call \cup Worker |-> NewAborter]
    /\ ran = [e \in Exec |-> "no"]

Issued(r, c) == [r EXCEPT ![c].client = "waiting", ![c].server = "sent"]
(* StartCancel of the CallOptions of the calls in C: TryCancel, where a    *)
(* call is waiting; otherwise there is no cancel_func_.                    *)
TryCancel(r, C) ==
    [c \in Call |-> IF c \in C /\ r[c].client = "waiting"
                    THEN [r[c] EXCEPT !.cancelled = "yes"] ELSE r[c]]
Replied(r, c, s) ==
    [r EXCEPT ![c].server = "replied", ![c].result = s, ![c].armed = "no"]

-----------------------------------------------------------------------------
(* RunPartitions issues the calls, one after the other.                    *)
RunGraphAsync ==
    /\ master.at = "issue" /\ master.next <= Len(job.order)
    /\ rpc' = Issued(rpc, RunCall(job.order[master.next]))
    /\ master' = [master EXCEPT !.next = @ + 1]
    /\ UNCHANGED <<job, session, mgr, inc, run, exec, status, object, aborter, ran>>

(* UpdateStatusLocked: only the first error cancels the calls.             *)
UpdateStatus(s) ==
    IF master.status = "ok" /\ s # "ok" THEN s ELSE master.status
CancelsCalls(s) == IF master.status = "ok" /\ s # "ok" THEN {"run"} \X Worker ELSE {}

(* RunPartitions registers with the session's cancellation_manager_.       *)
RegisterCallback ==
    /\ master.at = "issue" /\ master.next > Len(job.order)
    /\ IF session = "open"
       THEN /\ master' = [master EXCEPT !.at = "wait", !.registered = "yes"]
            /\ UNCHANGED rpc
       ELSE /\ master' = [master EXCEPT !.at = "wait",
                                        !.status = UpdateStatus("cancelled")]
            /\ rpc' = TryCancel(rpc, CancelsCalls("cancelled"))
    /\ UNCHANGED <<job, session, mgr, inc, run, exec, status, object, aborter, ran>>

(* Close: it sets closed_ and calls StartCancel.                           *)
CloseSession ==
    /\ session = "open" /\ job.closes = "yes"
    /\ session' = "closed"
    /\ IF master.at = "wait"
       THEN /\ master' = [master EXCEPT !.status = UpdateStatus("cancelled")]
            /\ rpc' = TryCancel(rpc, CancelsCalls("cancelled"))
       ELSE UNCHANGED <<master, rpc>>
    /\ UNCHANGED <<job, mgr, inc, run, exec, status, object, aborter, ran>>

(* The call of a worker is over for the master, with result s: WhenDone.   *)
ForgetsErrors(w, s) == master
WhenDone(w, s) == [master EXCEPT !.status = UpdateStatus(s)]

(* Wait returns; the result is settled; CleanupPartitionsAsync follows.    *)
WaitReturns ==
    /\ master.at = "wait"
    /\ \A w \in Parts : rpc[RunCall(w)].client = "done"
    /\ master' = [master EXCEPT !.at = "returned",
                    !.result = IF master.registered = "yes" THEN master.status
                               ELSE "cancelled"]
    /\ aborter' = [t \in DOMAIN aborter |->
                     IF t \in Parts THEN [aborter[t] EXCEPT !.at = "sent"]
                     ELSE aborter[t]]
    /\ UNCHANGED <<job, session, rpc, mgr, inc, run, exec, status, object, ran>>

-----------------------------------------------------------------------------
(* The RPC layer, external.  A call is over for its client with s; the     *)
(* calls are at r.                                                         *)
Completes(r, c, s) ==
    LET over == [r EXCEPT ![c].client = "done"]
    IN  IF c[1] = "run"
        THEN /\ master' = WhenDone(c[2], s)
             /\ rpc' = TryCancel(over, CancelsCalls(s))
             /\ UNCHANGED <<exec, status>>
        ELSE /\ rpc' = over
             /\ status' = [status EXCEPT ![c[2]] =
                             IF @ = "ok" /\ s # "ok" THEN s ELSE @]
             /\ exec' = [e \in Exec |->
                           IF exec[e].at = "rpc" /\ job.ops[e][exec[e].pos][2] = c[2]
                           THEN [exec[e] EXCEPT !.at = "dereg"] ELSE exec[e]]
             /\ UNCHANGED master

ReplyArrives(c) ==
    /\ rpc[c].client = "waiting" /\ rpc[c].server = "replied"
    /\ Completes(rpc, c, rpc[c].result)
    /\ UNCHANGED <<job, session, mgr, inc, run, object, aborter, ran>>

CancelledAtClient(c) ==
    /\ rpc[c].client = "waiting" /\ rpc[c].cancelled = "yes"
    /\ Completes(rpc, c, "cancelled")
    /\ UNCHANGED <<job, session, mgr, inc, run, object, aborter, ran>>

ConnectionLost(c) ==
    /\ rpc[c].client = "waiting" /\ rpc[c].server = "lost"
    /\ Completes(rpc, c, "unavailable")
    /\ UNCHANGED <<job, session, mgr, inc, run, object, aborter, ran>>

(* The connection breaks and the worker lives on: a request that was on    *)
(* its way may be lost, and the server takes it for a cancellation.        *)
ConnectionBreaks(c) ==
    /\ rpc[c].client = "waiting" /\ c \in job.cuts
    /\ rpc[c].server # "lost"
    /\ \E s \in {"lost"} \cup {rpc[c].server} :
          /\ s = "lost" => rpc[c].server = "sent"
          /\ Completes([rpc EXCEPT ![c].server = s, ![c].cancelled = "yes"],
                       c, "unavailable")
    /\ UNCHANGED <<job, session, mgr, inc, run, object, aborter, ran>>

(* AbortStep: Find, which may create an object, and a closure for later.   *)
AbortStep(w, t) ==
    LET m == FindOrCreate(mgr[w])
    IN  /\ mgr' = [mgr EXCEPT ![w] = m]
        /\ aborter' = [aborter EXCEPT ![t] = [at |-> "abort", obj |-> m.table]]

(* RequestCancelled: the server hears that the client has cancelled.  The  *)
(* handler's callback runs if it is set; the one of RunGraph in two steps, *)
(* with the mutex of its CallOptions, as it uses the handler's cm.         *)
RequestCancelled(c) ==
    /\ rpc[c].cancelled = "yes" /\ rpc[c].told = "no"
    /\ rpc[c].server \in {"sent", "handling"}
    /\ rpc' = [rpc EXCEPT ![c].told = "yes"]
    /\ CASE rpc[c].armed = "no" -> UNCHANGED <<mgr, aborter, run>>
         [] rpc[c].armed = "yes" /\ c[1] = "run" ->
               /\ run' = [run EXCEPT ![c[2]].cancelling = "yes"]
               /\ UNCHANGED <<mgr, aborter>>
         [] rpc[c].armed = "yes" /\ c[1] = "recv" ->
               AbortStep(Server(c), c) /\ UNCHANGED run
    /\ UNCHANGED <<job, master, session, inc, exec, status, object, ran>>

CancelRunGraph(w) ==
    /\ run[w].cancelling = "yes"
    /\ AbortStep(w, RunCall(w))
    /\ run' = [run EXCEPT ![w].cancelling = "no"]
    /\ UNCHANGED <<job, master, session, rpc, inc, exec, status, object, ran>>

-----------------------------------------------------------------------------
(* RunGraph at the worker.  RunGraphHandler and DoRunGraph.                *)
HandleRunGraph(w) ==
    LET c == RunCall(w)
    IN  /\ rpc[c].server = "sent"
        /\ IF w \in job.bad
           THEN rpc' = Replied(rpc, c, "error") /\ UNCHANGED run
           ELSE /\ rpc' = [rpc EXCEPT ![c].server = "handling", ![c].armed = "yes"]
                /\ run' = [run EXCEPT ![w] = [NewRun EXCEPT !.at = "prepared",
                                                            !.cm = "live"]]
        /\ UNCHANGED <<job, master, session, mgr, inc, exec, status, object,
                       aborter, ran>>

(* ExecuteAsync and StartParallelExecutors.  A restarted worker does not   *)
(* know the graph handle.                                                  *)
ExecuteAsync(w) ==
    /\ run[w].at = "prepared"
    /\ IF inc[w] # "first"
       THEN /\ run' = [run EXCEPT ![w].at = "clear", ![w].status = "error"]
            /\ UNCHANGED <<mgr, exec>>
       ELSE LET m == FindOrCreate(mgr[w])
                refused == w \in job.feeds /\ LocalAborted(m, m.table)
            IN  /\ mgr' = [mgr EXCEPT ![w] = m]
                /\ run' = [run EXCEPT ![w].obj = m.table,
                             ![w].pending = Cardinality(job.units[w]),
                             ![w].at = IF refused THEN "clear" ELSE "executing",
                             ![w].status = IF refused THEN "error" ELSE "ok"]
                /\ exec' = [e \in Exec |-> IF e \in job.units[w] /\ ~refused
                                           THEN [NewExec EXCEPT !.at = "ready"]
                                           ELSE exec[e]]
    /\ UNCHANGED <<job, master, session, rpc, inc, status, object, aborter, ran>>

(* The executors are done: RecvOutputs, which finds the object anew.       *)
RecvOutputs(w) ==
    /\ run[w].at = "done"
    /\ IF run[w].status # "ok" \/ job.fetch[w] = NoKey
       THEN run' = [run EXCEPT ![w].at = "clear"] /\ UNCHANGED mgr
       ELSE LET m == FindOrCreate(mgr[w])
            IN  IF LocalAborted(m, m.table)
                THEN /\ mgr' = [mgr EXCEPT ![w] = Unref(m, m.table)]
                     /\ run' = [run EXCEPT ![w].at = "clear", ![w].status = "error"]
                ELSE /\ mgr' = [mgr EXCEPT ![w] = LocalRecv(m, m.table, job.fetch[w])]
                     /\ run' = [run EXCEPT ![w].at = "outputs", ![w].out = m.table]
    /\ UNCHANGED <<job, master, session, rpc, inc, exec, status, object, aborter, ran>>

OutputsReceived(w) ==
    LET o == run[w].out
        k == job.fetch[w]
    IN  /\ run[w].at = "outputs" /\ Answered(mgr[w], o, k)
        /\ mgr' = [mgr EXCEPT ![w] = Unref(Close(@, o, k), o)]
        /\ \E s \in {Answer(mgr[w], o, k)} \cup {"error" : d \in job.dead \cap {k}} :
              run' = [run EXCEPT ![w].at = "clear", ![w].out = 0, ![w].status = s]
        /\ UNCHANGED <<job, master, session, rpc, inc, exec, status, object,
                       aborter, ran>>

(* ClearCancelCallback waits for the mutex that a StartCancel holds.       *)
MayClear(w) == run[w].cancelling = "no"
ClearCancelCallback(w) ==
    /\ run[w].at = "clear" /\ MayClear(w)
    /\ run' = [run EXCEPT ![w].at = "reply", ![w].cm = "deleted"]
    /\ rpc' = [rpc EXCEPT ![RunCall(w)].armed = "no"]
    /\ UNCHANGED <<job, master, session, mgr, inc, exec, status, object, aborter, ran>>

RunGraphReplies(w) ==
    /\ run[w].at = "reply"
    /\ rpc' = Replied(rpc, RunCall(w), run[w].status)
    /\ run' = [run EXCEPT ![w].at = IF run[w].obj = 0 THEN "over" ELSE "unref"]
    /\ UNCHANGED <<job, master, session, mgr, inc, exec, status, object, aborter, ran>>

UnrefRendezvous(w) ==
    /\ run[w].at = "unref"
    /\ run' = [run EXCEPT ![w].at = "over"]
    /\ mgr' = [mgr EXCEPT ![w] = Unref(@, run[w].obj)]
    /\ UNCHANGED <<job, master, session, rpc, inc, exec, status, object, aborter, ran>>

-----------------------------------------------------------------------------
(* The executors of worker w, on the object run[w].obj.                    *)
Op(e) == job.ops[e][exec[e].pos]
HasOp(e, kind) ==
    exec[e].at = "ready" /\ exec[e].pos <= Len(job.ops[e]) /\ Op(e)[1] = kind
(* The operation of e ends with s: the next one, or the end.               *)
OpEnds(e, s) ==
    exec' = [exec EXCEPT ![e].at = IF s = "ok" THEN "ready" ELSE "barrier",
                         ![e].pos = @ + 1, ![e].status = s]

SendOp(w, e) ==
    LET o == run[w].obj
    IN  /\ HasOp(e, "send")
        /\ IF LocalAborted(mgr[w], o)
           THEN OpEnds(e, "error") /\ UNCHANGED mgr
           ELSE /\ OpEnds(e, "ok")
                /\ mgr' = [mgr EXCEPT ![w] = LocalSend(@, o, Op(e)[2])]
        /\ UNCHANGED <<job, master, session, rpc, inc, run, status, object,
                       aborter, ran>>

(* RecvAsync of a key that is sent by the same worker.                     *)
RecvLocally(w, e) ==
    LET o == run[w].obj
        k == Op(e)[2]
    IN  /\ HasOp(e, "recv") /\ job.src[k] = w
        /\ IF LocalAborted(mgr[w], o)
           THEN OpEnds(e, "error") /\ UNCHANGED mgr
           ELSE /\ exec' = [exec EXCEPT ![e].at = "local"]
                /\ mgr' = [mgr EXCEPT ![w] = LocalRecv(@, o, k)]
        /\ UNCHANGED <<job, master, session, rpc, inc, run, status, object,
                       aborter, ran>>

RecvLocallyDone(w, e) ==
    LET o == run[w].obj
        k == Op(e)[2]
    IN  /\ exec[e].at = "local" /\ Answered(mgr[w], o, k)
        /\ OpEnds(e, Answer(mgr[w], o, k))
        /\ mgr' = [mgr EXCEPT ![w] = Close(@, o, k)]
        /\ UNCHANGED <<job, master, session, rpc, inc, run, status, object,
                       aborter, ran>>

(* RecvAsync and RecvFromRemoteAsync of the others: the check of status_,  *)
(* RegisterCall, Start, and its callback in two steps.                     *)
RecvFromRemote(w, e) ==
    /\ HasOp(e, "recv") /\ job.src[Op(e)[2]] # w
    /\ IF Aborted(mgr[w], run[w].obj)
       THEN OpEnds(e, "error")
       ELSE exec' = [exec EXCEPT ![e].at = "register"]
    /\ UNCHANGED <<job, master, session, rpc, mgr, inc, run, status, object,
                   aborter, ran>>

RegisterRecvTensor(w, e) ==
    LET o == run[w].obj
        k == Op(e)[2]
    IN  /\ exec[e].at = "register"
        /\ exec' = [exec EXCEPT ![e].at = "start"]
        /\ mgr' = [mgr EXCEPT ![w] = RegisterCall(@, o, k)]
        /\ status' = [status EXCEPT ![k] = IF Aborted(mgr[w], o) THEN "error" ELSE "ok"]
        /\ UNCHANGED <<job, master, session, rpc, inc, run, object, aborter, ran>>

StartWithoutRef(w, e) ==
    /\ exec' = [exec EXCEPT ![e].at = "rpc"]
    /\ rpc' = Issued(rpc, RecvCall(Op(e)[2]))
    /\ UNCHANGED mgr
StartRecvTensor(w, e) ==
    /\ exec' = [exec EXCEPT ![e].at = "rpc"]
    /\ mgr' = [mgr EXCEPT ![w] = Ref(@, run[w].obj)]
    /\ rpc' = Issued(rpc, RecvCall(Op(e)[2]))
StartStep(w, e) ==
    /\ exec[e].at = "start" /\ StartRecvTensor(w, e)
    /\ UNCHANGED <<job, master, session, inc, run, status, object, aborter, ran>>

DeregisterStep(w, e) ==
    /\ exec[e].at = "dereg"
    /\ exec' = [exec EXCEPT ![e].at = "received"]
    /\ mgr' = [mgr EXCEPT ![w] = DeregisterCall(@, run[w].obj, Op(e)[2])]
    /\ UNCHANGED <<job, master, session, rpc, inc, run, status, object, aborter, ran>>

RecvDone(w, e) ==
    /\ exec[e].at = "received"
    /\ OpEnds(e, status[Op(e)[2]])
    /\ mgr' = [mgr EXCEPT ![w] = Unref(@, run[w].obj)]
    /\ UNCHANGED <<job, master, session, rpc, inc, run, status, object, aborter, ran>>

(* The executor ends, or one of its kernels fails.                         *)
ExecutorEnds(e) ==
    /\ exec[e].at = "ready"
    /\ \/ /\ exec[e].pos > Len(job.ops[e])
          /\ exec' = [exec EXCEPT ![e].at = "barrier"]
       \/ /\ e \in job.fails
          /\ exec' = [exec EXCEPT ![e].at = "barrier", ![e].status = "error"]
    /\ UNCHANGED <<job, master, session, rpc, mgr, inc, run, status, object,
                   aborter, ran>>

(* WhenDone of the ExecutorBarrier: the first error aborts the rendezvous, *)
(* the last executor then calls done.                                      *)
BarrierWhenDone(w, e) ==
    LET first == run[w].status = "ok" /\ exec[e].status # "ok"
        last == run[w].pending = 1
    IN  /\ exec[e].at = "barrier"
        /\ ran' = [ran EXCEPT ![e] = exec[e].status]
        /\ exec' = [exec EXCEPT ![e].at = IF first THEN "abort" ELSE "over",
                                ![e].last = IF last THEN "yes" ELSE "no"]
        /\ run' = [run EXCEPT ![w].pending = @ - 1,
                     ![w].status = IF first THEN exec[e].status ELSE @,
                     ![w].at = IF last /\ ~first THEN "done" ELSE @]
        /\ mgr' = IF first THEN [mgr EXCEPT ![w] = Ref(@, run[w].obj)] ELSE mgr
        /\ UNCHANGED <<job, master, session, rpc, inc, status, object, aborter>>

(* The second part of StartAbort on object o of worker w, and Unref.       *)
AbortActiveCalls(w, o) ==
    LET C == CallsToAbort(mgr[w], o)
    IN  /\ mgr' = [mgr EXCEPT ![w] = Unref(AbortCalls(@, o), o)]
        /\ status' = [k \in Key |-> IF k \in C /\ status[k] = "ok" THEN "error"
                                    ELSE status[k]]
        /\ rpc' = TryCancel(rpc, {"recv"} \X C)

BarrierAborts(w, e) ==
    \/ /\ exec[e].at = "abort"
       /\ exec' = [exec EXCEPT ![e].at = "abort calls"]
       /\ mgr' = [mgr EXCEPT ![w] = AbortLocal(@, run[w].obj)]
       /\ UNCHANGED <<job, master, session, rpc, inc, run, status, object,
                      aborter, ran>>
    \/ /\ exec[e].at = "abort calls"
       /\ exec' = [exec EXCEPT ![e].at = "over"]
       /\ AbortActiveCalls(w, run[w].obj)
       /\ run' = [run EXCEPT ![w].at = IF exec[e].last = "yes" THEN "done" ELSE @]
       /\ UNCHANGED <<job, master, session, inc, object, aborter, ran>>

-----------------------------------------------------------------------------
(* RecvTensor at the sending worker: the check of the incarnation, and     *)
(* RecvLocalAsync.                                                         *)
AnyIncarnation(w) == TRUE
SameIncarnation(w) == inc[w] = "first"
HandleRecvTensor(k) ==
    LET c == RecvCall(k)
        w == Server(c)
        m == FindOrCreate(mgr[w])
    IN  /\ rpc[c].server = "sent"
        /\ IF ~SameIncarnation(w)
           THEN rpc' = Replied(rpc, c, "error") /\ UNCHANGED <<mgr, object>>
           ELSE IF LocalAborted(m, m.table)
           THEN /\ mgr' = [mgr EXCEPT ![w] = Unref(m, m.table)]
                /\ rpc' = Replied(rpc, c, "error")
                /\ UNCHANGED object
           ELSE /\ mgr' = [mgr EXCEPT ![w] = LocalRecv(m, m.table, k)]
                /\ object' = [object EXCEPT ![k] = m.table]
                /\ rpc' = [rpc EXCEPT ![c].server = "handling", ![c].armed = "yes"]
        /\ UNCHANGED <<job, master, session, inc, run, exec, status, aborter, ran>>

RecvTensorReplies(k) ==
    LET w == Server(RecvCall(k))
        o == object[k]
    IN  /\ rpc[RecvCall(k)].server = "handling" /\ Answered(mgr[w], o, k)
        /\ mgr' = [mgr EXCEPT ![w] = Unref(Close(@, o, k), o)]
        /\ object' = [object EXCEPT ![k] = 0]
        /\ rpc' = Replied(rpc, RecvCall(k), Answer(mgr[w], o, k))
        /\ UNCHANGED <<job, master, session, inc, run, exec, status, aborter, ran>>

(* Cleanup at worker w: the object leaves table_; then StartAbort, Unref.  *)
Cleanup(w) ==
    /\ aborter[w].at = "sent"
    /\ aborter' = [aborter EXCEPT ![w] =
                     IF mgr[w].table = 0 THEN [@ EXCEPT !.at = "over"]
                     ELSE [at |-> "abort", obj |-> mgr[w].table]]
    /\ mgr' = [mgr EXCEPT ![w] = TakeFromTable(@)]
    /\ UNCHANGED <<job, master, session, rpc, inc, run, exec, status, object, ran>>

(* StartAbort and Unref of Cleanup and of the closures of AbortStep; the   *)
(* first part of StartAbort does nothing when local_ is aborted already.   *)
Place(t) == IF t \in Worker THEN t ELSE Server(t)
StartAbort(t) ==
    /\ \/ /\ aborter[t].at = "abort"
          /\ ~LocalAborted(mgr[Place(t)], aborter[t].obj)
          /\ aborter' = [aborter EXCEPT ![t].at = "abort calls"]
          /\ mgr' = [mgr EXCEPT ![Place(t)] = AbortLocal(@, aborter[t].obj)]
          /\ UNCHANGED <<status, rpc>>
       \/ /\ \/ aborter[t].at = "abort calls"
             \/ aborter[t].at = "abort" /\ LocalAborted(mgr[Place(t)], aborter[t].obj)
          /\ aborter' = [aborter EXCEPT ![t] = [at |-> "over", obj |-> 0]]
          /\ AbortActiveCalls(Place(t), aborter[t].obj)
    /\ UNCHANGED <<job, master, session, inc, run, exec, object, ran>>

(* A worker restarts: its state is lost, the calls it handled end, those   *)
(* on the way to it or back from it may, and the calls it made have no     *)
(* client any more, which their servers take for a cancellation.           *)
Restart(w) ==
    LET Here(c) == Server(c) = w /\ rpc[c].client # "none"
        Mine(c) == c[1] = "recv" /\ job.dst[c[2]] = w /\ rpc[c].client # "none"
    IN  /\ w \in job.crashes /\ inc[w] = "first"
        /\ inc' = [inc EXCEPT ![w] = "second"]
        /\ \E L \in SUBSET {c \in Call : Here(c) /\ rpc[c].server \in {"sent", "replied"}} :
             rpc' = [c \in Call |->
                      CASE Mine(c) -> [rpc[c] EXCEPT !.client = "gone",
                                                     !.cancelled = "yes"]
                        [] c \in L \/ (Here(c) /\ rpc[c].server = "handling") ->
                             [rpc[c] EXCEPT !.server = "lost", !.armed = "no"]
                        [] OTHER -> rpc[c]]
        /\ mgr' = [mgr EXCEPT ![w] = NewMgr]
        /\ run' = [run EXCEPT ![w] = NewRun]
        /\ exec' = [e \in Exec |-> IF e \in job.units[w] THEN NewExec ELSE exec[e]]
        /\ object' = [k \in Key |-> IF job.src[k] = w THEN 0 ELSE object[k]]
        /\ aborter' = [t \in DOMAIN aborter |->
                         IF Place(t) = w /\ aborter[t].at # "sent" THEN NewAborter
                         ELSE aborter[t]]
        /\ UNCHANGED <<job, master, session, status, ran>>

-----------------------------------------------------------------------------
MasterStep == RunGraphAsync \/ RegisterCallback \/ WaitReturns
CallStep(c) ==
    \/ ReplyArrives(c) \/ CancelledAtClient(c) \/ ConnectionLost(c)
HandlerStep(w) ==
    \/ HandleRunGraph(w) \/ ExecuteAsync(w) \/ RecvOutputs(w) \/ OutputsReceived(w)
    \/ ClearCancelCallback(w) \/ RunGraphReplies(w) \/ UnrefRendezvous(w)
ExecutorStep(w, e) ==
    \/ SendOp(w, e) \/ RecvLocally(w, e) \/ RecvLocallyDone(w, e)
    \/ RecvFromRemote(w, e) \/ RegisterRecvTensor(w, e) \/ StartStep(w, e)
    \/ DeregisterStep(w, e) \/ RecvDone(w, e) \/ ExecutorEnds(e)
    \/ BarrierWhenDone(w, e) \/ BarrierAborts(w, e)
RecvHandlerStep(k) == HandleRecvTensor(k) \/ RecvTensorReplies(k)

(* What the program and the RPC layer do by themselves.                    *)
ProgramStep ==
    \/ MasterStep
    \/ \E c \in Call : CallStep(c)
    \/ \E w \in Worker : \/ HandlerStep(w) \/ CancelRunGraph(w) \/ Cleanup(w)
                         \/ \E e \in job.units[w] : ExecutorStep(w, e)
    \/ \E k \in Key : RecvHandlerStep(k)
    \/ \E t \in Call \cup Worker : StartAbort(t)

Next ==
    \/ ProgramStep \/ CloseSession
    \/ \E c \in Call : RequestCancelled(c) \/ ConnectionBreaks(c)
    \/ \E w \in Worker : Restart(w)

(* While a thread can go on, or a reply, a cancellation or the loss of a   *)
(* connection is on its way to the client of a call, one of these things   *)
(* happens.  That is all: each of them happens finitely often, so none is  *)
(* put off for ever.  That a server hears of a cancellation is not assumed.*)
Fairness == WF_vars(ProgramStep)

Spec == Init /\ [][Next]_vars /\ Fairness

-----------------------------------------------------------------------------
(* The references to object o of worker w that someone holds.              *)
Holders(w, o) ==
    {t \in {<<"table", w>>} : mgr[w].table = o}
    \cup {t \in {<<"handler", w>>} : run[w].obj = o /\ run[w].at \notin {"none", "over"}}
    \cup {t \in {<<"outputs", w>>} : run[w].out = o}
    \cup {<<"abort", e>> : e \in {d \in job.units[w] :
             run[w].obj = o /\ exec[d].at \in {"abort", "abort calls"}}}
    \cup {<<"receive", e>> : e \in {d \in job.units[w] :
             run[w].obj = o /\ exec[d].at \in {"rpc", "dereg", "received"}}}
    \cup {<<"serve", k>> : k \in {j \in Key : job.src[j] = w /\ object[j] = o}}
    \cup {<<"aborter", t>> : t \in {u \in DOMAIN aborter :
             Place(u) = w /\ aborter[u].obj = o}}

(* Nothing is freed in use: each BaseRemoteRendezvous has exactly the      *)
(* references that the table, the handlers, the calls under way and the    *)
(* pending aborts hold, however the step ends; the CHECK of its destructor *)
(* that no call is active never fails; and the CancellationManager that    *)
(* the cancel callback of RunGraph uses lives while the callback runs.     *)
NothingFreedInUse ==
    \A w \in Worker :
        /\ mgr[w].failed = {}
        /\ \A o \in DOMAIN mgr[w].rdv :
              mgr[w].rdv[o].refs = Cardinality(Holders(w, o))
        /\ run[w].cancelling = "yes" => run[w].cm = "live"

(* active_ holds the calls that an abort has to reach and no other: those  *)
(* between RegisterCall and DeregisterCall on an object that is not        *)
(* aborted.  An abort never touches a call that was given back to the free *)
(* list, and a call that it found, or that came too late, has its status.  *)
ActiveCallsAreOut ==
    \A w \in Worker : run[w].at = "executing" =>
        LET active == mgr[w].rdv[run[w].obj].active
            out == {Op(e)[2] : e \in {d \in job.units[w] :
                                         exec[d].at \in {"start", "rpc", "dereg"}}}
        IN  active \subseteq out /\ \A k \in out \ active : status[k] # "ok"

(* A step that returns OK has run every executor of every worker to its    *)
(* end, although errors, cancellations and restarts may come in any order. *)
OkMeansAllRan ==
    master.result = "ok" =>
        \A w \in Parts : \A e \in job.units[w] : ran[e] = "ok"

(* A RunGraph call has ended with an error although its worker lives, and  *)
(* others are still to be issued: StartCancel found no cancel_func_ on     *)
(* them, and no later error will cancel them.                              *)
CallsLeftAlone ==
    /\ master.status # "ok" /\ master.next <= Len(job.order)
    /\ \A w \in Worker : inc[w] = "first"

(* Run returns in the end if executors fail, workers restart, requests are *)
(* refused, connections break or the session is closed, in any order but   *)
(* one: no worker waits for ever for a tensor that will never be sent. The *)
(* exception is CallsLeftAlone (see CloseEndsStep).                        *)
StepReturns == <>(master.at = "returned") \/ <>CallsLeftAlone

(* master_session.h: cancellation_manager_ is "Used to cancel running      *)
(* steps on Close()."  A step that is running when the session is closed   *)
(* comes to its end, whatever has failed before.                           *)
CloseEndsStep == (session = "closed") ~> (master.at = "returned")

(* When a step has returned OK, each worker ends up with no rendezvous for *)
(* it: nothing is left in table_ and no object is leaked.                  *)
Gone(w) == mgr[w].table = 0 /\ \A o \in DOMAIN mgr[w].rdv : mgr[w].rdv[o].refs = 0
OkStepLeavesNothing == (master.result = "ok") ~> [](\A w \in Worker : Gone(w))
=============================================================================
