------------------------------ MODULE EventMgr ------------------------------
(***************************************************************************)
(* tensorflow/core/common_runtime/gpu/gpu_event_mgr.{cc,h} over the memory *)
(* of a BFCAllocator: memory that kernels may still use goes back to the   *)
(* allocator only when the event recorded behind them has completed.       *)
(*                                                                         *)
(* A client launches a kernel on a stream with the memory it holds.  It    *)
(* then gives the memory to the manager, with ThenDeleteBuffer or          *)
(* ThenDeleteTensors, or asks with ThenExecute to be called when the       *)
(* kernel is done.  The Poller is the thread in PollLoop; that it waits or *)
(* sleeps between two sweeps, for a bounded time whether it is notified or *)
(* not, is not modelled, nor the event that ends in an error.              *)
(***************************************************************************)
EXTENDS AllocatorRetry

CONSTANTS Poller,
          deferred_bytes_threshold_  \* in bytes, as accumulated_tensor_bytes_

ASSUME EventAssumption ==
    /\ Thread = Client \cup {Poller} /\ Poller \notin Client
    /\ Nobody \notin Stream /\ deferred_bytes_threshold_ \in Nat

VARIABLES
    em,       \* the EventMgr
    mu_,      \* who keeps its mutex from one step to the next
    pos,      \* the record of used_events_ that its PollEvents is at
    streams,  \* Stream -> the kernels and events not done yet, in order
    on,       \* Client -> the stream of its kernel, or Nobody
    asked,    \* Client -> its ThenExecute: "no", "yes", or "called" back
    pool      \* what threadpool_ has to run: clients to call

em_vars == <<em, mu_, pos, streams, on, asked, pool>>
vars == <<retry_vars, em_vars>>

NoEvent == 0

Init ==
    /\ RetryInit
    /\ em = [used_events |-> << >>, free_events |-> << >>, events |-> 0,
             stream |-> Nobody, tensors |-> << >>, bytes |-> 0]
    /\ mu_ = Nobody /\ pos = 0
    /\ streams = [s \in Stream |-> << >>]
    /\ on = [c \in Client |-> Nobody]
    /\ asked = [c \in Client |-> "no"]
    /\ pool = << >>

-----------------------------------------------------------------------------
(* The device, external.                                                   *)
Launch(c) ==
    /\ pc[c] = "holds" /\ on[c] = Nobody /\ asked[c] = "no"
    /\ ask[c].use # "free"
    /\ on' = [on EXCEPT ![c] = ask[c].stream]
    /\ streams' = [streams EXCEPT ![ask[c].stream] =
                      Append(@, <<"kernel", mem[c]>>)]
    /\ UNCHANGED <<retry_vars, em, mu_, pos, asked, pool>>

StreamAdvances(s) ==
    /\ streams[s] # << >>
    /\ streams' = [streams EXCEPT ![s] = Tail(@)]
    /\ UNCHANGED <<retry_vars, em, mu_, pos, on, asked, pool>>

(* Event::PollForStatus is kComplete.                                      *)
IsComplete(e) ==
    \A s \in Stream : \A i \in DOMAIN streams[s] : streams[s][i] # <<"event", e>>

-----------------------------------------------------------------------------
(* QueueInUse: the event that is recorded, and the manager afterwards.     *)
EventFor(m) == IF m.free_events = << >> THEN m.events + 1
               ELSE m.free_events[Len(m.free_events)]
QueueInUse(m, mem_, func) ==
    [m EXCEPT
       !.events = IF m.free_events = << >> THEN @ + 1 ELSE @,
       !.free_events = IF @ = << >> THEN @ ELSE SubSeq(@, 1, Len(@) - 1),
       !.used_events = Append(@, [event |-> EventFor(m), mem |-> mem_,
                                  func |-> func])]
ThenRecordEvent(q, s, e) == [q EXCEPT ![s] = Append(@, <<"event", e>>)]

FlushAccumulatedTensors(m) ==
    [QueueInUse(m, m.tensors, Nobody) EXCEPT
       !.stream = Nobody, !.tensors = << >>, !.bytes = 0]

(* What a client whose kernel has been launched may call with mu_ free.    *)
MayCall(c, u) ==
    /\ ask[c].use = u /\ pc[c] = "holds" /\ on[c] # Nobody /\ asked[c] = "no" /\ mu_ = Nobody

(* ThenDeleteTensors: tensors of another stream are flushed first, and all *)
(* of them once they are large enough.                                     *)
NeverFlushes(m, s) == FALSE
FlushesFirst(m, s) == m.tensors # << >> /\ s # m.stream
Accumulates(m, c) ==
    [m EXCEPT !.stream = on[c], !.tensors = Append(@, mem[c]),
              !.bytes = @ + ask[c].bytes]

ThenDeleteTensors(c) ==
    /\ MayCall(c, "tensors")
    /\ LET first == FlushesFirst(em, on[c])
           m1 == IF first THEN FlushAccumulatedTensors(em) ELSE em
           q1 == IF first
                 THEN ThenRecordEvent(streams, em.stream, EventFor(em))
                 ELSE streams
           m2 == Accumulates(m1, c)
           full == m2.bytes >= deferred_bytes_threshold_
       IN  /\ em' = IF full THEN FlushAccumulatedTensors(m2) ELSE m2
           /\ streams' = IF full
                         THEN ThenRecordEvent(q1, on[c], EventFor(m2)) ELSE q1
    /\ mem' = [mem EXCEPT ![c] = kInvalid]
    /\ on' = [on EXCEPT ![c] = Nobody]
    /\ Goto(c, "idle")
    /\ UNCHANGED <<bfc, lock_, todo, calls, mu_, pos, asked, pool>>

(* ThenDeleteBuffer and ThenExecute: QueueInUse, and on to PollEvents.     *)
Queues(c, mem_, func) ==
    /\ em' = QueueInUse(em, mem_, func)
    /\ streams' = ThenRecordEvent(streams, on[c], EventFor(em))
    /\ mu_' = c /\ pos' = 1 /\ Goto(c, "sweep")

ThenDeleteBuffer(c) ==
    /\ MayCall(c, "buffer")
    /\ Queues(c, <<mem[c]>>, Nobody)
    /\ mem' = [mem EXCEPT ![c] = kInvalid]
    /\ on' = [on EXCEPT ![c] = Nobody]
    /\ UNCHANGED <<bfc, lock_, todo, calls, asked, pool>>

ThenExecute(c) ==
    /\ MayCall(c, "execute")
    /\ Queues(c, << >>, c)
    /\ asked' = [asked EXCEPT ![c] = "yes"]
    /\ UNCHANGED <<bfc, lock_, todo, calls, mem, on, pool>>

-----------------------------------------------------------------------------
(* PollLoop takes mu_ for a sweep of all records; one of none is left out. *)
PollLoop ==
    /\ pc[Poller] = "poll" /\ mu_ = Nobody /\ em.used_events # << >>
    /\ mu_' = Poller /\ pos' = 1 /\ Goto(Poller, "sweep")
    /\ UNCHANGED <<bfc, lock_, todo, calls, mem, em, streams, on, asked, pool>>

(* What FreeMemory has to do for a record.                                 *)
Tasks(iu) ==
    [i \in 1..Len(iu.mem) |-> <<"free", iu.mem[i]>>] \o
    (IF iu.func = Nobody THEN << >> ELSE <<<<"run", iu.func>>>>)

(* PollEvents at one record: it has been completed before, it is found     *)
(* complete, or the poller goes past it while it is pending.               *)
RetiresTwice(m, i) ==
    [m EXCEPT !.free_events = Append(@, m.used_events[i].event)]
Retire(m, i) ==
    [m EXCEPT !.used_events[i].event = NoEvent,
              !.free_events = Append(@, m.used_events[i].event)]

PollRecord(t) ==
    /\ pc[t] = "sweep" /\ mu_ = t /\ pos <= Len(em.used_events)
    /\ LET iu == em.used_events[pos]
       IN  \/ /\ iu.event = NoEvent
              /\ UNCHANGED <<em, todo>>
           \/ /\ iu.event # NoEvent /\ IsComplete(iu.event)
              /\ em' = Retire(em, pos)
              /\ todo' = [todo EXCEPT ![t] = @ \o Tasks(iu)]
           \/ /\ iu.event # NoEvent /\ ~IsComplete(iu.event) /\ t = Poller
              /\ UNCHANGED <<em, todo>>
    /\ pos' = pos + 1
    /\ UNCHANGED <<bfc, lock_, pc, calls, mem, mu_, streams, on, asked, pool>>

(* Another thread stops there, and returns at once.                        *)
StopAtPending(t) ==
    /\ pc[t] = "sweep" /\ mu_ = t /\ pos <= Len(em.used_events) /\ t # Poller
    /\ em.used_events[pos].event # NoEvent
    /\ ~IsComplete(em.used_events[pos].event)
    /\ mu_' = Nobody /\ pos' = 0 /\ Goto(t, Done(t))
    /\ UNCHANGED <<bfc, lock_, todo, calls, mem, em, streams, on, asked, pool>>

(* The end of PollEvents: retired records leave the front of the queue.    *)
FirstPending(q) ==
    CHOOSE i \in 1..(Len(q) + 1) :
       /\ \A j \in 1..(i - 1) : q[j].event = NoEvent
       /\ i <= Len(q) => q[i].event # NoEvent
PopsRetired(q) == SubSeq(q, FirstPending(q), Len(q))

PollEnds(t) ==
    /\ pc[t] = "sweep" /\ mu_ = t /\ pos > Len(em.used_events)
    /\ em' = [em EXCEPT !.used_events = PopsRetired(@)]
    /\ mu_' = Nobody /\ pos' = 0 /\ Goto(t, Done(t))
    /\ UNCHANGED <<bfc, lock_, todo, calls, mem, streams, on, asked, pool>>

(* FreeMemory, of a record with a function; the memory of the others is    *)
(* freed by DeallocateRaw.                                                 *)
ScheduleFunc(t) ==
    /\ pc[t] = "free" /\ Head(todo[t])[1] = "run"
    /\ pool' = Append(pool, Head(todo[t])[2])
    /\ todo' = [todo EXCEPT ![t] = Tail(@)]
    /\ Goto(t, IF Tail(todo[t]) = << >> THEN Home(t) ELSE "free")
    /\ UNCHANGED <<bfc, lock_, calls, mem, em, mu_, pos, streams, on, asked>>

(* A thread of threadpool_ runs it: the client knows its kernel is done.   *)
RunFunc ==
    /\ pool # << >>
    /\ pool' = Tail(pool)
    /\ asked' = [asked EXCEPT ![Head(pool)] = "called"]
    /\ on' = [on EXCEPT ![Head(pool)] = Nobody]
    /\ UNCHANGED <<retry_vars, em, mu_, pos, streams>>

-----------------------------------------------------------------------------
(* A client frees memory itself only if no kernel uses it.                 *)
Frees(c) ==
    /\ ask[c].use = "free" \/ asked[c] = "called"
    /\ Release(c)
    /\ asked' = [asked EXCEPT ![c] = "no"]
    /\ UNCHANGED <<em, mu_, pos, streams, on, pool>>

(* What a thread does once it has begun.                                   *)
Steps(t) ==
    \/ t \in Client /\ CallStep(t) /\ UNCHANGED em_vars
    \/ FreeStep(t) /\ UNCHANGED em_vars
    \/ PollRecord(t) \/ StopAtPending(t) \/ PollEnds(t) \/ ScheduleFunc(t)
    \/ t = Poller /\ PollLoop

Next ==
    \/ \E c \in Client :
       \/ AllocateRaw(c) /\ UNCHANGED em_vars
       \/ DeadlinePasses(c) /\ UNCHANGED em_vars
       \/ Frees(c) \/ Launch(c)
       \/ ThenDeleteTensors(c) \/ ThenDeleteBuffer(c) \/ ThenExecute(c)
    \/ \E t \in Thread : Steps(t)
    \/ RunFunc
    \/ \E s \in Stream : StreamAdvances(s)

Fairness ==
    /\ \A t \in Thread : WF_vars(Steps(t))
    /\ \A c \in Client : WF_vars(DeadlinePasses(c) /\ UNCHANGED em_vars)
    /\ WF_vars(RunFunc)
    /\ \A s \in Stream : WF_vars(StreamAdvances(s))

Spec == Init /\ [][Next]_vars
FairSpec == Spec /\ Fairness
-----------------------------------------------------------------------------
(* The places that own the memory at p.                                    *)
Owners(p) ==
    {<<"client", c>> : c \in {c \in Client : mem[c] = p}} \cup
    {<<"tensors", i>> : i \in {i \in DOMAIN em.tensors : em.tensors[i] = p}} \cup
    {<<"used", i>> : i \in {i \in DOMAIN em.used_events :
                               /\ em.used_events[i].event # NoEvent
                               /\ p \in {em.used_events[i].mem[j] :
                                          j \in DOMAIN em.used_events[i].mem}}} \cup
    UNION {{<<t, i>> : i \in {i \in DOMAIN todo[t] : todo[t][i] = <<"free", p>>}} :
           t \in Thread}

InUse(p) == bfc.handles[p] # kInvalid /\ in_use(bfc, bfc.handles[p])

(* Memory is never leaked nor freed twice: what BFCAllocator has in use is *)
(* owned by exactly one caller, accumulated tensor, InUse record or        *)
(* FreeMemory loop, and a caller has at least the bytes it asked for.      *)
OwnedOnce ==
    /\ \A p \in Address : Cardinality(Owners(p)) = IF InUse(p) THEN 1 ELSE 0
    /\ \A c \in Client : mem[c] # kInvalid =>
          kMinAllocationSize * bfc.chunks[bfc.handles[mem[c]]].size >= ask[c].bytes

(* Memory that a kernel still uses is not given back, and not given to     *)
(* another, by PollEvents and FreeMemory, and the function passed to       *)
(* ThenExecute has not run before that kernel is done.                     *)
KernelsKeepTheirMemory ==
    \A s \in Stream : \A i \in DOMAIN streams[s] :
       streams[s][i][1] = "kernel" =>
          /\ InUse(streams[s][i][2])
          /\ \A c \in Client : mem[c] = streams[s][i][2] => on[c] = s

FreeFits(c) == {h \in Live(bfc) : /\ ~in_use(bfc, h)
                                  /\ bfc.chunks[h].size >= rounded_bytes(c)}

(* The search of FindChunkPtr from bin to bin, which stops at the first    *)
(* chunk that fits, is best fit: no smaller free chunk would have done,    *)
(* and AllocateRawInternal returns null only when no free chunk at all is  *)
(* large enough.                                                           *)
BestFit ==
    [][\A c \in Client :
         /\ pc[c] = "attempt" /\ pc'[c] = "holds" /\ FreeFits(c) # {} =>
               \E h \in FreeFits(c) :
                  /\ bfc.chunks[h].ptr = mem'[c]
                  /\ \A g \in FreeFits(c) :
                        bfc.chunks[h].size <= bfc.chunks[g].size
         /\ pc[c] = "attempt" /\ try'[c] # try[c] /\ mem'[c] = kInvalid =>
               FreeFits(c) = {}]_vars

(* AllocateRaw returns, with memory or without: a thread that waits for    *)
(* memory in AllocatorRetry is not left there, even if it missed the       *)
(* notification of the memory it waits for.                                *)
EveryCallReturns ==
    \A c \in Client : (pc[c] = "attempt") ~> (pc[c] \in {"idle", "holds"})

(* What is queued with an event is dealt with: FreeMemory has given all    *)
(* its memory back, and its function has been run.                         *)
DealtWith ==
    /\ \A i \in DOMAIN em.used_events : em.used_events[i].event = NoEvent
    /\ \A t \in Thread : todo[t] = << >>
    /\ \A c \in Client : asked[c] # "yes"
EventsAreDealtWith == <>[]DealtWith
=============================================================================
