----------------------------- MODULE MCExecutor -----------------------------
(***************************************************************************)
(* Executor on small graphs of the shapes the front end builds: a          *)
(* conditional, a while loop, a while loop on the branch not taken, and    *)
(* nested loops.                                                           *)
(***************************************************************************)
EXTENDS Executor

Data(slot, dst, input) == [slot |-> slot, dst |-> dst, input |-> input]
Control(dst) == [slot |-> kControlSlot, dst |-> dst, input |-> 0]

(* while_loop with one loop variable and one loop invariant.               *)
LoopEdges ==
    [src |-> <<Control("a"), Control("b")>>,
     a |-> <<Data(1, "enter", 1)>>,
     b |-> <<Data(1, "inv", 1)>>,
     enter |-> <<Data(1, "merge", 1)>>,
     inv |-> <<Data(1, "body", 2)>>,
     merge |-> <<Data(1, "switch", 1), Data(1, "pred", 1)>>,
     pred |-> <<Data(1, "cond", 1)>>,
     cond |-> <<Data(1, "switch", 2)>>,
     switch |-> <<Data(1, "exit", 1), Data(2, "body", 1), Data(2, "log", 1)>>,
     log |-> <<Control("sink")>>,
     body |-> <<Data(1, "next", 1)>>,
     next |-> <<Data(1, "merge", 2)>>,
     exit |-> <<Data(1, "out", 1)>>,
     out |-> <<Control("sink")>>,
     sink |-> <<>>]
LoopOp ==
    [src |-> "NoOp", a |-> "Const", b |-> "Const", enter |-> "Enter",
     inv |-> "Enter", merge |-> "Merge", pred |-> "Pred", cond |-> "LoopCond",
     switch |-> "Switch", body |-> "Add", next |-> "NextIteration",
     exit |-> "Exit", log |-> "Identity", out |-> "Identity", sink |-> "Sink"]
LoopFrameName == [enter |-> "while", inv |-> "while"]
Loop ==
    [op |-> LoopOp, edges |-> LoopEdges, frame_name |-> LoopFrameName,
     invariant |-> {"inv"}, parallel_iterations |-> [while |-> 2],
     expensive |-> {"a", "b", "pred", "body", "log", "out"},
     async |-> {"body"}, may_fail |-> {"pred", "body", "a"},
     max_trips |-> 2, vlog |-> FALSE]

(* The same loop, one iteration at a time and without failures.            *)
Serial == [Loop EXCEPT !.parallel_iterations = [while |-> 1],
                       !.async = {}, !.may_fail = {}]

(* A conditional: x (received, so perhaps dead) goes down one branch; the  *)
(* merge also waits for the control input c; trigger runs even when both   *)
(* of its control inputs are dead.                                         *)
CondEdges ==
    [src |-> <<Control("x"), Control("p"), Control("c")>>,
     x |-> <<Data(1, "switch", 1)>>,
     p |-> <<Data(1, "switch", 2)>>,
     c |-> <<Control("merge")>>,
     switch |-> <<Data(1, "f", 1), Data(2, "t", 1)>>,
     f |-> <<Data(1, "merge", 1), Control("trigger")>>,
     t |-> <<Data(1, "merge", 2), Control("trigger")>>,
     merge |-> <<Data(1, "send", 1)>>,
     trigger |-> <<Control("sink")>>,
     send |-> <<Control("sink")>>,
     sink |-> <<>>]
CondOp ==
    [src |-> "NoOp", x |-> "Recv", p |-> "Pred", c |-> "NoOp",
     switch |-> "Switch", f |-> "Identity", t |-> "Identity",
     merge |-> "Merge", trigger |-> "ControlTrigger", send |-> "Send",
     sink |-> "Sink"]
Cond ==
    [op |-> CondOp, edges |-> CondEdges, frame_name |-> <<>>,
     invariant |-> {}, parallel_iterations |-> <<>>,
     expensive |-> {"x", "p", "c", "f", "t", "send"},
     async |-> {"x"}, may_fail |-> {}, max_trips |-> 1, vlog |-> FALSE]

(* A while loop on one branch of a conditional, with a loop invariant.     *)
DeadLoopEdges ==
    [src |-> <<Control("x"), Control("p"), Control("slow")>>,
     slow |-> <<Control("after")>>,
     x |-> <<Data(1, "sw", 1)>>,
     p |-> <<Data(1, "sw", 2)>>,
     sw |-> <<Data(1, "f", 1), Data(2, "enter", 1), Data(2, "inv", 1)>>,
     f |-> <<Data(1, "join", 1)>>,
     enter |-> <<Data(1, "merge", 1)>>,
     inv |-> <<Data(1, "body", 2)>>,
     merge |-> <<Data(1, "switch", 1), Data(1, "pred", 1)>>,
     pred |-> <<Data(1, "cond", 1)>>,
     cond |-> <<Data(1, "switch", 2)>>,
     switch |-> <<Data(1, "exit", 1), Data(2, "body", 1)>>,
     body |-> <<Data(1, "next", 1)>>,
     next |-> <<Data(1, "merge", 2)>>,
     exit |-> <<Data(1, "join", 2), Control("after")>>,
     after |-> <<Control("sink")>>,
     join |-> <<Data(1, "out", 1)>>,
     out |-> <<Control("sink")>>,
     sink |-> <<>>]
DeadLoopOp ==
    [src |-> "NoOp", slow |-> "NoOp", x |-> "Const", p |-> "Pred", sw |-> "Switch",
     f |-> "Identity", enter |-> "Enter", inv |-> "Enter", merge |-> "Merge",
     pred |-> "Pred", cond |-> "LoopCond", switch |-> "Switch",
     body |-> "Add", next |-> "NextIteration", exit |-> "Exit",
     after |-> "NoOp", join |-> "Merge", out |-> "Identity", sink |-> "Sink"]
DeadLoop ==
    [op |-> DeadLoopOp, edges |-> DeadLoopEdges, frame_name |-> LoopFrameName,
     invariant |-> {"inv"}, parallel_iterations |-> [while |-> 2],
     expensive |-> {"x", "slow", "p", "f", "pred", "body", "out"},
     async |-> {}, may_fail |-> {}, max_trips |-> 2, vlog |-> TRUE]

(* A loop whose body is a loop; the inner one also reads a value that is   *)
(* invariant in both.                                                      *)
NestedEdges ==
    [src |-> <<Control("a")>>,
     a |-> <<Data(1, "enter", 1)>>,
     enter |-> <<Data(1, "merge", 1)>>,
     merge |-> <<Data(1, "switch", 1), Data(1, "pred", 1)>>,
     pred |-> <<Data(1, "cond", 1)>>,
     cond |-> <<Data(1, "switch", 2)>>,
     switch |-> <<Data(1, "exit", 1), Data(2, "enter2", 1), Data(2, "inv2", 1)>>,
     enter2 |-> <<Data(1, "merge2", 1)>>,
     inv2 |-> <<Data(1, "body2", 2)>>,
     merge2 |-> <<Data(1, "switch2", 1), Data(1, "pred2", 1)>>,
     pred2 |-> <<Data(1, "switch2", 2)>>,
     switch2 |-> <<Data(1, "exit2", 1), Data(2, "body2", 1)>>,
     body2 |-> <<Data(1, "next2", 1)>>,
     next2 |-> <<Data(1, "merge2", 2)>>,
     exit2 |-> <<Data(1, "next", 1)>>,
     next |-> <<Data(1, "merge", 2)>>,
     exit |-> <<Data(1, "out", 1)>>,
     out |-> <<Control("sink")>>,
     sink |-> <<>>]
NestedOp ==
    [src |-> "NoOp", a |-> "Const", enter |-> "Enter", merge |-> "Merge",
     pred |-> "Pred", cond |-> "LoopCond", switch |-> "Switch",
     enter2 |-> "Enter", inv2 |-> "Enter", merge2 |-> "Merge",
     pred2 |-> "Pred", switch2 |-> "Switch", body2 |-> "Add",
     next2 |-> "NextIteration", exit2 |-> "Exit", next |-> "NextIteration",
     exit |-> "Exit", out |-> "Identity", sink |-> "Sink"]
Nested ==
    [op |-> NestedOp, edges |-> NestedEdges,
     frame_name |-> [enter |-> "outer", enter2 |-> "inner", inv2 |-> "inner"],
     invariant |-> {"inv2"},
     parallel_iterations |-> [outer |-> 2, inner |-> 1],
     expensive |-> {"a", "pred", "pred2", "body2", "out", "enter2", "inv2"},
     async |-> {}, may_fail |-> {}, max_trips |-> 1, vlog |-> FALSE]

SmallGraphs == {Loop, Serial, Cond, DeadLoop, Nested}
=============================================================================
