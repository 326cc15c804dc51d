--------------------------- MODULE DataflowGraph ---------------------------
(***************************************************************************)
(* The graph one executor runs and what ExecutorImpl::Initialize derives   *)
(* from it (tensorflow/core/common_runtime/executor.cc): the frame every   *)
(* node belongs to, the initial pending counts and the inputs of a frame.  *)
(*                                                                         *)
(* Slots are numbered from 1 (TLA+ sequences); a control edge leaves slot  *)
(* kControlSlot.                                                           *)
(***************************************************************************)
EXTENDS PendingCounts, Sequences, SequencesExt

CONSTANT Graphs    \* partitions, as records with the fields below
VARIABLE graph     \* the one that is executed, as Initialize leaves it

kControlSlot == -1
RootName == "root"

EdgesInto(g) ==
    [n \in DOMAIN g.op |->
        UNION {{<<m, i>> : i \in {j \in DOMAIN g.edges[m] :
                                    g.edges[m][j].dst = n}} : m \in DOMAIN g.op}]
IsControl(g, e) == g.edges[e[1]][e[2]].slot = kControlSlot
ControlEdgesInto(g) ==
    [n \in DOMAIN g.op |-> {e \in EdgesInto(g)[n] : IsControl(g, e)}]

(* BuildControlFlowInfo: breadth-first from the root nodes; the outputs of *)
(* an Enter are in its frame, those of an Exit in the parent of its frame. *)
RECURSIVE VisitNodes(_, _, _, _)
VisitNodes(g, ready, frame_names, parent_nodes) ==
    IF ready = <<>> THEN frame_names
    ELSE LET n == Head(ready)
             parent == IF g.op[n] = "Enter" THEN n
                       ELSE IF g.op[n] = "Exit"
                            THEN parent_nodes[parent_nodes[n]]
                            ELSE parent_nodes[n]
             name == IF g.op[n] = "Enter" THEN g.frame_name[n]
                     ELSE IF g.op[n] = "Exit"
                          THEN frame_names[parent_nodes[n]]
                          ELSE frame_names[n]
             new == {g.edges[n][i].dst : i \in DOMAIN g.edges[n]}
                       \ DOMAIN frame_names
         IN VisitNodes(g, Tail(ready) \o SetToSeq(new),
                       [d \in new |-> name] @@ frame_names,
                       [d \in new |-> parent] @@ parent_nodes)

BuildControlFlowInfo(g) ==
    LET roots == {n \in DOMAIN g.op : EdgesInto(g)[n] = {}}
    IN VisitNodes(g, SetToSeq(roots), [n \in roots |-> RootName],
                  [n \in roots |-> n])

Initialize(g) ==
    [partition |-> g, in_edges |-> EdgesInto(g),
     control_in_edges |-> ControlEdgesInto(g),
     frame_of |-> BuildControlFlowInfo(g)]

Op == graph.partition.op                     \* node -> the kind of the node
Node == DOMAIN Op
OutEdges == graph.partition.edges            \* node -> seq. of [slot, dst, input]
FrameName == graph.partition.frame_name      \* Enter node -> its frame_name
LoopInvariant == graph.partition.invariant   \* Enter nodes with is_constant
ParallelIterations == graph.partition.parallel_iterations   \* by frame name
InEdges == graph.in_edges                    \* node -> {<<source, index>>}
ControlInEdges == graph.control_in_edges
NumInputs(n) == Cardinality(InEdges[n]) - Cardinality(ControlInEdges[n])
FrameOfNode == graph.frame_of                \* node -> the name of its frame

IsTransferNode(n) == Op[n] \in {"Send", "Recv"}
IsEnterExitOrNextIter(n) == Op[n] \in {"Enter", "Exit", "NextIteration"}
NumOutputs(n) ==
    CASE Op[n] \in {"NoOp", "Send", "ControlTrigger", "Sink"} -> 0
      [] Op[n] = "Switch" -> 2
      [] OTHER -> 1

RootNodes == {n \in Node : InEdges[n] = {}}

(* GetMaxPendingCounts: bit 0 of a merge's count waits for a live input.   *)
InitialPending(n) ==
    IF Op[n] = "Merge" THEN 1 + 2 * Cardinality(ControlInEdges[n])
                       ELSE Cardinality(InEdges[n])

FrameNodes(name) == {n \in Node : FrameOfNode[n] = name}
InputCount(name) ==
    Cardinality({n \in Node : Op[n] = "Enter" /\ FrameName[n] = name})

(* InitializePending, with the representation that CreateHandle chooses.   *)
InitialCounts(name) ==
    [n \in FrameNodes(name) |->
        set_initial_count(
            CreateHandle(InitialPending(n), Cardinality(InEdges[n])),
            InitialPending(n))]
=============================================================================
