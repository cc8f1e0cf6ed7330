----------------------------- MODULE OptionGraph -----------------------------
(***************************************************************************)
(* The dependency graph (pkg/devcontainer/graph/graph.go) behind the       *)
(* provider options and the devcontainer features.  The children of a node *)
(* are a Go slice: an array and a length.  Removing an element shifts the  *)
(* array in place, also under a loop that still ranges over it, so a slice *)
(* is modelled as both.                                                    *)
(***************************************************************************)
EXTENDS Integers, Sequences, FiniteSets, SequencesExt

CONSTANTS Nodes, Root, MaxGraphSteps

ASSUME OptionGraphAssumption == Root \notin Nodes /\ MaxGraphSteps \in Nat

VARIABLES graph,       \* nodes, the slice of children and the parents of each node
          removing,    \* the calls of RemoveSubGraph, one within the other
          visited,     \* Node.Done
          handed,      \* the node NextFromTop returned last
          graphError,  \* the last operation returned an error
          graphSteps

graphVars == <<graph, removing, visited, handed, graphError, graphSteps>>

\* The slice as the code sees it.
Childs(g, n) == SubSeq(g.array[n], 1, g.len[n])
ChildSet(g, n) == ToSet(Childs(g, n))

NewGraph ==
    [nodes |-> {Root}, array |-> [n \in Nodes \cup {Root} |-> <<>>],
     len |-> [n \in Nodes \cup {Root} |-> 0], parents |-> [n \in Nodes \cup {Root} |-> {}],
     failed |-> FALSE]

\* append: in place as long as the array has room, which later shifts have left.
AppendChild(g, p, c) ==
    [g EXCEPT !.array[p] = IF Len(@) > g.len[p] THEN [@ EXCEPT ![g.len[p] + 1] = c] ELSE Append(@, c),
              !.len[p] = @ + 1,
              !.parents[c] = @ \cup {p}]

\* The node and everything that is reached from it (findFirstPath).
Below(g, n) ==
    {m \in g.nodes : \A S \in SUBSET g.nodes :
        n \in S /\ (\A x \in S : ChildSet(g, x) \subseteq S) => m \in S}

Position(g, p, c) == CHOOSE j \in 1..g.len[p] : g.array[p][j] = c

\* RemoveNode: parent.Childs = append(parent.Childs[:i], parent.Childs[i+1:]...)
RemoveNode(g, n) ==
    LET Shifted(p) == [j \in DOMAIN g.array[p] |->
            IF Position(g, p, n) <= j /\ j < g.len[p] THEN g.array[p][j + 1] ELSE g.array[p][j]]
    IN [g EXCEPT !.nodes = @ \ {n}, !.parents[n] = {},
                 !.array = [p \in DOMAIN @ |-> IF p \in g.parents[n] THEN Shifted(p) ELSE @[p]],
                 !.len = [p \in DOMAIN @ |-> IF p \in g.parents[n] THEN @[p] - 1 ELSE @[p]]]

\* The order in which the leaves of a clone come off (GetNextLeaf, RemoveNode).
Peel(g) ==
    LET left(S, n) == SelectSeq(Childs(g, n), LAMBDA c : c \in S)
        leaf[S \in SUBSET g.nodes, n \in g.nodes] ==
            IF left(S, n) = <<>> THEN n ELSE leaf[S, Head(left(S, n))]
        peel[S \in SUBSET g.nodes] ==
            IF leaf[S, Root] = Root THEN <<>> ELSE <<leaf[S, Root]>> \o peel[S \ {leaf[S, Root]}]
    IN peel[g.nodes]

\* Mutant: the leaves come first.
OrderOfLeaves(g) == Peel(g)

\* NextFromTop walks it backwards.
Order(g) == Reverse(Peel(g))

-----------------------------------------------------------------------------
GraphInit ==
    /\ graph = NewGraph /\ removing = <<>> /\ visited = {} /\ handed = Root
    /\ graphError = FALSE /\ graphSteps = 0

GraphStep == removing = <<>> /\ graphSteps < MaxGraphSteps /\ graphSteps' = graphSteps + 1

\* InsertNodeAt the root, as addOptionsToGraph does.
InsertNodeAt(n) ==
    /\ GraphStep /\ n \notin graph.nodes
    /\ graph' = AppendChild([graph EXCEPT !.nodes = @ \cup {n}, !.array[n] = <<>>], Root, n)
    /\ graphError' = FALSE
    /\ UNCHANGED <<removing, visited, handed>>

\* Mutant: the path is looked for the other way round.
AddEdgeUnchecked(from, to) ==
    /\ GraphStep /\ {from, to} \subseteq graph.nodes /\ from # to
    /\ to \notin ChildSet(graph, from)
    /\ graphError' = (to \in Below(graph, from))
    /\ graph' = IF graphError' THEN graph ELSE AppendChild(graph, from, to)
    /\ UNCHANGED <<removing, visited, handed>>

\* An edge that would close a cycle is an error.
AddEdge(from, to) ==
    /\ GraphStep /\ {from, to} \subseteq graph.nodes /\ from # to
    /\ to \notin ChildSet(graph, from)
    /\ graphError' = (from \in Below(graph, to))
    /\ graph' = IF graphError' THEN graph ELSE AppendChild(graph, from, to)
    /\ UNCHANGED <<removing, visited, handed>>

\* One round of removeRootParent: a node with another parent leaves the root, whose
\* children become a new slice.
RemoveRootParent(n) ==
    /\ GraphStep /\ n \in graph.nodes
    /\ Root \in graph.parents[n] /\ graph.parents[n] # {Root}
    /\ graph' = [graph EXCEPT !.parents[n] = @ \ {Root}, !.len[Root] = @ - 1,
                              !.array[Root] = [j \in 1..graph.len[Root] - 1 |->
                                  IF j < Position(graph, Root, n) THEN @[j] ELSE @[j + 1]]]
    /\ graphError' = FALSE
    /\ UNCHANGED <<removing, visited, handed>>

\* RemoveSubGraph ranges over the slice as it was when the loop began.
Call(n) == [node |-> n, at |-> 1, len |-> graph.len[n]]
Caller == removing[Len(removing)]

RemoveSubGraph(n) ==
    /\ GraphStep /\ n \in graph.nodes
    /\ removing' = <<Call(n)>> /\ graphError' = FALSE
    /\ UNCHANGED <<graph, visited, handed>>

\* The removals shift the array under the loop: a child is skipped, or met again when
\* it is gone.
RemoveChild ==
    /\ removing # <<>> /\ Caller.at <= Caller.len
    /\ LET child == graph.array[Caller.node][Caller.at]
           next == [removing EXCEPT ![Len(removing)].at = @ + 1]
       IN removing' = IF child \in graph.nodes THEN Append(next, Call(child)) ELSE next
    /\ UNCHANGED <<graph, visited, handed, graphError, graphSteps>>

\* After its children the node; one that still has children is an error.
RemoveSelf ==
    /\ removing # <<>> /\ Caller.at > Caller.len
    /\ IF Caller.node \in graph.nodes /\ graph.len[Caller.node] > 0
       THEN removing' = <<>> /\ graphError' = TRUE /\ UNCHANGED <<graph, visited>>
       ELSE /\ removing' = Front(removing)
            /\ graph' = IF Caller.node \in graph.nodes THEN RemoveNode(graph, Caller.node) ELSE graph
            /\ visited' = visited \ {Caller.node}
            /\ UNCHANGED graphError
    /\ UNCHANGED <<handed, graphSteps>>

\* The first node in the order that is not done.
NextFromTop ==
    /\ GraphStep
    /\ LET open == SelectSeq(Order(graph), LAMBDA n : n \notin visited)
       IN /\ open # <<>>
          /\ handed' = Head(open) /\ visited' = visited \cup {Head(open)}
    /\ graphError' = FALSE
    /\ UNCHANGED <<graph, removing>>

GraphNext ==
    \/ \E n \in Nodes : InsertNodeAt(n) \/ RemoveRootParent(n) \/ RemoveSubGraph(n)
    \/ \E from \in Nodes, to \in Nodes : AddEdge(from, to)
    \/ RemoveChild \/ RemoveSelf \/ NextFromTop

GraphSpec == GraphInit /\ [][GraphNext]_graphVars

-----------------------------------------------------------------------------
\* The two ends of every edge know of each other, and there is no cycle: among any nodes
\* is one with no child among them.  Over any sequence of insertions, edges and
\* removals, also in the middle of one and after one that failed.
GraphSound ==
    /\ \A n \in graph.nodes :
          /\ \A c \in ChildSet(graph, n) : c \in graph.nodes /\ n \in graph.parents[c]
          /\ \A p \in graph.parents[n] : p \in graph.nodes /\ n \in ChildSet(graph, p)
    /\ \A S \in (SUBSET graph.nodes) \ {{}} : \E n \in S : ChildSet(graph, n) \cap S = {}

\* "Parents will be resolved first" (resolver.go:119): a node is handed out when all its
\* parents were, also those that came after others had been handed out.
ParentsFirst ==
    [][\A n \in visited' \ visited : graph.parents[n] \ {Root} \subseteq visited]_graphVars
=============================================================================
