----------------------------- MODULE Up_proofs ------------------------------
(***************************************************************************)
(* Theorems about devpod up: OptionGraph, for any nodes and any changes of *)
(* the graph, Features, for any features and any number of builds that     *)
(* fail or are killed, OptionsResolver, for any options of a provider, any *)
(* sub options and any commands that set them, DevContainer with           *)
(* ContainerSetup, for any mounts, any number of changes of the            *)
(* configuration, faults and restarts, and PlatformTasks, for any set of   *)
(* clients of one instance.                                                *)
(***************************************************************************)
EXTENDS OptionsResolver, Features, DevContainer, PlatformTasks, FiniteSetTheorems, TLAPS

-----------------------------------------------------------------------------
(* The graph of options and features *)

\* A graph has a root besides the nodes that are put into it.
AllNodes == Nodes \cup {Root}

\* A graph: every array is at least as long as the slice.
IsGraph(g) ==
    /\ g \in [nodes : SUBSET AllNodes, array : [AllNodes -> Seq(Nodes)], len : [AllNodes -> Nat],
              parents : [AllNodes -> SUBSET AllNodes], failed : BOOLEAN]
    /\ \A n \in AllNodes : g.len[n] <= Len(g.array[n])

\* No node is twice the child of another.
Distinct(g) ==
    \A n \in AllNodes : \A i, j \in 1..g.len[n] : g.array[n][i] = g.array[n][j] => i = j

\* GraphSound, of any graph.
Linked(g) ==
    \A n \in g.nodes :
        /\ \A c \in ChildSet(g, n) : c \in g.nodes /\ n \in g.parents[c]
        /\ \A p \in g.parents[n] : p \in g.nodes /\ n \in ChildSet(g, p)
Acyclic(g) == \A S \in (SUBSET g.nodes) \ {{}} : \E n \in S : ChildSet(g, n) \cap S = {}

\* A node that is gone has no edges.
Gone(g) == \A n \in AllNodes \ g.nodes : g.len[n] = 0 /\ g.parents[n] = {}

\* The inductive invariant of the graph.
GraphOf(g) == IsGraph(g) /\ Distinct(g) /\ Linked(g) /\ Acyclic(g) /\ Gone(g) /\ Root \in g.nodes

\* ... and of the calls: each loop ranges over what is in its array.
CallsOK ==
    /\ removing \in Seq([node : Nodes, at : Nat \ {0}, len : Nat])
    /\ \A i \in 1..Len(removing) : removing[i].len <= Len(graph.array[removing[i].node])

GraphInv == GraphOf(graph) /\ CallsOK

-----------------------------------------------------------------------------
\* The children of a node are what is in its slice.
LEMMA ChildrenAre ==
    ASSUME NEW g, IsGraph(g), NEW n \in AllNodes
    PROVE  /\ ChildSet(g, n) = {g.array[n][i] : i \in 1..g.len[n]}
           /\ ChildSet(g, n) \subseteq Nodes
<1>1. g.array[n] \in Seq(Nodes) /\ g.len[n] \in Nat /\ g.len[n] <= Len(g.array[n])
  BY DEF IsGraph
<1>2. DOMAIN Childs(g, n) = 1..g.len[n] /\ \A i \in 1..g.len[n] : Childs(g, n)[i] = g.array[n][i]
  BY <1>1 DEF Childs
<1>3. ChildSet(g, n) = {g.array[n][i] : i \in 1..g.len[n]}
  BY <1>2 DEF ChildSet, ToSet
<1>4. \A i \in 1..g.len[n] : g.array[n][i] \in Nodes
  BY <1>1
<1> QED BY <1>3, <1>4

\* The first m - 1 of t are the first m of s without the one at k, no two of which are
\* the same.
Dropped(s, t, m, k) ==
    /\ m \in Nat /\ k \in 1..m
    /\ \A i, j \in 1..m : s[i] = s[j] => i = j
    /\ \A j \in 1..m - 1 : t[j] = IF j < k THEN s[j] ELSE s[j + 1]

\* ... the others are there, each once.
OthersStay(s, t, m, k) ==
    /\ {t[j] : j \in 1..m - 1} = {s[j] : j \in 1..m} \ {s[k]}
    /\ \A i, j \in 1..m - 1 : t[i] = t[j] => i = j

\* What is dropped from a slice is one element.
LEMMA DropOne ==
    ASSUME NEW s, NEW t, NEW m, NEW k, Dropped(s, t, m, k)
    PROVE  OthersStay(s, t, m, k)
<1> USE DEF Dropped
<1>1. ASSUME NEW j \in 1..m - 1 PROVE (\E i \in 1..m : t[j] = s[i]) /\ t[j] # s[k]
  <2>1. CASE j < k
    <3>1. t[j] = s[j] /\ j \in 1..m /\ j # k
      BY <2>1
    <3> QED BY <3>1
  <2>2. CASE ~(j < k)
    <3>1. t[j] = s[j + 1] /\ j + 1 \in 1..m /\ j + 1 # k
      BY <2>2
    <3> QED BY <3>1
  <2> QED BY <2>1, <2>2
<1>2. ASSUME NEW i \in 1..m, i # k PROVE \E j \in 1..m - 1 : t[j] = s[i]
  <2>1. CASE i < k
    BY <2>1
  <2>2. CASE i > k
    <3>1. i - 1 \in 1..m - 1 /\ ~(i - 1 < k) /\ i - 1 + 1 = i
      BY <2>2
    <3>2. t[i - 1] = s[i]
      BY <3>1
    <3> QED BY <3>1, <3>2
  <2> QED BY <2>1, <2>2, <1>2
<1>3. ASSUME NEW i \in 1..m - 1, NEW j \in 1..m - 1, t[i] = t[j] PROVE i = j
  <2> DEFINE At(x) == IF x < k THEN x ELSE x + 1
  <2>1. At(i) \in 1..m /\ At(j) \in 1..m /\ t[i] = s[At(i)] /\ t[j] = s[At(j)]
    OBVIOUS
  <2>2. At(i) = At(j)
    BY <2>1, <1>3
  <2> QED BY <2>2
<1>4. \A x : x \in {t[j] : j \in 1..m - 1} <=> x \in {s[j] : j \in 1..m} \ {s[k]}
  BY <1>1, <1>2
<1> QED BY <1>3, <1>4 DEF OthersStay

\* A child that is appended is a child from now on, whether the array has room or not.
LEMMA AppendIs ==
    ASSUME NEW g, IsGraph(g), Distinct(g), NEW p \in AllNodes, NEW c \in Nodes, c \notin ChildSet(g, p)
    PROVE  LET h == AppendChild(g, p, c)
           IN /\ IsGraph(h) /\ Distinct(h) /\ h.nodes = g.nodes
              /\ h.parents = [g.parents EXCEPT ![c] = @ \cup {p}]
              /\ h.len = [g.len EXCEPT ![p] = @ + 1]
              /\ ChildSet(h, p) = ChildSet(g, p) \cup {c}
              /\ \A n \in AllNodes \ {p} : ChildSet(h, n) = ChildSet(g, n)
<1> DEFINE h == AppendChild(g, p, c)
           a == g.array[p]
           m == g.len[p]
           b == IF Len(a) > m THEN [a EXCEPT ![m + 1] = c] ELSE Append(a, c)
<1>1. a \in Seq(Nodes) /\ m \in Nat /\ m <= Len(a)
  BY DEF IsGraph
<1>2. b \in Seq(Nodes) /\ m + 1 <= Len(b) /\ b[m + 1] = c /\ \A i \in 1..m : b[i] = a[i]
  <2>1. CASE Len(a) > m
    <3>1. m + 1 \in 1..Len(a)
      BY <1>1, <2>1
    <3> QED BY <1>1, <2>1, <3>1
  <2>2. CASE ~(Len(a) > m)
    <3>1. Len(a) = m
      BY <1>1, <2>2
    <3> QED BY <1>1, <2>2, <3>1
  <2> QED BY <2>1, <2>2
<1>3. /\ DOMAIN h = {"nodes", "array", "len", "parents", "failed"} /\ h = [f \in DOMAIN h |-> h[f]]
      /\ h.nodes = g.nodes /\ h.array = [g.array EXCEPT ![p] = b] /\ h.len = [g.len EXCEPT ![p] = m + 1]
      /\ h.parents = [g.parents EXCEPT ![c] = @ \cup {p}] /\ h.failed = g.failed
  BY DEF AppendChild, IsGraph
<1> HIDE DEF h, b
<1>4. c \in AllNodes
  BY DEF AllNodes
<1>5. IsGraph(h)
  <2>1. h.array \in [AllNodes -> Seq(Nodes)] /\ h.len \in [AllNodes -> Nat] /\ h.parents \in [AllNodes -> SUBSET AllNodes]
    BY <1>1, <1>2, <1>3, <1>4 DEF IsGraph
  <2>2. \A n \in AllNodes : h.len[n] <= Len(h.array[n])
    BY <1>1, <1>2, <1>3 DEF IsGraph
  <2> QED BY <1>3, <2>1, <2>2 DEF IsGraph
<1>6. ChildSet(h, p) = {h.array[p][i] : i \in 1..h.len[p]} /\ ChildSet(g, p) = {a[i] : i \in 1..m}
  BY <1>5, ChildrenAre
<1>7. h.array[p] = b /\ h.len[p] = m + 1
  BY <1>3 DEF IsGraph
<1>8. ChildSet(h, p) = ChildSet(g, p) \cup {c}
  BY <1>1, <1>2, <1>6, <1>7
<1>9. ASSUME NEW n \in AllNodes \ {p} PROVE ChildSet(h, n) = ChildSet(g, n)
  <2>1. h.array[n] = g.array[n] /\ h.len[n] = g.len[n]
    BY <1>3 DEF IsGraph
  <2> QED BY <2>1 DEF ChildSet, Childs
<1>10. Distinct(h)
  <2>1. ASSUME NEW i \in 1..m + 1, NEW j \in 1..m + 1, b[i] = b[j] PROVE i = j
    <3>1. \A x \in 1..m : b[x] # c
      BY <1>2, <1>6
    <3>2. \A x, y \in 1..m : b[x] = b[y] => x = y
      BY <1>2 DEF Distinct
    <3> QED BY <1>1, <1>2, <2>1, <3>1, <3>2
  <2>2. \A n \in AllNodes \ {p} : h.array[n] = g.array[n] /\ h.len[n] = g.len[n]
    BY <1>3 DEF IsGraph
  <2> QED BY <1>7, <2>1, <2>2 DEF Distinct
<1>11. h.len = [g.len EXCEPT ![p] = @ + 1]
  BY <1>3
<1> QED BY <1>3, <1>5, <1>8, <1>9, <1>10, <1>11 DEF h

\* A graph has no cycle if among any of its nodes is one with no child among them.
LEMMA AcyclicIf ==
    ASSUME NEW h, \A S \in SUBSET h.nodes : S # {} => \E n \in S : ChildSet(h, n) \cap S = {}
    PROVE  Acyclic(h)
<1>1. ASSUME NEW S \in (SUBSET h.nodes) \ {{}} PROVE \E n \in S : ChildSet(h, n) \cap S = {}
  <2>1. S \in SUBSET h.nodes /\ S # {}
    OBVIOUS
  <2> QED BY <2>1, Zenon
<1> QED BY <1>1, Zenon DEF Acyclic

\* An edge that is no way back closes no cycle.
LEMMA EdgeIsAcyclic ==
    ASSUME NEW g, IsGraph(g), Linked(g), Acyclic(g), NEW from \in g.nodes, NEW to \in g.nodes,
           from \notin Below(g, to), NEW h, h.nodes = g.nodes,
           ChildSet(h, from) = ChildSet(g, from) \cup {to},
           \A n \in g.nodes \ {from} : ChildSet(h, n) = ChildSet(g, n)
    PROVE  Acyclic(h)
<1> SUFFICES ASSUME NEW S \in SUBSET g.nodes, S # {}, \A n \in S : ChildSet(h, n) \cap S # {} PROVE FALSE
  BY DEF Acyclic
<1>1. PICK B \in SUBSET g.nodes : to \in B /\ (\A x \in B : ChildSet(g, x) \subseteq B) /\ from \notin B
  BY DEF Below
<1>2. CASE S \cap B = {}
  <2>1. \A n \in S : ChildSet(g, n) \cap S # {}
    BY <1>1, <1>2
  <2> QED BY <2>1 DEF Acyclic
<1>3. CASE S \cap B # {}
  <2>1. \A n \in S \cap B : ChildSet(g, n) \cap (S \cap B) # {}
    BY <1>1
  <2>2. S \cap B \in SUBSET g.nodes
    OBVIOUS
  <2> QED BY <1>3, <2>1, <2>2 DEF Acyclic
<1> QED BY <1>2, <1>3

\* A graph with fewer edges has no cycle either.
LEMMA FewerIsAcyclic ==
    ASSUME NEW g, Acyclic(g), NEW h, h.nodes \subseteq g.nodes,
           \A n \in h.nodes : ChildSet(h, n) \subseteq ChildSet(g, n)
    PROVE  Acyclic(h)
<1> SUFFICES ASSUME NEW S \in SUBSET h.nodes, S # {} PROVE \E n \in S : ChildSet(h, n) \cap S = {}
  BY DEF Acyclic
<1>1. S \in SUBSET g.nodes
  OBVIOUS
<1>2. PICK n \in S : ChildSet(g, n) \cap S = {}
  BY <1>1 DEF Acyclic
<1> QED BY <1>2
\* RemoveNode takes the node out of the slices of its parents, in place, and nothing else.
LEMMA RemoveNodeIs ==
    ASSUME NEW g, IsGraph(g), Distinct(g), Linked(g), NEW n \in g.nodes
    PROVE  LET h == RemoveNode(g, n)
           IN /\ IsGraph(h) /\ Distinct(h) /\ h.nodes = g.nodes \ {n}
              /\ h.parents = [g.parents EXCEPT ![n] = {}]
              /\ \A p \in AllNodes : /\ Len(h.array[p]) = Len(g.array[p])
                                     /\ ChildSet(h, p) = ChildSet(g, p) \ (IF p \in g.parents[n] THEN {n} ELSE {})
                                     /\ p \notin g.parents[n] => h.len[p] = g.len[p]
<1> DEFINE h == RemoveNode(g, n)
           Shifted(p) == [j \in DOMAIN g.array[p] |->
               IF Position(g, p, n) <= j /\ j < g.len[p] THEN g.array[p][j + 1] ELSE g.array[p][j]]
<1>0. n \in AllNodes /\ g.nodes \subseteq AllNodes
  BY DEF IsGraph
<1>1. /\ DOMAIN h = {"nodes", "array", "len", "parents", "failed"} /\ h = [f \in DOMAIN h |-> h[f]]
      /\ h.nodes = g.nodes \ {n} /\ h.failed = g.failed
      /\ h.parents = [g.parents EXCEPT ![n] = {}]
      /\ h.array = [p \in AllNodes |-> IF p \in g.parents[n] THEN Shifted(p) ELSE g.array[p]]
      /\ h.len = [p \in AllNodes |-> IF p \in g.parents[n] THEN g.len[p] - 1 ELSE g.len[p]]
  BY DEF RemoveNode, IsGraph
<1> HIDE DEF h
<1>2. ASSUME NEW p \in AllNodes, p \in g.parents[n]
      PROVE  /\ Position(g, p, n) \in 1..g.len[p] /\ g.array[p][Position(g, p, n)] = n
             /\ h.array[p] \in Seq(Nodes) /\ Len(h.array[p]) = Len(g.array[p])
             /\ h.len[p] = g.len[p] - 1 /\ h.len[p] \in Nat /\ h.len[p] <= Len(h.array[p])
             /\ \A j \in 1..h.len[p] : h.array[p][j] = IF j < Position(g, p, n) THEN g.array[p][j] ELSE g.array[p][j + 1]
  <2> DEFINE k == Position(g, p, n)
             a == g.array[p]
             m == g.len[p]
  <2>1. a \in Seq(Nodes) /\ m \in Nat /\ m <= Len(a)
    BY DEF IsGraph
  <2>2. n \in ChildSet(g, p)
    BY <1>2 DEF Linked
  <2>3. \E j \in 1..m : a[j] = n
    BY <2>2, ChildrenAre
  <2>4. k \in 1..m /\ a[k] = n
    BY <2>3, Zenon DEF Position
  <2>5. h.array[p] = [j \in DOMAIN a |-> IF k <= j /\ j < m THEN a[j + 1] ELSE a[j]] /\ h.len[p] = m - 1
    BY <1>1, <1>2
  <2> HIDE DEF k, a, m
  <2>6. \A j \in 1..Len(a) : h.array[p][j] \in Nodes
    BY <2>1, <2>5
  <2>7. DOMAIN h.array[p] = 1..Len(a)
    BY <2>1, <2>5
  <2>8. h.array[p] \in Seq(Nodes) /\ Len(h.array[p]) = Len(a)
    <3>1. h.array[p] \in [1..Len(a) -> Nodes]
      BY <2>5, <2>6, <2>7
    <3> QED BY <2>1, <3>1
  <2>9. \A j \in 1..m - 1 : h.array[p][j] = IF j < k THEN a[j] ELSE a[j + 1]
    BY <2>1, <2>4, <2>5
  <2> QED BY <2>1, <2>4, <2>5, <2>8, <2>9 DEF k, a, m
<1>3. ASSUME NEW p \in AllNodes, p \notin g.parents[n]
      PROVE  h.array[p] = g.array[p] /\ h.len[p] = g.len[p]
  BY <1>1, <1>3
<1>4. IsGraph(h)
  <2>1. \A p \in AllNodes : h.array[p] \in Seq(Nodes) /\ h.len[p] \in Nat /\ h.len[p] <= Len(h.array[p])
    BY <1>2, <1>3 DEF IsGraph
  <2>2. h.array \in [AllNodes -> Seq(Nodes)] /\ h.len \in [AllNodes -> Nat]
    BY <1>1, <2>1
  <2>3. h.parents \in [AllNodes -> SUBSET AllNodes] /\ h.nodes \in SUBSET AllNodes /\ h.failed \in BOOLEAN
    BY <1>1 DEF IsGraph
  <2> QED BY <1>1, <2>1, <2>2, <2>3 DEF IsGraph
<1>5. ASSUME NEW p \in AllNodes
      PROVE  /\ ChildSet(h, p) = ChildSet(g, p) \ (IF p \in g.parents[n] THEN {n} ELSE {})
             /\ \A i, j \in 1..h.len[p] : h.array[p][i] = h.array[p][j] => i = j
  <2>1. CASE p \in g.parents[n]
    <3> DEFINE k == Position(g, p, n)
               s == g.array[p]
               t == h.array[p]
               m == g.len[p]
    <3>1. m \in Nat /\ k \in 1..m /\ s[k] = n /\ h.len[p] = m - 1
      BY <1>2, <2>1 DEF IsGraph
    <3>2. \A i, j \in 1..m : s[i] = s[j] => i = j
      BY DEF Distinct
    <3>3. \A j \in 1..m - 1 : t[j] = IF j < k THEN s[j] ELSE s[j + 1]
      BY <1>2, <2>1
    <3> HIDE DEF k, s, t, m
    <3>4. Dropped(s, t, m, k)
      BY <3>1, <3>2, <3>3 DEF Dropped
    <3>6. OthersStay(s, t, m, k)
      BY <3>4, DropOne
    <3>5. ChildSet(h, p) = {t[i] : i \in 1..m - 1} /\ ChildSet(g, p) = {s[i] : i \in 1..m}
      BY <1>4, <3>1, ChildrenAre DEF t, s, m
    <3> QED BY <2>1, <3>1, <3>5, <3>6 DEF OthersStay, t
  <2>2. CASE p \notin g.parents[n]
    <3>1. ChildSet(h, p) = ChildSet(g, p)
      BY <1>3, <2>2 DEF ChildSet, Childs
    <3> QED BY <1>3, <2>2, <3>1 DEF Distinct
  <2> QED BY <2>1, <2>2
<1>6. Distinct(h)
  BY <1>5 DEF Distinct
<1>7. \A p \in AllNodes : Len(h.array[p]) = Len(g.array[p]) /\ (p \notin g.parents[n] => h.len[p] = g.len[p])
  BY <1>2, <1>3
<1> QED BY <1>1, <1>4, <1>5, <1>6, <1>7 DEF h

\* A node without children can be removed.
LEMMA RemoveNodeKeeps ==
    ASSUME NEW g, GraphOf(g), NEW n \in g.nodes \ {Root}, g.len[n] = 0
    PROVE  /\ GraphOf(RemoveNode(g, n))
           /\ \A p \in AllNodes : Len(RemoveNode(g, n).array[p]) = Len(g.array[p])
<1> DEFINE h == RemoveNode(g, n)
<1>1. IsGraph(g) /\ Distinct(g) /\ Linked(g) /\ Acyclic(g) /\ Gone(g) /\ Root \in g.nodes
  BY DEF GraphOf
<1>2. /\ IsGraph(h) /\ Distinct(h) /\ h.nodes = g.nodes \ {n}
      /\ h.parents = [g.parents EXCEPT ![n] = {}]
      /\ \A p \in AllNodes : /\ Len(h.array[p]) = Len(g.array[p])
                             /\ ChildSet(h, p) = ChildSet(g, p) \ (IF p \in g.parents[n] THEN {n} ELSE {})
                             /\ p \notin g.parents[n] => h.len[p] = g.len[p]
  BY <1>1, RemoveNodeIs
<1> HIDE DEF h
<1>3. g.nodes \subseteq AllNodes /\ n \in AllNodes /\ DOMAIN g.parents = AllNodes
  BY <1>1 DEF IsGraph
<1>4. ChildSet(g, n) = {}
  <2>1. 1..g.len[n] = {}
    OBVIOUS
  <2> QED BY <1>1, <1>3, <2>1, ChildrenAre
<1>5. \A p \in g.nodes : ChildSet(h, p) = ChildSet(g, p) \ {n}
  <2>1. ASSUME NEW p \in g.nodes, n \in ChildSet(g, p) PROVE p \in g.parents[n]
    BY <1>1, <2>1 DEF Linked
  <2> QED BY <1>2, <1>3, <2>1
<1>6. Linked(h)
  <2>1. ASSUME NEW m \in h.nodes, NEW c \in ChildSet(h, m) PROVE c \in h.nodes /\ m \in h.parents[c]
    <3>1. m \in g.nodes /\ c \in ChildSet(g, m) /\ c # n
      BY <1>2, <1>5
    <3>2. c \in g.nodes /\ m \in g.parents[c]
      BY <1>1, <3>1 DEF Linked
    <3> QED BY <1>2, <1>3, <3>1, <3>2
  <2>2. ASSUME NEW m \in h.nodes, NEW p \in h.parents[m] PROVE p \in h.nodes /\ m \in ChildSet(h, p)
    <3>1. m \in g.nodes /\ m # n /\ p \in g.parents[m]
      BY <1>2, <1>3
    <3>2. p \in g.nodes /\ m \in ChildSet(g, p)
      BY <1>1, <3>1 DEF Linked
    <3>3. p # n
      BY <1>4, <3>2
    <3> QED BY <1>2, <1>5, <3>1, <3>2, <3>3
  <2> QED BY <2>1, <2>2 DEF Linked
<1>7. Acyclic(h)
  BY <1>1, <1>2, <1>5, FewerIsAcyclic
<1>8. Gone(h)
  <2>1. ASSUME NEW m \in AllNodes \ h.nodes PROVE h.len[m] = 0 /\ h.parents[m] = {}
    <3>1. m \notin g.parents[n]
      <4>1. CASE m = n
        BY <1>1, <1>4, <4>1 DEF Linked
      <4>2. CASE m \notin g.nodes
        BY <1>1, <4>2 DEF Linked
      <4> QED BY <1>2, <4>1, <4>2
    <3>2. g.len[m] = 0 /\ (m # n => g.parents[m] = {})
      BY <1>1, <1>2 DEF Gone
    <3> QED BY <1>2, <1>3, <3>1, <3>2
  <2> QED BY <2>1 DEF Gone
<1> QED BY <1>1, <1>2, <1>6, <1>7, <1>8 DEF GraphOf, h
-----------------------------------------------------------------------------
\* At first there is the root.
LEMMA GraphInitOK == GraphInit => GraphInv
<1> SUFFICES ASSUME GraphInit PROVE GraphInv
  OBVIOUS
<1>1. /\ graph.nodes = {Root} /\ graph.array = [n \in AllNodes |-> <<>>] /\ graph.failed = FALSE
      /\ graph.len = [n \in AllNodes |-> 0] /\ graph.parents = [n \in AllNodes |-> {}]
      /\ graph = [f \in {"nodes", "array", "len", "parents", "failed"} |-> graph[f]]
  BY DEF GraphInit, NewGraph, AllNodes
<1>2. Root \in AllNodes
  BY DEF AllNodes
<1>3. IsGraph(graph)
  <2>3. <<>> \in Seq(Nodes)
    OBVIOUS
  <2>1. graph.array \in [AllNodes -> Seq(Nodes)]
    BY <1>1, <2>3
  <2>4. graph.len \in [AllNodes -> Nat] /\ graph.parents \in [AllNodes -> SUBSET AllNodes]
    BY <1>1
  <2>5. graph.nodes \in SUBSET AllNodes /\ graph.failed \in BOOLEAN
    BY <1>1, <1>2
  <2>2. \A n \in AllNodes : graph.len[n] <= Len(graph.array[n])
    BY <1>1
  <2> QED BY <1>1, <2>1, <2>2, <2>4, <2>5 DEF IsGraph
<1>4. \A n \in AllNodes : ChildSet(graph, n) = {}
  <2>1. \A n \in AllNodes : graph.len[n] = 0 /\ 1..0 = {}
    BY <1>1
  <2> QED BY <1>3, <2>1, ChildrenAre
<1>5. Distinct(graph) /\ Gone(graph)
  BY <1>1 DEF Distinct, Gone
<1>6. Linked(graph)
  BY <1>1, <1>2, <1>4 DEF Linked
<1>8. Acyclic(graph)
  <2>1. \A n \in graph.nodes : ChildSet(graph, n) = {}
    BY <1>1, <1>2, <1>4
  <2>2. \A S \in SUBSET graph.nodes : S # {} => \E n \in S : ChildSet(graph, n) \cap S = {}
    BY <2>1
  <2> QED BY <2>2, AcyclicIf
<1>7. CallsOK
  BY DEF GraphInit, CallsOK
<1> QED BY <1>1, <1>3, <1>5, <1>6, <1>7, <1>8 DEF GraphInv, GraphOf

\* A new node below the root.
LEMMA InsertStep ==
    ASSUME GraphInv, NEW n \in Nodes, InsertNodeAt(n)
    PROVE  GraphInv'
<1> DEFINE g == [graph EXCEPT !.nodes = @ \cup {n}, !.array[n] = <<>>]
<1>1. /\ IsGraph(graph) /\ Distinct(graph) /\ Linked(graph) /\ Acyclic(graph) /\ Gone(graph)
      /\ Root \in graph.nodes
  BY DEF GraphInv, GraphOf
<1>2. n \notin graph.nodes /\ graph' = AppendChild(g, Root, n) /\ removing = <<>> /\ removing' = <<>>
  BY DEF InsertNodeAt, GraphStep
<1>3. /\ n \in AllNodes /\ Root \in AllNodes /\ n # Root /\ graph.nodes \subseteq AllNodes
      /\ graph.len[n] = 0 /\ graph.parents[n] = {}
  BY <1>1, <1>2, OptionGraphAssumption DEF AllNodes, IsGraph, Gone
<1>4. /\ DOMAIN g = {"nodes", "array", "len", "parents", "failed"} /\ g = [f \in DOMAIN g |-> g[f]]
      /\ g.nodes = graph.nodes \cup {n} /\ g.array = [graph.array EXCEPT ![n] = <<>>]
      /\ g.len = graph.len /\ g.parents = graph.parents /\ g.failed = graph.failed
  BY <1>1 DEF IsGraph
<1> HIDE DEF g
<1>5. IsGraph(g)
  <2>1. g.array \in [AllNodes -> Seq(Nodes)] /\ g.nodes \in SUBSET AllNodes
    BY <1>1, <1>3, <1>4 DEF IsGraph
  <2>2. \A m \in AllNodes : g.len[m] <= Len(g.array[m])
    <3>1. Len(<<>>) = 0
      OBVIOUS
    <3> QED BY <1>1, <1>3, <1>4, <3>1 DEF IsGraph
  <2> QED BY <1>1, <1>4, <2>1, <2>2 DEF IsGraph
<1>6. Distinct(g)
  <2>1. \A m \in AllNodes : g.len[m] = graph.len[m] /\ (m # n => g.array[m] = graph.array[m])
    BY <1>1, <1>4 DEF IsGraph
  <2>2. 1..g.len[n] = {}
    BY <1>3, <1>4
  <2> QED BY <1>1, <2>1, <2>2 DEF Distinct
<1>7. \A m \in AllNodes : ChildSet(g, m) = ChildSet(graph, m)
  <2>1. ASSUME NEW m \in AllNodes, m # n PROVE ChildSet(g, m) = ChildSet(graph, m)
    <3>1. g.array[m] = graph.array[m] /\ g.len[m] = graph.len[m]
      BY <1>1, <1>4, <2>1 DEF IsGraph
    <3> QED BY <3>1 DEF ChildSet, Childs
  <2>2. 1..g.len[n] = {} /\ 1..graph.len[n] = {}
    BY <1>3, <1>4
  <2>3. ChildSet(g, n) = {} /\ ChildSet(graph, n) = {}
    BY <1>1, <1>3, <1>5, <2>2, ChildrenAre
  <2> QED BY <2>1, <2>3
<1>8. n \notin ChildSet(g, Root)
  BY <1>1, <1>2, <1>3, <1>7 DEF Linked
<1>9. /\ IsGraph(graph') /\ Distinct(graph') /\ graph'.nodes = graph.nodes \cup {n}
      /\ graph'.parents = [graph.parents EXCEPT ![n] = {Root}]
      /\ graph'.len = [graph.len EXCEPT ![Root] = @ + 1]
      /\ ChildSet(graph', Root) = ChildSet(graph, Root) \cup {n}
      /\ \A m \in AllNodes \ {Root} : ChildSet(graph', m) = ChildSet(graph, m)
  <2>1. /\ IsGraph(graph') /\ Distinct(graph') /\ graph'.nodes = g.nodes
        /\ graph'.parents = [g.parents EXCEPT ![n] = @ \cup {Root}]
        /\ graph'.len = [g.len EXCEPT ![Root] = @ + 1]
        /\ ChildSet(graph', Root) = ChildSet(g, Root) \cup {n}
        /\ \A m \in AllNodes \ {Root} : ChildSet(graph', m) = ChildSet(g, m)
    BY <1>2, <1>3, <1>5, <1>6, <1>8, AppendIs
  <2>2. graph.parents[n] \cup {Root} = {Root}
    BY <1>3
  <2> QED BY <1>3, <1>4, <1>7, <2>1, <2>2
<1>10. ChildSet(graph, n) = {}
  <2>1. 1..graph.len[n] = {}
    BY <1>3
  <2> QED BY <1>1, <1>3, <2>1, ChildrenAre
<1>11. Linked(graph')
  <2>1. DOMAIN graph.parents = AllNodes
    BY <1>1 DEF IsGraph
  <2>2. ASSUME NEW m \in graph'.nodes, NEW c \in ChildSet(graph', m) PROVE c \in graph'.nodes /\ m \in graph'.parents[c]
    <3>1. CASE m = Root /\ c = n
      BY <1>3, <1>9, <2>1, <3>1
    <3>2. CASE ~(m = Root /\ c = n)
      <4>1. c \in ChildSet(graph, m) /\ m # n
        BY <1>3, <1>9, <1>10, <3>2
      <4>2. c \in graph.nodes /\ m \in graph.parents[c] /\ c # n
        BY <1>1, <1>2, <1>9, <4>1 DEF Linked
      <4> QED BY <1>3, <1>9, <2>1, <4>2
    <3> QED BY <3>1, <3>2
  <2>3. ASSUME NEW m \in graph'.nodes, NEW p \in graph'.parents[m] PROVE p \in graph'.nodes /\ m \in ChildSet(graph', p)
    <3>1. CASE m = n
      <4>1. p = Root
        BY <1>3, <1>9, <2>1, <3>1
      <4> QED BY <1>1, <1>9, <3>1, <4>1
    <3>2. CASE m # n
      <4>1. m \in graph.nodes /\ p \in graph.parents[m]
        BY <1>3, <1>9, <2>1, <3>2
      <4>2. p \in graph.nodes /\ m \in ChildSet(graph, p)
        BY <1>1, <4>1 DEF Linked
      <4> QED BY <1>3, <1>9, <4>2
    <3> QED BY <3>1, <3>2
  <2> QED BY <2>2, <2>3 DEF Linked
<1>12. Acyclic(graph')
  <2> SUFFICES ASSUME NEW S \in SUBSET graph'.nodes, S # {} PROVE \E m \in S : ChildSet(graph', m) \cap S = {}
    BY AcyclicIf
  <2>1. CASE n \in S
    <3>1. ChildSet(graph', n) = {}
      BY <1>3, <1>9, <1>10
    <3> QED BY <2>1, <3>1
  <2>2. CASE n \notin S
    <3>1. S \in SUBSET graph.nodes
      BY <1>9, <2>2
    <3>2. PICK m \in S : ChildSet(graph, m) \cap S = {}
      BY <1>1, <3>1 DEF Acyclic
    <3>3. ChildSet(graph', m) \subseteq ChildSet(graph, m) \cup {n}
      BY <1>3, <1>9, <3>1
    <3> QED BY <2>2, <3>2, <3>3
  <2> QED BY <2>1, <2>2
<1>13. Gone(graph')
  BY <1>1, <1>3, <1>9 DEF Gone, IsGraph
<1>14. CallsOK'
  BY <1>2 DEF CallsOK
<1> QED BY <1>1, <1>9, <1>11, <1>12, <1>13, <1>14 DEF GraphInv, GraphOf

\* A new edge that is no way back, or an error.
LEMMA EdgeStep ==
    ASSUME GraphInv, NEW from \in Nodes, NEW to \in Nodes, AddEdge(from, to)
    PROVE  GraphInv'
<1>1. /\ IsGraph(graph) /\ Distinct(graph) /\ Linked(graph) /\ Acyclic(graph) /\ Gone(graph)
      /\ Root \in graph.nodes
  BY DEF GraphInv, GraphOf
<1>2. removing = <<>> /\ removing' = <<>> /\ from \in graph.nodes /\ to \in graph.nodes /\ to \notin ChildSet(graph, from)
  BY DEF AddEdge, GraphStep
<1>3. CallsOK'
  BY <1>2 DEF CallsOK
<1>4. CASE graph' = graph
  BY <1>1, <1>3, <1>4 DEF GraphInv, GraphOf
<1>5. CASE graph' = AppendChild(graph, from, to) /\ from \notin Below(graph, to)
  <2>1. from \in AllNodes /\ to \in AllNodes /\ graph.nodes \subseteq AllNodes /\ DOMAIN graph.parents = AllNodes
    BY <1>1 DEF AllNodes, IsGraph
  <2>2. /\ IsGraph(graph') /\ Distinct(graph') /\ graph'.nodes = graph.nodes
        /\ graph'.parents = [graph.parents EXCEPT ![to] = @ \cup {from}]
        /\ graph'.len = [graph.len EXCEPT ![from] = @ + 1]
        /\ ChildSet(graph', from) = ChildSet(graph, from) \cup {to}
        /\ \A m \in AllNodes \ {from} : ChildSet(graph', m) = ChildSet(graph, m)
    <3>1. IsGraph(graph) /\ Distinct(graph) /\ to \notin ChildSet(graph, from)
      BY <1>1, <1>2
    <3> QED BY <1>5, <2>1, <3>1, AppendIs
  <2>3. Acyclic(graph')
    BY <1>1, <1>2, <1>5, <2>1, <2>2, EdgeIsAcyclic
  <2>4. Linked(graph')
    <3>1. ASSUME NEW m \in graph.nodes, NEW c \in ChildSet(graph', m) PROVE c \in graph.nodes /\ m \in graph'.parents[c]
      <4>1. CASE m = from /\ c = to
        BY <1>2, <2>1, <2>2, <4>1
      <4>2. CASE c \in ChildSet(graph, m)
        BY <1>1, <2>1, <2>2, <4>2 DEF Linked
      <4> QED BY <2>1, <2>2, <4>1, <4>2
    <3>2. ASSUME NEW m \in graph.nodes, NEW p \in graph'.parents[m] PROVE p \in graph.nodes /\ m \in ChildSet(graph', p)
      <4>1. CASE p = from /\ m = to
        BY <1>2, <2>2, <4>1
      <4>2. CASE p \in graph.parents[m]
        BY <1>1, <2>1, <2>2, <4>2 DEF Linked
      <4> QED BY <2>1, <2>2, <4>1, <4>2
    <3> QED BY <2>2, <3>1, <3>2 DEF Linked
  <2>5. Gone(graph')
    BY <1>1, <1>2, <2>1, <2>2 DEF Gone, IsGraph
  <2> QED BY <1>1, <1>3, <2>2, <2>3, <2>4, <2>5 DEF GraphInv, GraphOf
<1> QED BY <1>4, <1>5 DEF AddEdge
\* A node that has another parent leaves the root.
LEMMA RootParentStep ==
    ASSUME GraphInv, NEW n \in Nodes, RemoveRootParent(n)
    PROVE  GraphInv'
<1> DEFINE k == Position(graph, Root, n)
           s == graph.array[Root]
           m == graph.len[Root]
           t == [j \in 1..m - 1 |-> IF j < k THEN s[j] ELSE s[j + 1]]
<1>1. /\ IsGraph(graph) /\ Distinct(graph) /\ Linked(graph) /\ Acyclic(graph) /\ Gone(graph)
      /\ Root \in graph.nodes
  BY DEF GraphInv, GraphOf
<1>2. /\ n \in graph.nodes /\ Root \in graph.parents[n] /\ removing = <<>> /\ removing' = <<>>
      /\ n \in AllNodes /\ Root \in AllNodes
  BY DEF RemoveRootParent, GraphStep, AllNodes
<1>3. /\ DOMAIN graph' = {"nodes", "array", "len", "parents", "failed"} /\ graph' = [f \in DOMAIN graph' |-> graph'[f]]
      /\ graph'.nodes = graph.nodes /\ graph'.failed = graph.failed
      /\ graph'.array = [graph.array EXCEPT ![Root] = t] /\ graph'.len = [graph.len EXCEPT ![Root] = m - 1]
      /\ graph'.parents = [graph.parents EXCEPT ![n] = @ \ {Root}]
  BY <1>1 DEF RemoveRootParent, IsGraph
<1>4. s \in Seq(Nodes) /\ m \in Nat /\ m <= Len(s)
  BY <1>1, <1>2 DEF IsGraph
<1>5. k \in 1..m /\ s[k] = n
  <2>1. \E j \in 1..m : s[j] = n
    BY <1>1, <1>2, ChildrenAre DEF Linked
  <2> QED BY <2>1, Zenon DEF Position
<1>6. graph'.array[Root] = t /\ graph'.len[Root] = m - 1
      /\ \A p \in AllNodes \ {Root} : graph'.array[p] = graph.array[p] /\ graph'.len[p] = graph.len[p]
  BY <1>1, <1>2, <1>3 DEF IsGraph
<1>7. \A j \in 1..m - 1 : t[j] = IF j < k THEN s[j] ELSE s[j + 1]
  OBVIOUS
<1>8. t \in Seq(Nodes) /\ Len(t) = m - 1 /\ m - 1 \in Nat
  <2>1. m - 1 \in Nat
    BY <1>4, <1>5
  <2>2. \A j \in 1..m - 1 : t[j] \in Nodes
    BY <1>4, <1>7
  <2>3. t \in [1..m - 1 -> Nodes]
    BY <2>2
  <2> QED BY <2>1, <2>3
<1> HIDE DEF k, s, m, t
<1>9. OthersStay(s, t, m, k)
  <2>1. \A i, j \in 1..m : s[i] = s[j] => i = j
    BY <1>1, <1>2 DEF Distinct, s, m
  <2>2. Dropped(s, t, m, k)
    BY <1>4, <1>5, <1>7, <2>1 DEF Dropped
  <2> QED BY <2>2, DropOne
<1>10. IsGraph(graph')
  <2>1. \A p \in AllNodes : /\ graph'.array[p] \in Seq(Nodes) /\ graph'.len[p] \in Nat
                            /\ graph'.len[p] <= Len(graph'.array[p])
    <3>1. t \in Seq(Nodes) /\ m - 1 \in Nat /\ m - 1 <= Len(t)
      BY <1>8
    <3>2. \A p \in AllNodes \ {Root} : /\ graph.array[p] \in Seq(Nodes) /\ graph.len[p] \in Nat
                                       /\ graph.len[p] <= Len(graph.array[p])
      BY <1>1 DEF IsGraph
    <3> QED BY <1>6, <3>1, <3>2
  <2>2. DOMAIN graph'.array = AllNodes /\ DOMAIN graph'.len = AllNodes
    BY <1>1, <1>3 DEF IsGraph
  <2>3. graph'.array \in [AllNodes -> Seq(Nodes)] /\ graph'.len \in [AllNodes -> Nat]
    BY <1>1, <1>2, <1>3, <1>4, <1>8 DEF IsGraph
  <2>4. graph'.parents \in [AllNodes -> SUBSET AllNodes] /\ graph'.nodes \in SUBSET AllNodes /\ graph'.failed \in BOOLEAN
    BY <1>1, <1>2, <1>3 DEF IsGraph
  <2> QED BY <1>3, <2>1, <2>3, <2>4 DEF IsGraph
<1>11. ChildSet(graph', Root) = ChildSet(graph, Root) \ {n}
  <2>1. ChildSet(graph', Root) = {t[j] : j \in 1..m - 1} /\ ChildSet(graph, Root) = {s[j] : j \in 1..m}
    BY <1>1, <1>2, <1>6, <1>10, ChildrenAre DEF s, m
  <2> QED BY <1>5, <1>9, <2>1 DEF OthersStay
<1>12. \A p \in AllNodes \ {Root} : ChildSet(graph', p) = ChildSet(graph, p)
  BY <1>6 DEF ChildSet, Childs
<1>13. Distinct(graph')
  BY <1>1, <1>6, <1>9 DEF Distinct, OthersStay
<1>14. graph.nodes \subseteq AllNodes /\ DOMAIN graph.parents = AllNodes
  BY <1>1 DEF IsGraph
<1>15. Linked(graph')
  <2>1. ASSUME NEW x \in graph.nodes, NEW c \in ChildSet(graph', x) PROVE c \in graph.nodes /\ x \in graph'.parents[c]
    <3>1. c \in ChildSet(graph, x) /\ ~(x = Root /\ c = n)
      BY <1>11, <1>12, <1>14
    <3>2. c \in graph.nodes /\ x \in graph.parents[c]
      BY <1>1, <3>1 DEF Linked
    <3> QED BY <1>3, <1>14, <3>1, <3>2
  <2>2. ASSUME NEW x \in graph.nodes, NEW p \in graph'.parents[x] PROVE p \in graph.nodes /\ x \in ChildSet(graph', p)
    <3>1. p \in graph.parents[x] /\ ~(p = Root /\ x = n)
      BY <1>3, <1>14
    <3>2. p \in graph.nodes /\ x \in ChildSet(graph, p)
      BY <1>1, <3>1 DEF Linked
    <3> QED BY <1>11, <1>12, <1>14, <3>1, <3>2
  <2> QED BY <1>3, <2>1, <2>2 DEF Linked
<1>16. Acyclic(graph')
  <2>1. \A p \in graph'.nodes : ChildSet(graph', p) \subseteq ChildSet(graph, p)
    BY <1>3, <1>11, <1>12, <1>14
  <2> QED BY <1>1, <1>3, <2>1, FewerIsAcyclic
<1>17. Gone(graph')
  BY <1>1, <1>2, <1>3, <1>6, <1>14 DEF Gone
<1>18. CallsOK'
  BY <1>2 DEF CallsOK
<1> QED BY <1>1, <1>3, <1>10, <1>13, <1>15, <1>16, <1>17, <1>18 DEF GraphInv, GraphOf

\* A sequence without its last element.
LEMMA FrontIs ==
    ASSUME NEW S, NEW s \in Seq(S), s # <<>>
    PROVE  Front(s) \in Seq(S) /\ Len(Front(s)) = Len(s) - 1 /\ \A i \in 1..Len(s) - 1 : Front(s)[i] = s[i]
<1>1. Len(s) \in Nat /\ Len(s) # 0
  OBVIOUS
<1>2. Len(s) - 1 \in Nat
  BY <1>1
<1>3. Front(s) = [i \in 1..Len(s) - 1 |-> s[i]]
  BY <1>1, <1>2 DEF Front
<1>4. \A i \in 1..Len(s) - 1 : s[i] \in S
  OBVIOUS
<1> HIDE DEF Front
<1>5. Front(s) \in [1..Len(s) - 1 -> S]
  BY <1>3, <1>4
<1> QED BY <1>2, <1>3, <1>5

\* The steps of a removal: calls, and nodes without children that go.
LEMMA RemovalStep ==
    ASSUME GraphInv, (\E n \in Nodes : RemoveSubGraph(n)) \/ RemoveChild \/ RemoveSelf
    PROVE  GraphInv'
<1> DEFINE Frames == [node : Nodes, at : Nat \ {0}, len : Nat]
<1>1. GraphOf(graph) /\ IsGraph(graph) /\ CallsOK
  BY DEF GraphInv, GraphOf
<1>2. removing \in Seq(Frames) /\ \A i \in 1..Len(removing) : removing[i].len <= Len(graph.array[removing[i].node])
  BY <1>1 DEF CallsOK
<1>3. ASSUME NEW n \in Nodes PROVE Call(n) \in Frames /\ Call(n).len <= Len(graph.array[Call(n).node])
  <2>1. n \in AllNodes
    BY DEF AllNodes
  <2>2. graph.len[n] \in Nat /\ graph.len[n] <= Len(graph.array[n])
    BY <1>1, <2>1 DEF IsGraph
  <2> QED BY <2>2 DEF Call
<1>4. ASSUME NEW n \in Nodes, RemoveSubGraph(n) PROVE GraphInv'
  <2>1. graph' = graph /\ removing' = <<Call(n)>>
    BY <1>4 DEF RemoveSubGraph
  <2>2. CallsOK'
    BY <1>3, <2>1 DEF CallsOK
  <2> QED BY <1>1, <2>1, <2>2 DEF GraphInv
<1>5. ASSUME removing # <<>> PROVE Caller \in Frames /\ Len(removing) \in 1..Len(removing) /\ Caller.len <= Len(graph.array[Caller.node])
  <2> HIDE DEF Frames
  <2>1. Len(removing) \in 1..Len(removing)
    BY <1>2, <1>5
  <2> QED BY <1>2, <2>1 DEF Caller
<1>6. ASSUME RemoveChild PROVE GraphInv'
  <2> DEFINE l == Len(removing)
             child == graph.array[Caller.node][Caller.at]
             next == [removing EXCEPT ![l].at = @ + 1]
  <2>1. /\ removing # <<>> /\ Caller.at <= Caller.len /\ graph' = graph
        /\ removing' = IF child \in graph.nodes THEN Append(next, Call(child)) ELSE next
    BY <1>6 DEF RemoveChild
  <2>2. l \in 1..Len(removing) /\ Caller = removing[l] /\ Caller \in Frames
    BY <1>5, <2>1 DEF Caller
  <2>3. child \in Nodes
    <3>1. Caller.node \in AllNodes /\ Caller.at \in Nat \ {0}
      BY <2>2 DEF AllNodes
    <3>2. graph.array[Caller.node] \in Seq(Nodes) /\ Caller.at \in 1..Len(graph.array[Caller.node])
      BY <1>1, <1>5, <2>1, <2>2, <3>1 DEF IsGraph
    <3> QED BY <3>2
  <2>4. [removing[l] EXCEPT !.at = @ + 1] \in Frames /\ [removing[l] EXCEPT !.at = @ + 1].len = removing[l].len
        /\ [removing[l] EXCEPT !.at = @ + 1].node = removing[l].node
    BY <2>2
  <2>5. next \in Seq(Frames) /\ Len(next) = l
        /\ \A i \in 1..l : next[i].len = removing[i].len /\ next[i].node = removing[i].node
    <3>1. next = [removing EXCEPT ![l] = [removing[l] EXCEPT !.at = @ + 1]]
      BY <1>2, <2>2
    <3> HIDE DEF next, Frames
    <3> QED BY <1>2, <2>2, <2>4, <3>1
  <2>6. CallsOK'
    <3> HIDE DEF next, child
    <3>1. CASE child \in graph.nodes
      <4>1. removing' = Append(next, Call(child))
        BY <2>1, <3>1
      <4>2. Call(child) \in Frames /\ Call(child).len <= Len(graph.array[Call(child).node])
        BY <1>3, <2>3
      <4> HIDE DEF Frames
      <4>3. removing' \in Seq(Frames) /\ Len(removing') = l + 1 /\ removing'[l + 1] = Call(child)
            /\ \A i \in 1..l : removing'[i] = next[i]
        BY <2>2, <2>5, <4>1, <4>2
      <4>4. \A i \in 1..Len(removing') : removing'[i].len <= Len(graph'.array[removing'[i].node])
        BY <1>2, <2>1, <2>2, <2>5, <4>2, <4>3
      <4> QED BY <4>3, <4>4 DEF CallsOK, Frames
    <3>2. CASE child \notin graph.nodes
      <4>1. removing' = next
        BY <2>1, <3>2
      <4>2. \A i \in 1..Len(removing') : removing'[i].len <= Len(graph'.array[removing'[i].node])
        BY <1>2, <2>1, <2>5, <4>1
      <4> QED BY <2>5, <4>1, <4>2 DEF CallsOK
    <3> QED BY <3>1, <3>2
  <2> QED BY <1>1, <2>1, <2>6 DEF GraphInv
<1>7. ASSUME RemoveSelf PROVE GraphInv'
  <2>1. removing # <<>>
    BY <1>7 DEF RemoveSelf
  <2>2. CASE removing' = <<>> /\ graph' = graph
    <3>1. CallsOK'
      BY <2>2 DEF CallsOK
    <3> QED BY <1>1, <2>2, <3>1 DEF GraphInv
  <2>3. CASE /\ removing' = Front(removing)
             /\ graph' = (IF Caller.node \in graph.nodes THEN RemoveNode(graph, Caller.node) ELSE graph)
             /\ ~(Caller.node \in graph.nodes /\ graph.len[Caller.node] > 0)
    <3>1. Caller.node \in Nodes /\ Caller.node # Root /\ Caller.node \in AllNodes
      BY <1>5, <2>1, OptionGraphAssumption DEF AllNodes
    <3>2. GraphOf(graph') /\ \A p \in AllNodes : Len(graph'.array[p]) = Len(graph.array[p])
      <4>1. CASE Caller.node \in graph.nodes
        <5>1. graph.len[Caller.node] = 0
          BY <1>1, <2>3, <3>1, <4>1 DEF IsGraph
        <5>2. graph' = RemoveNode(graph, Caller.node)
          BY <2>3, <4>1
        <5> QED BY <1>1, <3>1, <4>1, <5>1, <5>2, RemoveNodeKeeps
      <4>2. CASE Caller.node \notin graph.nodes
        BY <1>1, <2>3, <4>2
      <4> QED BY <4>1, <4>2
    <3>3. /\ removing' \in Seq(Frames) /\ Len(removing') = Len(removing) - 1
          /\ \A i \in 1..Len(removing) - 1 : removing'[i] = removing[i]
      <4> HIDE DEF Frames
      <4>1. Len(removing) - 1 \in Nat
        BY <1>5, <2>1
      <4>2. removing' = SubSeq(removing, 1, Len(removing) - 1)
        BY <2>3 DEF Front
      <4>3. /\ SubSeq(removing, 1, Len(removing) - 1) \in Seq(Frames)
            /\ Len(SubSeq(removing, 1, Len(removing) - 1)) = Len(removing) - 1
            /\ \A i \in 1..Len(removing) - 1 : SubSeq(removing, 1, Len(removing) - 1)[i] = removing[i]
        BY <1>2, <2>1, FrontIs DEF Front
      <4> QED BY <4>2, <4>3
    <3>4. \A i \in 1..Len(removing') : removing'[i].len <= Len(graph'.array[removing'[i].node])
      <4>1. ASSUME NEW i \in 1..Len(removing) - 1 PROVE removing[i].node \in AllNodes /\ i \in 1..Len(removing)
        <5>2. i \in 1..Len(removing)
          BY <1>2
        <5>1. removing[i] \in Frames
          <6> HIDE DEF Frames
          <6> QED BY <1>2, <5>2
        <5> QED BY <5>1, <5>2 DEF AllNodes
      <4> QED BY <1>2, <3>2, <3>3, <4>1
    <3> QED BY <3>2, <3>3, <3>4 DEF GraphInv, CallsOK
  <2> QED BY <1>7, <2>2, <2>3 DEF RemoveSelf
<1> QED BY <1>4, <1>6, <1>7

\* Every operation keeps the invariant; NextFromTop only reads.
LEMMA GraphStepOK == GraphInv /\ [GraphNext]_graphVars => GraphInv'
<1> SUFFICES ASSUME GraphInv, [GraphNext]_graphVars PROVE GraphInv'
  OBVIOUS
<1>1. CASE UNCHANGED <<graph, removing>>
  BY <1>1 DEF GraphInv, CallsOK
<1>2. CASE \E n \in Nodes : InsertNodeAt(n)
  BY <1>2, InsertStep
<1>3. CASE \E n \in Nodes : RemoveRootParent(n)
  BY <1>3, RootParentStep
<1>4. CASE (\E n \in Nodes : RemoveSubGraph(n)) \/ RemoveChild \/ RemoveSelf
  BY <1>4, RemovalStep
<1>5. CASE \E from \in Nodes, to \in Nodes : AddEdge(from, to)
  BY <1>5, EdgeStep
<1>6. CASE NextFromTop
  BY <1>1, <1>6 DEF NextFromTop
<1> QED BY <1>1, <1>2, <1>3, <1>4, <1>5, <1>6 DEF GraphNext, graphVars

\* The dependency graph is sound, for any nodes and any number of insertions, edges and
\* removals (graph.go): no sequence of them, not even a removal that fails half way,
\* leaves a cycle or an edge that one of its ends does not know.
THEOREM GraphSoundHolds == GraphSpec => []GraphSound
<1>1. GraphInv => GraphSound
  BY DEF GraphInv, GraphOf, GraphSound, Linked, Acyclic
<1> QED BY <1>1, GraphInitOK, GraphStepOK, PTL DEF GraphSpec

-----------------------------------------------------------------------------
(* The features of a dev container *)

\* What the variables of a build hold.
FeatureTypeOK ==
    /\ extracted \in [FeatureIds -> {"none", "empty", "partial", "whole"}]
    /\ torn \subseteq FeatureIds
    /\ DOMAIN build = {"pc", "todo", "sets", "force", "after", "override"} /\ build = [x \in DOMAIN build |-> build[x]]
    /\ build.pc \in {"idle", "process", "download", "extract", "parse", "copy", "built", "cyclic"}
    /\ build.sets \in Seq(FeatureIds)
    /\ build.pc \in {"process", "download", "extract", "parse"} => build.todo \in Seq(FeatureIds)
    /\ build.pc \in {"download", "extract", "parse"} => build.todo # <<>>

\* A folder is there and complete or not there, unless it is being extracted or was when
\* the build was killed; a feature is parsed from a folder; what was read is complete.
CacheInv ==
    /\ FeatureTypeOK
    /\ \A f \in FeatureIds \ torn :
          extracted[f] \in {"none", "whole"} \/ (build.pc = "extract" /\ f = Feature)
    /\ \A f \in LocalFeatures : extracted[f] = "whole"
    /\ build.pc \in {"download", "extract"} => Feature \notin LocalFeatures
    /\ build.pc = "parse" => extracted[Feature] # "none"
    /\ \A i \in 1..Len(build.sets) : build.sets[i] \notin torn => extracted[build.sets[i]] = "whole"

\* At first only the features of the repository are there.
LEMMA CacheInit == FeaturesInit => CacheInv
<1> SUFFICES ASSUME FeaturesInit PROVE CacheInv
  OBVIOUS
<1>1. /\ build.pc = "idle" /\ build.sets = <<>> /\ torn = {}
      /\ DOMAIN build = {"pc", "todo", "sets", "force", "after", "override"} /\ build = [x \in DOMAIN build |-> build[x]]
  BY DEF FeaturesInit, NoBuild
<1>2. /\ extracted \in [FeatureIds -> {"none", "empty", "partial", "whole"}]
      /\ \A f \in FeatureIds : extracted[f] \in {"none", "whole"}
  BY DEF FeaturesInit
<1>5. \A f \in LocalFeatures : extracted[f] = "whole"
  BY DEF FeaturesInit, FeatureIds
<1>3. <<>> \in Seq(FeatureIds) /\ Len(<<>>) = 0
  OBVIOUS
<1>4. FeatureTypeOK
  BY <1>1, <1>2, <1>3 DEF FeatureTypeOK
<1> QED BY <1>1, <1>2, <1>3, <1>4, <1>5 DEF CacheInv

\* What a build that ends with an error leaves.
LEMMA FailedBuild ==
    ASSUME BuildFails, extracted' \in [FeatureIds -> {"none", "empty", "partial", "whole"}], torn' \subseteq FeatureIds,
           \A f \in FeatureIds \ torn' : extracted'[f] \in {"none", "whole"},
           \A f \in LocalFeatures : extracted'[f] = "whole"
    PROVE  CacheInv'
<1>1. /\ build'.pc = "idle" /\ build'.sets = <<>>
      /\ DOMAIN build' = {"pc", "todo", "sets", "force", "after", "override"} /\ build' = [x \in DOMAIN build' |-> build'[x]]
  BY DEF BuildFails, NoBuild
<1>2. <<>> \in Seq(FeatureIds) /\ Len(<<>>) = 0
  OBVIOUS
<1>3. FeatureTypeOK'
  BY <1>1, <1>2 DEF FeatureTypeOK
<1> QED BY <1>1, <1>2, <1>3 DEF CacheInv

\* Every step of a build keeps the cache in order.
LEMMA CacheStep == CacheInv /\ [FeaturesNext]_featureVars => CacheInv'
<1> SUFFICES ASSUME CacheInv, [FeaturesNext]_featureVars PROVE CacheInv'
  OBVIOUS
<1> DEFINE Fields == {"pc", "todo", "sets", "force", "after", "override"}
           States == {"none", "empty", "partial", "whole"}
           f == Feature
<1>1. /\ extracted \in [FeatureIds -> States] /\ torn \subseteq FeatureIds
      /\ DOMAIN build = Fields /\ build = [x \in Fields |-> build[x]]
      /\ build.sets \in Seq(FeatureIds)
      /\ build.pc \in {"process", "download", "extract", "parse"} => build.todo \in Seq(FeatureIds)
      /\ build.pc \in {"download", "extract", "parse"} => build.todo # <<>>
  BY DEF CacheInv, FeatureTypeOK
<1>2. /\ \A g \in FeatureIds \ torn : extracted[g] \in {"none", "whole"} \/ (build.pc = "extract" /\ g = f)
      /\ \A g \in LocalFeatures : extracted[g] = "whole"
      /\ build.pc \in {"download", "extract"} => f \notin LocalFeatures
      /\ build.pc = "parse" => extracted[f] # "none"
      /\ \A i \in 1..Len(build.sets) : build.sets[i] \notin torn => extracted[build.sets[i]] = "whole"
  BY DEF CacheInv
<1>3. build.pc \in {"process", "download", "extract", "parse"} /\ build.todo # <<>> => f \in FeatureIds
  BY <1>1 DEF Feature
<1>4. \A i \in 1..Len(build.sets) : build.sets[i] \in FeatureIds
  BY <1>1
<1>5. CASE UNCHANGED featureVars
  BY <1>5 DEF featureVars, CacheInv, FeatureTypeOK, Feature
<1>6. CASE FetchFeatures
  <2>0. extracted' = extracted /\ torn' = torn /\ build.pc # "extract"
    BY <1>6 DEF FetchFeatures
  <2>6. PICK selected \in SUBSET FeatureIds : \E force \in BOOLEAN : \E order \in SetToSeqs(selected) :
             build' = [NoBuild EXCEPT !.pc = "process", !.todo = order, !.force = force]
    BY <1>6 DEF FetchFeatures
  <2>1. PICK force \in BOOLEAN, order \in SetToSeqs(selected) :
             build' = [NoBuild EXCEPT !.pc = "process", !.todo = order, !.force = force]
    BY <2>6
  <2>2. order \in Seq(FeatureIds)
    <3>1. IsFiniteSet(selected)
      BY FeaturesAssumption, FS_Subset
    <3>2. Cardinality(selected) \in Nat
      BY <3>1, FS_CardinalityType
    <3>3. order \in [1..Cardinality(selected) -> selected]
      BY <2>1 DEF SetToSeqs
    <3>4. order \in [1..Cardinality(selected) -> FeatureIds]
      BY <3>3
    <3> QED BY <3>2, <3>4
  <2>3. /\ DOMAIN build' = Fields /\ build' = [x \in Fields |-> build'[x]] /\ build'.pc = "process"
        /\ build'.todo = order /\ build'.sets = <<>>
    BY <2>1 DEF NoBuild
  <2>4. <<>> \in Seq(FeatureIds) /\ Len(<<>>) = 0
    OBVIOUS
  <2>5. FeatureTypeOK'
    BY <1>1, <2>0, <2>2, <2>3, <2>4 DEF FeatureTypeOK
  <2> QED BY <1>2, <2>0, <2>3, <2>4, <2>5 DEF CacheInv
<1>7. CASE ProcessFeatureID
  <2>1. /\ build.pc = "process" /\ build.todo # <<>> /\ torn' = torn
        /\ extracted' = (IF f \in OciFeatures /\ extracted[f] = "empty" THEN [extracted EXCEPT ![f] = "none"] ELSE extracted)
        /\ \E pc \in {"parse", "download"} : build' = [build EXCEPT !.pc = pc]
    BY <1>7 DEF ProcessFeatureID, BuildAt
  <2>2. /\ build'.pc \in {"parse", "download"} /\ build'.sets = build.sets /\ build'.todo = build.todo
        /\ DOMAIN build' = Fields /\ build' = [x \in Fields |-> build'[x]]
    BY <1>1, <2>1
  <2>3. /\ build'.pc = "parse" => (f \in LocalFeatures \/ extracted[f] \in {"partial", "whole"} \/ (f \in UrlFeatures /\ extracted[f] # "none"))
        /\ build'.pc = "download" => f \notin LocalFeatures
    <3> DEFINE cached == \/ f \in LocalFeatures
                         \/ f \in OciFeatures /\ extracted[f] \in {"partial", "whole"}
                         \/ f \in UrlFeatures /\ extracted[f] # "none" /\ ~build.force
    <3>1. build' = [build EXCEPT !.pc = IF cached THEN "parse" ELSE "download"]
      BY <1>7 DEF ProcessFeatureID
    <3>2. build'.pc = (IF cached THEN "parse" ELSE "download")
      BY <1>1, <3>1
    <3> QED BY <3>2
  <2>4. f \in FeatureIds
    BY <1>3, <2>1
  <2>5. extracted' \in [FeatureIds -> States] /\ \A g \in FeatureIds \ {f} : extracted'[g] = extracted[g]
    BY <1>1, <2>1, <2>4
  <2>6. extracted'[f] = extracted[f] \/ (extracted[f] = "empty" /\ extracted'[f] = "none" /\ f \in OciFeatures)
    BY <1>1, <2>1, <2>4
  <2>7. Feature' = f
    BY <2>2 DEF Feature
  <2>8. FeatureTypeOK'
    BY <1>1, <2>1, <2>2, <2>5 DEF FeatureTypeOK
  <2>9. \A g \in FeatureIds \ torn' : extracted'[g] \in {"none", "whole"}
    BY <1>2, <2>1, <2>4, <2>5, <2>6
  <2>10. \A g \in LocalFeatures : extracted'[g] = "whole"
    BY <1>2, <2>4, <2>5, <2>6 DEF FeatureIds
  <2>11. build'.pc = "parse" => extracted'[f] # "none"
    <3>1. f \in UrlFeatures => f \notin OciFeatures
      BY FeaturesAssumption
    <3>2. f \in LocalFeatures => extracted[f] = "whole"
      BY <1>2
    <3> QED BY <2>3, <2>6, <3>1, <3>2
  <2>12. \A i \in 1..Len(build.sets) : build.sets[i] \notin torn => extracted'[build.sets[i]] = "whole"
    BY <1>2, <1>4, <2>4, <2>5, <2>6
  <2> QED BY <2>1, <2>2, <2>3, <2>7, <2>8, <2>9, <2>10, <2>11, <2>12 DEF CacheInv
<1>8. CASE DownloadFeature
  <2>1. build.pc = "download" /\ extracted' = extracted /\ torn' = torn
    BY <1>8 DEF DownloadFeature, BuildAt
  <2>2. CASE build' = [build EXCEPT !.pc = "extract"]
    <3>1. /\ build'.pc = "extract" /\ build'.sets = build.sets /\ build'.todo = build.todo
          /\ DOMAIN build' = Fields /\ build' = [x \in Fields |-> build'[x]]
      BY <1>1, <2>2
    <3>2. Feature' = f
      BY <3>1 DEF Feature
    <3>3. FeatureTypeOK'
      BY <1>1, <2>1, <3>1 DEF FeatureTypeOK
    <3> QED BY <1>2, <2>1, <3>1, <3>2, <3>3 DEF CacheInv
  <2>3. CASE BuildFails
    BY <1>1, <1>2, <2>1, <2>3, FailedBuild
  <2> QED BY <1>8, <2>2, <2>3 DEF DownloadFeature
<1>9. CASE ExtractFeature
  <2>1. build.pc = "extract" /\ f \in FeatureIds /\ f \notin LocalFeatures
    BY <1>1, <1>2, <1>3, <1>9 DEF ExtractFeature, BuildAt
  <2>2. torn' = IF extracted'[f] = "whole" THEN torn \ {f} ELSE torn
    BY <1>9 DEF ExtractFeature
  <2>3. CASE /\ extracted[f] \in {"none", "empty"} /\ build' = build
             /\ \E s \in {"empty", "partial"} : extracted' = [extracted EXCEPT ![f] = s]
    <3>1. /\ extracted' \in [FeatureIds -> States] /\ extracted'[f] # "whole"
          /\ \A g \in FeatureIds \ {f} : extracted'[g] = extracted[g]
      BY <1>1, <2>1, <2>3
    <3>2. torn' = torn /\ Feature' = f
      BY <2>2, <2>3, <3>1 DEF Feature
    <3>3. FeatureTypeOK'
      BY <1>1, <2>1, <2>3, <3>1, <3>2 DEF FeatureTypeOK
    <3>4. \A i \in 1..Len(build.sets) : build.sets[i] \notin torn => extracted'[build.sets[i]] = "whole"
      BY <1>2, <1>4, <2>3, <3>1
    <3>5. \A g \in LocalFeatures : extracted'[g] = "whole"
      BY <1>2, <2>1, <3>1 DEF FeatureIds
    <3> QED BY <1>2, <2>1, <2>3, <3>1, <3>2, <3>3, <3>4, <3>5 DEF CacheInv
  <2>4. CASE /\ extracted' = [extracted EXCEPT ![f] = "whole"] /\ build' = [build EXCEPT !.pc = "parse"]
    <3>1. /\ extracted' \in [FeatureIds -> States] /\ extracted'[f] = "whole"
          /\ \A g \in FeatureIds \ {f} : extracted'[g] = extracted[g]
      BY <1>1, <2>1, <2>4
    <3>2. /\ build'.pc = "parse" /\ build'.sets = build.sets /\ build'.todo = build.todo
          /\ DOMAIN build' = Fields /\ build' = [x \in Fields |-> build'[x]]
      BY <1>1, <2>4
    <3>3. torn' = torn \ {f} /\ Feature' = f
      BY <2>2, <3>1, <3>2 DEF Feature
    <3>4. FeatureTypeOK'
      BY <1>1, <2>1, <3>1, <3>2, <3>3 DEF FeatureTypeOK
    <3>5. \A i \in 1..Len(build.sets) : build.sets[i] \notin torn' => extracted'[build.sets[i]] = "whole"
      BY <1>2, <1>4, <3>1, <3>3
    <3>6. \A g \in LocalFeatures : extracted'[g] = "whole"
      BY <1>2, <2>1, <3>1 DEF FeatureIds
    <3>7. \A g \in FeatureIds \ torn' : extracted'[g] \in {"none", "whole"}
      BY <1>2, <2>1, <3>1, <3>3
    <3> QED BY <3>1, <3>2, <3>3, <3>4, <3>5, <3>6, <3>7 DEF CacheInv
  <2> QED BY <1>9, <2>3, <2>4 DEF ExtractFeature
<1>10. CASE ExtractFails
  <2>1. build.pc = "extract" /\ f \in FeatureIds /\ f \notin LocalFeatures
    BY <1>1, <1>2, <1>3, <1>10 DEF ExtractFails, BuildAt
  <2>2. BuildFails /\ extracted' = [extracted EXCEPT ![f] = "none"] /\ torn' = torn \ {f}
    BY <1>10 DEF ExtractFails
  <2>3. /\ extracted' \in [FeatureIds -> States] /\ extracted'[f] = "none"
        /\ \A g \in FeatureIds \ {f} : extracted'[g] = extracted[g]
    BY <1>1, <2>1, <2>2
  <2>4. \A g \in FeatureIds \ torn' : extracted'[g] \in {"none", "whole"}
    BY <1>2, <2>1, <2>2, <2>3
  <2>5. \A g \in LocalFeatures : extracted'[g] = "whole"
    BY <1>2, <2>1, <2>3 DEF FeatureIds
  <2> QED BY <1>1, <2>2, <2>3, <2>4, <2>5, FailedBuild
<1>11. CASE ParseFeature
  <2>1. build.pc = "parse" /\ f \in FeatureIds /\ extracted' = extracted /\ torn' = torn
    BY <1>1, <1>3, <1>11 DEF ParseFeature, BuildAt
  <2>2. CASE BuildFails
    BY <1>1, <1>2, <2>1, <2>2, FailedBuild
  <2>3. CASE build' = [build EXCEPT !.pc = "process", !.todo = Tail(@), !.sets = Append(@, f)]
    <3>1. /\ build'.pc = "process" /\ build'.sets = Append(build.sets, f) /\ build'.todo = Tail(build.todo)
          /\ DOMAIN build' = Fields /\ build' = [x \in Fields |-> build'[x]]
      BY <1>1, <2>3
    <3>2. Tail(build.todo) \in Seq(FeatureIds)
      BY <1>1, <2>1
    <3>3. /\ Append(build.sets, f) \in Seq(FeatureIds) /\ Len(Append(build.sets, f)) = Len(build.sets) + 1
          /\ Append(build.sets, f)[Len(build.sets) + 1] = f
          /\ \A i \in 1..Len(build.sets) : Append(build.sets, f)[i] = build.sets[i]
      BY <1>1, <2>1
    <3>4. FeatureTypeOK'
      BY <1>1, <2>1, <3>1, <3>2, <3>3 DEF FeatureTypeOK
    <3>5. f \notin torn => extracted[f] = "whole"
      BY <1>2, <2>1
    <3>6. \A i \in 1..Len(build'.sets) : build'.sets[i] \notin torn' => extracted'[build'.sets[i]] = "whole"
      <4>1. Len(build.sets) \in Nat
        BY <1>1
      <4>2. ASSUME NEW i \in 1..Len(build.sets) + 1 PROVE i \in 1..Len(build.sets) \/ i = Len(build.sets) + 1
        BY <4>1
      <4> QED BY <1>2, <2>1, <3>1, <3>3, <3>5, <4>2
    <3> QED BY <1>2, <2>1, <3>1, <3>4, <3>6 DEF CacheInv
  <2> QED BY <1>11, <2>2, <2>3 DEF ParseFeature
<1>12. CASE ComputeOrder
  <2>1. build.pc = "process" /\ extracted' = extracted /\ torn' = torn
    BY <1>12 DEF ComputeOrder, BuildAt
  <2>2. \E pc \in {"cyclic", "copy"} : \E after, override, todo :
            build' = [build EXCEPT !.pc = pc, !.after = after, !.override = override, !.todo = todo]
    BY <1>12 DEF ComputeOrder
  <2>3. /\ build'.pc \in {"cyclic", "copy"} /\ build'.sets = build.sets
        /\ DOMAIN build' = Fields /\ build' = [x \in Fields |-> build'[x]]
    BY <1>1, <2>2
  <2>4. FeatureTypeOK'
    BY <1>1, <2>1, <2>3 DEF FeatureTypeOK
  <2> QED BY <1>2, <2>1, <2>3, <2>4 DEF CacheInv
<1>13. CASE CopyFeatures
  <2>1. build.pc = "copy" /\ extracted' = extracted /\ torn' = torn
    BY <1>13 DEF CopyFeatures, BuildAt
  <2>2. CASE build' = [build EXCEPT !.pc = "built"]
    <3>1. /\ build'.pc = "built" /\ build'.sets = build.sets
          /\ DOMAIN build' = Fields /\ build' = [x \in Fields |-> build'[x]]
      BY <1>1, <2>2
    <3>2. FeatureTypeOK'
      BY <1>1, <2>1, <3>1 DEF FeatureTypeOK
    <3> QED BY <1>2, <2>1, <3>1, <3>2 DEF CacheInv
  <2>3. CASE BuildFails
    BY <1>1, <1>2, <2>1, <2>3, FailedBuild
  <2> QED BY <1>13, <2>2, <2>3 DEF CopyFeatures
<1>14. CASE KillBuild
  <2>1. /\ BuildFails /\ extracted' = extracted
        /\ torn' = IF build.pc = "extract" /\ extracted[f] # "none" THEN torn \cup {f} ELSE torn
    BY <1>14 DEF KillBuild, BuildAt
  <2>2. torn' \subseteq FeatureIds
    BY <1>1, <1>3, <2>1
  <2>3. \A g \in FeatureIds \ torn' : extracted'[g] \in {"none", "whole"}
    BY <1>2, <2>1
  <2> QED BY <1>1, <1>2, <2>1, <2>2, <2>3, FailedBuild
<1> QED BY <1>5, <1>6, <1>7, <1>8, <1>9, <1>10, <1>11, <1>12, <1>13, <1>14 DEF FeaturesNext

\* A build that succeeds has complete features, for any features, any number of builds
\* and any failures (features.go): a folder of the cache, which is taken as it is, is
\* incomplete only after an extraction that was killed.
THEOREM FeaturesWholeHolds == FeaturesSpec => []FeaturesWhole
<1>1. CacheInv => FeaturesWhole
  <2> SUFFICES ASSUME CacheInv, NEW f \in ToSet(build.sets), f \notin torn PROVE extracted[f] = "whole"
    BY DEF FeaturesWhole
  <2>1. DOMAIN build.sets = 1..Len(build.sets)
    BY DEF CacheInv, FeatureTypeOK
  <2> QED BY <2>1 DEF CacheInv, ToSet
<1> QED BY <1>1, CacheInit, CacheStep, PTL DEF FeaturesSpec

-----------------------------------------------------------------------------
(* The options of a provider *)

\* The names of the sub options: none is an option of provider.yaml.
SubNames == UNION {DOMAIN SubOptions[v] : v \in DOMAIN SubOptions}

IsValue(v) ==
    /\ DOMAIN v = {"value", "user", "fresh", "children"}
    /\ v.user \in BOOLEAN /\ v.children \subseteq SubNames

IsValues(vals) ==
    /\ vals = [o \in DOMAIN vals |-> vals[o]]
    /\ \A o \in DOMAIN vals : IsValue(vals[o])

\* The second part of SavedIsConsistent, of any values.
Consistent(vals) ==
    \A o \in DOMAIN vals \cap DOMAIN Static :
        Determined(o, vals) => vals[o].value = ResolveDefaultValue(Static[o], o, vals)

\* The options of provider.yaml that an option of provider.yaml names.
StaticParents(o) == {p \in DOMAIN Static \ {o} : \E i \in DOMAIN Static[o].deps : Static[o].deps[i] = p}

\* A sub option has the name of no option of provider.yaml.
LEMMA SubNamesAreNew == SubNames \cap DOMAIN Static = {}
  BY OptionsResolverAssumption DEF SubNames

\* A result depends on the values of the options it names, and on nothing else.
LEMMA SameInputs ==
    ASSUME NEW d, NEW o, NEW f, NEW g,
           \A i \in DOMAIN d.deps : ValueOf(f, d.deps[i]) = ValueOf(g, d.deps[i])
    PROVE  ResolveDefaultValue(d, o, f) = ResolveDefaultValue(d, o, g)
<1>1. [i \in DOMAIN d.deps |-> ValueOf(f, d.deps[i])] = [i \in DOMAIN d.deps |-> ValueOf(g, d.deps[i])]
  OBVIOUS
<1> QED BY <1>1 DEF ResolveDefaultValue

\* Values that are removed make no other inconsistent: what hung on them hangs on an
\* empty value.
LEMMA FewerConsistent ==
    ASSUME NEW f, NEW g, Consistent(f), DOMAIN g \subseteq DOMAIN f,
           \A o \in DOMAIN g : g[o].value = f[o].value /\ g[o].user = f[o].user
    PROVE  Consistent(g)
<1> SUFFICES ASSUME NEW o \in DOMAIN g \cap DOMAIN Static, Determined(o, g)
             PROVE  g[o].value = ResolveDefaultValue(Static[o], o, g)
  BY DEF Consistent
<1>1. \A i \in DOMAIN Static[o].deps : ValueOf(g, Static[o].deps[i]) = ValueOf(f, Static[o].deps[i])
  BY DEF Determined, ValueOf
<1>2. Determined(o, f)
  BY <1>1 DEF Determined
<1>3. f[o].value = ResolveDefaultValue(Static[o], o, f)
  BY <1>2 DEF Consistent
<1>4. ResolveDefaultValue(Static[o], o, f) = ResolveDefaultValue(Static[o], o, g)
  BY <1>1, SameInputs
<1> QED BY <1>3, <1>4

\* A new value of o, with the values of its children removed if it is another.
LEMMA PutConsistent ==
    ASSUME NEW o, NEW vals, NEW v, Consistent(vals), IsValues(vals), IsValue(v),
           NEW gone,
           ValueOf(vals, o) # v.value =>
               \A c \in DOMAIN Static \cap DOMAIN vals :
                   o \in StaticParents(c) /\ ~vals[c].user => c \in gone,
           o \in DOMAIN Static /\ Static[o].source # "none" /\ ~v.user =>
               v.value = ResolveDefaultValue(Static[o], o, vals)
    PROVE  Consistent(Drop(Put(vals, o, v), gone))
<1> DEFINE new == Drop(Put(vals, o, v), gone)
<1>1. /\ DOMAIN new = (DOMAIN vals \cup {o}) \ gone /\ (o \in DOMAIN new => new[o] = v)
      /\ \A x \in DOMAIN new \ {o} : x \in DOMAIN vals /\ new[x] = vals[x]
  BY DEF Drop, Put
<1> HIDE DEF new
<1> SUFFICES ASSUME NEW x \in DOMAIN new \cap DOMAIN Static, Determined(x, new)
             PROVE  new[x].value = ResolveDefaultValue(Static[x], x, new)
  BY DEF Consistent, new
<1> DEFINE d == Static[x]
<1>2. \A i \in DOMAIN d.deps :
         /\ d.deps[i] \in DOMAIN Static \ {x} /\ d.deps[i] \in DOMAIN new
         /\ ValueOf(new, d.deps[i]) = new[d.deps[i]].value /\ new[d.deps[i]].value # Empty
  BY DEF Determined, ValueOf
<1>3. d.source # "none" /\ ~d.local /\ ~new[x].user
  BY DEF Determined
<1>4. CASE x = o
  <2>1. \A i \in DOMAIN d.deps : ValueOf(new, d.deps[i]) = ValueOf(vals, d.deps[i])
    BY <1>1, <1>2, <1>4 DEF ValueOf
  <2>2. ResolveDefaultValue(d, o, new) = ResolveDefaultValue(d, o, vals)
    BY <2>1, SameInputs
  <2> QED BY <1>1, <1>3, <1>4, <2>2
<1>5. CASE x # o
  <2>1. new[x] = vals[x] /\ x \in DOMAIN vals
    BY <1>1, <1>5
  <2>2. ASSUME NEW i \in DOMAIN d.deps PROVE ValueOf(new, d.deps[i]) = ValueOf(vals, d.deps[i])
    <3>1. CASE d.deps[i] # o
      BY <1>1, <1>2, <3>1 DEF ValueOf
    <3>2. CASE d.deps[i] = o
      <4>1. o \in StaticParents(x)
        BY <1>2, <1>5, <3>2 DEF StaticParents
      <4>2. x \notin gone
        BY <1>1
      <4>3. ValueOf(vals, o) = v.value
        BY <1>3, <2>1, <4>1, <4>2
      <4> QED BY <1>1, <1>2, <3>2, <4>3
    <3> QED BY <3>1, <3>2
  <2>3. Determined(x, vals)
    BY <1>2, <1>3, <2>1, <2>2 DEF Determined
  <2>4. vals[x].value = ResolveDefaultValue(d, x, vals)
    BY <2>1, <2>3 DEF Consistent
  <2>5. ResolveDefaultValue(d, x, new) = ResolveDefaultValue(d, x, vals)
    BY <2>2, SameInputs
  <2> QED BY <2>1, <2>4, <2>5
<1> QED BY <1>4, <1>5

\* The sub options leave the graph with what depends on them: no option of provider.yaml.
LEMMA SubGraphIsNew ==
    ASSUME NEW parents, NEW S, S \cap DOMAIN Static = {},
           \A o \in DOMAIN Static \cap DOMAIN parents : parents[o] \subseteq DOMAIN Static
    PROVE  SubGraph(parents, S) \cap DOMAIN Static = {}
<1> DEFINE all == S \cup DOMAIN parents
           T == all \ DOMAIN Static
<1>1. T \in SUBSET all /\ S \subseteq T
  OBVIOUS
<1>2. \A o \in DOMAIN parents : parents[o] \cap T # {} => o \in T
  OBVIOUS
<1>3. SubGraph(parents, S) \subseteq T
  BY <1>1, <1>2 DEF SubGraph
<1> QED BY <1>3

-----------------------------------------------------------------------------
SessionFields ==
    {"active", "kind", "given", "skip", "subs", "asked", "vals", "defs", "done", "parents"}
IsSession(s) ==
    DOMAIN s = SessionFields /\ s.active = TRUE /\ s.skip \in BOOLEAN /\ s.kind \in {"provider", "workspace"}

\* The options of provider.yaml stay in the graph, below those that they name.
GraphOK(s) ==
    /\ DOMAIN s.parents = DOMAIN s.defs /\ DOMAIN Static \subseteq DOMAIN s.defs
    /\ \A o \in DOMAIN Static : s.defs[o] = Static[o] /\ s.parents[o] = StaticParents(o)

\* What is resolved is resolved after its parents, and has a value.
DoneOK(s) ==
    \A o \in DOMAIN Static \cap s.done :
        StaticParents(o) \subseteq s.done /\ (~Static[o].local => o \in DOMAIN s.vals)

NoCycle == \A S \in SUBSET DOMAIN Static : (\A o \in S : StaticParents(o) \cap S # {}) => S = {}

\* A resolution for the provider that is not a dry run.
ToBeSaved(s) == s.kind = "provider" /\ ~s.skip

SessionOK(s) == IsValues(s.vals) /\ Consistent(s.vals) /\ GraphOK(s) /\ DoneOK(s) /\ NoCycle

\* What resolveOption leaves of the values.
LEMMA OptionResolved ==
    ASSUME IsSession(session), ToBeSaved(session), SessionOK(session), NEW o, Ready(o), NEW answer
    PROVE  LET r == resolveOption(o, answer)
           IN  /\ r.prune = FALSE /\ IsValues(r.vals) /\ Consistent(r.vals)
               /\ \A x \in DOMAIN Static \cap (session.done \cup {o}) :
                     ~Static[x].local => x \in DOMAIN r.vals
<1> DEFINE d == session.defs[o]
           known == o \in DOMAIN session.given
           vals == IF o \in DOMAIN session.vals /\ ~Valid(d, session.vals[o].value)
                   THEN Drop(session.vals, {o}) ELSE session.vals
           new == IF known THEN [value |-> session.given[o], user |-> TRUE, fresh |-> FALSE,
                                 children |-> Children(o, vals)]
                  ELSE Computed(o, d, vals)
           missing == ~known /\ d.required /\ new.value = Empty
           put == IF missing THEN [value |-> answer, user |-> TRUE, fresh |-> FALSE, children |-> {}] ELSE new
           r == resolveOption(o, answer)
<1>1. /\ IsValues(session.vals) /\ Consistent(session.vals) /\ session.skip = FALSE
      /\ session.kind = "provider" /\ o \notin session.done
      /\ o \in DOMAIN Static => d = Static[o]
      /\ \A x \in DOMAIN Static : session.parents[x] = StaticParents(x) /\ x \in DOMAIN session.parents
  BY DEF SessionOK, ToBeSaved, Ready, GraphOK, IsSession
<1>2. /\ IsValues(vals) /\ Consistent(vals)
      /\ DOMAIN vals \subseteq DOMAIN session.vals /\ DOMAIN session.vals \ {o} \subseteq DOMAIN vals
  <2>1. CASE o \in DOMAIN session.vals /\ ~Valid(d, session.vals[o].value)
    <3>1. vals = Drop(session.vals, {o})
      BY <2>1
    <3> HIDE DEF vals
    <3>2. DOMAIN vals = DOMAIN session.vals \ {o} /\ \A x \in DOMAIN vals : vals[x] = session.vals[x]
      BY <3>1 DEF Drop
    <3>3. vals = [x \in DOMAIN vals |-> vals[x]]
      BY <3>1 DEF Drop
    <3>4. Consistent(vals)
      BY <1>1, <3>2, FewerConsistent
    <3> QED BY <1>1, <3>2, <3>3, <3>4 DEF IsValues
  <2>2. CASE ~(o \in DOMAIN session.vals /\ ~Valid(d, session.vals[o].value))
    BY <1>1, <2>2
  <2> QED BY <2>1, <2>2
<1>3. r = IF ~known /\ (Settled(o, d, vals) \/ Skipped(d))
          THEN [vals |-> vals, prune |-> FALSE, asked |-> FALSE]
          ELSE IF missing /\ session.skip
          THEN [vals |-> Drop(vals, {o}), prune |-> TRUE, asked |-> FALSE]
          ELSE [prune |-> FALSE, asked |-> missing, vals |-> RecomputeChildren(o, vals, Put(vals, o, put))]
  BY DEF resolveOption
<1>4. \A x \in DOMAIN Static \cap session.done : ~Static[x].local => x \in DOMAIN vals
  BY <1>1, <1>2 DEF SessionOK, DoneOK
<1>5. IsValue(put)
  <2>1. Children(o, vals) \subseteq SubNames
    BY <1>2 DEF Children, IsValues, IsValue
  <2> HIDE DEF vals
  <2> QED BY <2>1 DEF IsValue, Computed
<1>6. o \in DOMAIN Static /\ Static[o].source # "none" /\ ~put.user =>
          put.value = ResolveDefaultValue(Static[o], o, vals)
  <2>1. ASSUME ~put.user PROVE put = Computed(o, d, vals)
    BY <2>1
  <2> HIDE DEF put, vals
  <2> QED BY <1>1, <2>1 DEF Computed
<1> HIDE DEF vals, put, missing, r
<1>7. CASE ~known /\ (Settled(o, d, vals) \/ Skipped(d))
  <2>1. r.vals = vals /\ r.prune = FALSE
    BY <1>3, <1>7
  <2>2. o \in DOMAIN Static /\ ~Static[o].local => o \in DOMAIN vals
    BY <1>1, <1>7 DEF Settled, Skipped
  <2> QED BY <1>2, <1>4, <2>1, <2>2 DEF r
<1>8. CASE ~(~known /\ (Settled(o, d, vals) \/ Skipped(d)))
  <2> DEFINE all == Put(vals, o, put)
             gone == IF ValueOf(vals, o) = ValueOf(all, o) THEN {}
                     ELSE {c \in DOMAIN session.parents \cap DOMAIN all :
                              o \in session.parents[c] /\ ~all[c].user}
             left == Drop(all, gone)
  <2>1. /\ DOMAIN all = DOMAIN vals \cup {o} /\ all[o] = put /\ ValueOf(all, o) = put.value
        /\ \A x \in DOMAIN vals \ {o} : all[x] = vals[x]
        /\ all = [x \in DOMAIN all |-> all[x]]
    BY DEF Put, ValueOf
  <2> HIDE DEF all
  <2>2. /\ DOMAIN left = DOMAIN all \ gone /\ left = [x \in DOMAIN left |-> left[x]]
        /\ \A x \in DOMAIN left : left[x] = all[x]
    BY DEF Drop
  <2>3. r.prune = FALSE /\ r.vals = RecomputeChildren(o, vals, all)
    BY <1>1, <1>3, <1>8 DEF all
  <2>4. RecomputeChildren(o, vals, all) = left
    <3>1. CASE ValueOf(vals, o) = ValueOf(all, o)
      <4>1. gone = {}
        BY <3>1
      <4>2. left = all
        <5>1. DOMAIN left = DOMAIN all
          BY <2>2, <4>1
        <5> QED BY <2>1, <2>2, <5>1
      <4> QED BY <3>1, <4>2 DEF RecomputeChildren
    <3>2. CASE ValueOf(vals, o) # ValueOf(all, o)
      BY <3>2 DEF RecomputeChildren
    <3> QED BY <3>1, <3>2
  <2>5. \A c \in gone : c \in DOMAIN all /\ o \in session.parents[c]
    OBVIOUS
  <2>6. \A c \in DOMAIN Static : c \in gone => o \in StaticParents(c)
    BY <1>1, <2>5
  <2>7. ValueOf(vals, o) # put.value =>
           \A c \in DOMAIN Static \cap DOMAIN vals : o \in StaticParents(c) /\ ~vals[c].user => c \in gone
    <3> SUFFICES ASSUME ValueOf(vals, o) # put.value,
                        NEW c \in DOMAIN Static \cap DOMAIN vals, o \in StaticParents(c), ~vals[c].user
                 PROVE  c \in gone
      OBVIOUS
    <3>1. c # o
      BY DEF StaticParents
    <3> QED BY <1>1, <2>1, <3>1
  <2> HIDE DEF gone, left
  <2>8. Consistent(left)
    BY <1>2, <1>5, <1>6, <2>7, PutConsistent DEF left, all
  <2>9. IsValues(left)
    BY <1>2, <1>5, <2>1, <2>2 DEF IsValues
  <2>10. ASSUME NEW x \in DOMAIN Static \cap (session.done \cup {o}), ~Static[x].local
         PROVE  x \in DOMAIN left
    <3>1. x \in DOMAIN all
      BY <1>4, <2>1, <2>10
    <3>2. x \notin gone
      <4>1. CASE x = o
        BY <2>6, <4>1 DEF StaticParents
      <4>2. CASE x \in session.done
        <5>1. StaticParents(x) \subseteq session.done
          BY <4>2 DEF SessionOK, DoneOK
        <5> QED BY <1>1, <2>6, <5>1
      <4> QED BY <4>1, <4>2
    <3> QED BY <2>2, <3>1, <3>2
  <2> QED BY <2>3, <2>4, <2>8, <2>9, <2>10 DEF r
<1> QED BY <1>7, <1>8

\* The sub options of an option come and go, and nothing else changes.
LEMMA SubOptionsRefreshed ==
    ASSUME NEW s, IsSession(s), SessionOK(s), NEW o
    PROVE  LET t == refreshSubOptions(s, o)
           IN  IsSession(t) /\ SessionOK(t) /\ t.kind = s.kind /\ t.skip = s.skip
<1> DEFINE listed == IF s.vals[o].value \in DOMAIN SubOptions THEN SubOptions[s.vals[o].value] ELSE NoValues
           old == [c \in Children(o, s.vals) \cap DOMAIN s.defs |-> s.defs[c]]
           changed == Changed(old, listed, s.vals)
           gone == SubGraph(s.parents, changed \cap DOMAIN s.defs)
           vals == [Drop(s.vals, changed) EXCEPT ![o].children = DOMAIN listed]
           defs == Over(Drop(s.defs, gone), listed)
           stay == [c \in DOMAIN s.parents \ gone |-> s.parents[c] \ gone]
           parents == AddDependencies(stay, defs, vals, DOMAIN listed)
           t == refreshSubOptions(s, o)
<1>1. /\ IsValues(s.vals) /\ Consistent(s.vals) /\ NoCycle
      /\ DOMAIN s.parents = DOMAIN s.defs /\ DOMAIN Static \subseteq DOMAIN s.defs
      /\ \A x \in DOMAIN Static : s.defs[x] = Static[x] /\ s.parents[x] = StaticParents(x)
      /\ DoneOK(s)
  BY DEF SessionOK, GraphOK
<1>2. /\ IsSession(t) /\ t.kind = s.kind /\ t.skip = s.skip
      /\ t.vals = vals /\ t.defs = defs /\ t.parents = parents /\ t.done = s.done \ gone
  <2> HIDE DEF vals, defs, parents, gone
  <2> DEFINE given == Drop(s.given, {c \in DOMAIN listed \cap DOMAIN s.given : ~Valid(listed[c], s.given[c])})
             done == s.done \ gone
  <2>1. t = [s EXCEPT !.vals = vals, !.defs = defs, !.done = done, !.given = given, !.parents = parents]
    BY DEF refreshSubOptions, vals, defs, parents, gone
  <2> HIDE DEF t, given, done
  <2>3. /\ t.kind = s.kind /\ t.skip = s.skip /\ t.vals = vals /\ t.defs = defs
        /\ t.parents = parents /\ t.done = done /\ IsSession(t)
    BY <2>1 DEF IsSession, SessionFields
  <2> QED BY <2>3 DEF done
<1>3. DOMAIN listed \subseteq SubNames
  BY DEF SubNames, NoValues
<1>4. changed \subseteq SubNames
  <2>1. Children(o, s.vals) \subseteq SubNames
    BY <1>1 DEF Children, IsValues, IsValue
  <2>2. DOMAIN old \subseteq SubNames
    BY <2>1
  <2> HIDE DEF old, listed
  <2> QED BY <1>3, <2>2 DEF Changed
<1>5. gone \cap DOMAIN Static = {}
  <2> HIDE DEF changed
  <2>1. \A x \in DOMAIN Static \cap DOMAIN s.parents : s.parents[x] \subseteq DOMAIN Static
    BY <1>1 DEF StaticParents
  <2> QED BY <1>4, <2>1, SubNamesAreNew, SubGraphIsNew
<1> HIDE DEF listed, changed, gone, t
<1>6. /\ DOMAIN vals = DOMAIN s.vals \ changed
      /\ vals = [x \in DOMAIN vals |-> vals[x]]
      /\ \A x \in DOMAIN vals : vals[x] = IF x = o THEN [s.vals[x] EXCEPT !.children = DOMAIN listed] ELSE s.vals[x]
  BY DEF Drop
<1> HIDE DEF vals
<1>7. ASSUME NEW x \in DOMAIN vals
      PROVE  IsValue(vals[x]) /\ vals[x].value = s.vals[x].value /\ vals[x].user = s.vals[x].user
  <2>1. IsValue(s.vals[x])
    BY <1>1, <1>6 DEF IsValues
  <2>2. IsValue([s.vals[x] EXCEPT !.children = DOMAIN listed])
    BY <1>3, <2>1 DEF IsValue
  <2> QED BY <1>6, <2>1, <2>2 DEF IsValue
<1>8. IsValues(vals) /\ Consistent(vals)
  BY <1>1, <1>6, <1>7, FewerConsistent DEF IsValues
<1>9. /\ DOMAIN defs = (DOMAIN s.defs \ gone) \cup DOMAIN listed
      /\ \A x \in DOMAIN Static : x \in DOMAIN defs /\ defs[x] = Static[x]
  <2>1. DOMAIN defs = (DOMAIN s.defs \ gone) \cup DOMAIN listed
    BY DEF Over, Drop
  <2>2. \A x \in DOMAIN Static : x \notin DOMAIN listed /\ x \notin gone
    BY <1>3, <1>5, SubNamesAreNew
  <2> QED BY <1>1, <2>1, <2>2 DEF Over, Drop
<1> HIDE DEF defs
<1>10. DOMAIN parents = DOMAIN defs
  BY DEF AddDependencies
<1>11. ASSUME NEW x \in DOMAIN Static PROVE parents[x] = StaticParents(x)
  <2>1. x \in DOMAIN defs /\ x \notin SubNames /\ x \notin gone /\ x \in DOMAIN s.parents
    BY <1>1, <1>5, <1>9, SubNamesAreNew
  <2>2. x \in DOMAIN stay /\ stay[x] = StaticParents(x)
    BY <1>1, <1>5, <2>1 DEF StaticParents
  <2>3. x \notin DOMAIN listed
    BY <1>3, <2>1
  <2>4. \A p \in DOMAIN vals : x \notin vals[p].children
    BY <1>7, <2>1 DEF IsValue
  <2> HIDE DEF stay
  <2> QED BY <2>1, <2>2, <2>3, <2>4 DEF AddDependencies
<1> HIDE DEF parents
<1>12. DoneOK(t)
  <2> SUFFICES ASSUME NEW x \in DOMAIN Static \cap t.done
               PROVE  StaticParents(x) \subseteq t.done /\ (~Static[x].local => x \in DOMAIN t.vals)
    BY DEF DoneOK
  <2>1. x \in s.done /\ StaticParents(x) \subseteq s.done /\ (~Static[x].local => x \in DOMAIN s.vals)
    BY <1>1, <1>2 DEF DoneOK
  <2>2. x \notin changed /\ StaticParents(x) \cap gone = {}
    BY <1>4, <1>5, SubNamesAreNew DEF StaticParents
  <2> QED BY <1>2, <1>6, <2>1, <2>2
<1>13. GraphOK(t)
  BY <1>2, <1>9, <1>10, <1>11 DEF GraphOK
<1> QED BY <1>1, <1>2, <1>8, <1>12, <1>13 DEF SessionOK, t

\* ... in a session of any kind.
LEMMA RefreshedSession ==
    ASSUME NEW s, IsSession(s), NEW o
    PROVE  LET t == refreshSubOptions(s, o)
           IN  IsSession(t) /\ t.kind = s.kind /\ t.skip = s.skip
<1> DEFINE listed == IF s.vals[o].value \in DOMAIN SubOptions THEN SubOptions[s.vals[o].value] ELSE NoValues
           old == [c \in Children(o, s.vals) \cap DOMAIN s.defs |-> s.defs[c]]
           changed == Changed(old, listed, s.vals)
           gone == SubGraph(s.parents, changed \cap DOMAIN s.defs)
           vals == [Drop(s.vals, changed) EXCEPT ![o].children = DOMAIN listed]
           defs == Over(Drop(s.defs, gone), listed)
           stay == [c \in DOMAIN s.parents \ gone |-> s.parents[c] \ gone]
           parents == AddDependencies(stay, defs, vals, DOMAIN listed)
           given == Drop(s.given, {c \in DOMAIN listed \cap DOMAIN s.given : ~Valid(listed[c], s.given[c])})
           done == s.done \ gone
           t == refreshSubOptions(s, o)
<1>1. t = [s EXCEPT !.vals = vals, !.defs = defs, !.done = done, !.given = given, !.parents = parents]
  BY DEF refreshSubOptions
<1> HIDE DEF t, vals, defs, done, given, parents
<1>2. IsSession(t) /\ t.kind = s.kind /\ t.skip = s.skip
  BY <1>1 DEF IsSession, SessionFields
<1> QED BY <1>2 DEF t

\* A round of resolveOptions.
LEMMA RoundOK ==
    ASSUME IsSession(session), NEW o, NEW answer, ResolveNext(o, answer)
    PROVE  /\ IsSession(session') /\ session'.kind = session.kind /\ session'.skip = session.skip
           /\ ToBeSaved(session) /\ SessionOK(session) => SessionOK(session')
<1> DEFINE r == resolveOption(o, answer)
           After(pruned) == [session EXCEPT !.vals = r.vals, !.done = @ \cup {o},
                                           !.asked = IF r.asked THEN @ \cup {o} ELSE @,
                                           !.defs = Drop(@, pruned), !.parents = Drop(@, pruned)]
<1>0. PICK pruned \in IF r.prune THEN Pruned(o) ELSE {{}} :
          session' = After(pruned) \/ session' = refreshSubOptions(After(pruned), o)
  BY DEF ResolveNext
<1> DEFINE asked == IF r.asked THEN session.asked \cup {o} ELSE session.asked
           done == session.done \cup {o}
           defs == Drop(session.defs, pruned)
           parents == Drop(session.parents, pruned)
           s == After(pruned)
<1>1. session' = s \/ session' = refreshSubOptions(s, o)
  BY <1>0
<1>8. ~r.prune => pruned = {}
  BY <1>0
<1>2. Ready(o)
  BY DEF ResolveNext
<1>3. s = [session EXCEPT !.vals = r.vals, !.done = done, !.asked = asked, !.defs = defs, !.parents = parents]
  OBVIOUS
<1> HIDE DEF s, r, defs, parents, asked, done
<1>4. /\ IsSession(s) /\ s.kind = session.kind /\ s.skip = session.skip
      /\ s.vals = r.vals /\ s.done = done /\ s.defs = defs /\ s.parents = parents
  BY <1>3 DEF IsSession, SessionFields
<1>5. ASSUME ToBeSaved(session), SessionOK(session) PROVE SessionOK(s)
  <2>1. /\ r.prune = FALSE /\ IsValues(r.vals) /\ Consistent(r.vals)
        /\ \A x \in DOMAIN Static \cap (session.done \cup {o}) :
              ~Static[x].local => x \in DOMAIN r.vals
    BY <1>2, <1>5, OptionResolved DEF r
  <2>2. /\ DOMAIN session.parents = DOMAIN session.defs /\ DOMAIN Static \subseteq DOMAIN session.defs
        /\ \A x \in DOMAIN Static : session.defs[x] = Static[x] /\ session.parents[x] = StaticParents(x)
        /\ DoneOK(session) /\ NoCycle
    BY <1>5 DEF SessionOK, GraphOK
  <2>3. /\ DOMAIN defs = DOMAIN session.defs /\ \A x \in DOMAIN defs : defs[x] = session.defs[x]
        /\ DOMAIN parents = DOMAIN session.parents
        /\ \A x \in DOMAIN parents : parents[x] = session.parents[x]
    BY <1>8, <2>1 DEF defs, parents, Drop
  <2>4. GraphOK(s)
    BY <1>4, <2>2, <2>3 DEF GraphOK
  <2>5. ASSUME NEW x \in DOMAIN Static \cap done
        PROVE  StaticParents(x) \subseteq done
    <3>1. CASE x = o
      <4>1. session.parents[o] \cap DOMAIN session.defs \subseteq session.done
        BY <1>2 DEF Ready
      <4> QED BY <2>2, <3>1, <4>1 DEF StaticParents, done
    <3>2. CASE x # o
      BY <2>2, <3>2 DEF DoneOK, done
    <3> QED BY <3>1, <3>2
  <2>6. DoneOK(s)
    BY <1>4, <2>1, <2>5 DEF DoneOK, done
  <2> QED BY <1>4, <2>1, <2>2, <2>4, <2>6 DEF SessionOK
<1>6. CASE session' = s
  BY <1>4, <1>5, <1>6
<1>7. CASE session' = refreshSubOptions(s, o)
  <2>1. IsSession(session') /\ session'.kind = s.kind /\ session'.skip = s.skip
    BY <1>4, <1>7, RefreshedSession
  <2>2. SessionOK(s) => SessionOK(session')
    BY <1>4, <1>7, SubOptionsRefreshed
  <2> QED BY <1>4, <1>5, <2>1, <2>2
<1> QED BY <1>1, <1>6, <1>7

-----------------------------------------------------------------------------
SavedOK == DOMAIN saved = {"provider", "workspace", "dynamic"} /\ IsValues(saved.provider) /\ Consistent(saved.provider)

ResolverInv ==
    /\ SavedOK /\ SavedIsComplete
    /\ session = [active |-> FALSE] \/ IsSession(session)
    /\ session.active /\ ToBeSaved(session) => SessionOK(session)

\* Values are none when no option has one.
LEMMA NoValuesIs ==
    ASSUME NEW f, IsValues(f)
    PROVE  f # NoValues <=> DOMAIN f # {}
  BY DEF IsValues, NoValues

\* A provider that was never used has no values.
LEMMA ResolverInitOK == ResolverInit => ResolverInv
<1> SUFFICES ASSUME ResolverInit PROVE ResolverInv
  OBVIOUS
<1>1. /\ DOMAIN saved = {"provider", "workspace", "dynamic"} /\ saved.provider = NoValues
      /\ session = [active |-> FALSE] /\ session.active = FALSE
  BY DEF ResolverInit
<1>2. IsValues(NoValues) /\ Consistent(NoValues)
  BY DEF IsValues, Consistent, NoValues
<1> QED BY <1>1, <1>2 DEF ResolverInv, SavedOK, SavedIsComplete

\* A resolution for the provider begins with what is saved and with the graph of provider.yaml.
LEMMA Started ==
    ASSUME ResolverInv, NEW given, NEW reconfigure, NEW dry \in BOOLEAN, NEW subs,
           SetOptions(given, reconfigure, dry, subs)
    PROVE  IsSession(session') /\ SessionOK(session')
<1> DEFINE parents == AddDependencies(NoValues, Static, saved.provider, DOMAIN Static)
<1>1. PICK g : session' = [active |-> TRUE, kind |-> "provider", given |-> g, skip |-> dry, subs |-> subs,
                           asked |-> {}, vals |-> saved.provider, defs |-> Static, done |-> {},
                           parents |-> parents]
  BY DEF SetOptions, Resolve
<1>2. Accepted(parents, Static)
  BY DEF SetOptions, Resolve
<1>3. DOMAIN parents = DOMAIN Static
  BY DEF AddDependencies
<1>4. ASSUME NEW o \in DOMAIN Static PROVE parents[o] = StaticParents(o)
  <2>1. \A p \in DOMAIN saved.provider : o \notin saved.provider[p].children
    BY SubNamesAreNew DEF ResolverInv, SavedOK, IsValues, IsValue
  <2>2. DOMAIN NoValues = {}
    BY DEF NoValues
  <2> QED BY <2>1, <2>2 DEF AddDependencies, StaticParents
<1> HIDE DEF parents
<1>5. NoCycle
  BY <1>2, <1>3, <1>4 DEF Accepted, NoCycle
<1>6. IsSession(session')
  BY <1>1 DEF IsSession, SessionFields
<1>7. GraphOK(session') /\ DoneOK(session')
  BY <1>1, <1>3, <1>4 DEF GraphOK, DoneOK
<1>8. IsValues(session'.vals) /\ Consistent(session'.vals)
  BY <1>1 DEF ResolverInv, SavedOK
<1> QED BY <1>5, <1>6, <1>7, <1>8 DEF SessionOK

\* A session that ends has resolved all options of provider.yaml.
LEMMA AllDone ==
    ASSUME SessionOK(session), ~\E o \in DOMAIN session.defs : Ready(o)
    PROVE  DOMAIN Static \subseteq session.done
<1> DEFINE S == DOMAIN Static \ session.done
<1>1. \A o \in DOMAIN Static : o \in DOMAIN session.defs /\ session.parents[o] = StaticParents(o)
  BY DEF SessionOK, GraphOK
<1>2. ASSUME NEW o \in S PROVE StaticParents(o) \cap S # {}
  <2>1. ~Ready(o)
    BY <1>1
  <2> QED BY <1>1, <2>1 DEF Ready, StaticParents
<1>3. S = {}
  <2>1. S \in SUBSET DOMAIN Static
    OBVIOUS
  <2> HIDE DEF S
  <2> QED BY <1>2, <2>1 DEF SessionOK, NoCycle
<1> QED BY <1>3

\* SavedIsComplete, of any values.
Complete(vals) == \A o \in DOMAIN Static : DOMAIN vals # {} /\ ~Static[o].local => o \in DOMAIN vals

\* What the next state has to satisfy, with the primes at the variables.
LEMMA ResolverPrime ==
    ASSUME DOMAIN saved' = {"provider", "workspace", "dynamic"}, IsValues(saved'.provider),
           Consistent(saved'.provider), Complete(saved'.provider),
           session' = [active |-> FALSE] \/ IsSession(session'),
           session'.active /\ ToBeSaved(session') => SessionOK(session')
    PROVE  ResolverInv'
<1>1. (session.active /\ ToBeSaved(session) => SessionOK(session))'
  BY DEF ToBeSaved, SessionOK, IsValues, Consistent, GraphOK, DoneOK, Determined, ValueOf, ResolveDefaultValue
<1>2. SavedIsComplete'
  <2>1. saved'.provider # NoValues <=> DOMAIN saved'.provider # {}
    BY NoValuesIs
  <2> QED BY <2>1 DEF SavedIsComplete, Complete
<1>3. SavedOK'
  BY DEF SavedOK, IsValues, Consistent, Determined, ValueOf, ResolveDefaultValue
<1>4. (session = [active |-> FALSE] \/ IsSession(session))'
  BY DEF IsSession
<1> QED BY <1>1, <1>2, <1>3, <1>4 DEF ResolverInv

\* Every step of a resolution, of a provider or of a workspace, keeps the invariant.
LEMMA ResolverStep == ResolverInv /\ [ResolverNext]_resolverVars => ResolverInv'
<1> SUFFICES ASSUME ResolverInv, [ResolverNext]_resolverVars PROVE ResolverInv'
  OBVIOUS
<1>1. /\ DOMAIN saved = {"provider", "workspace", "dynamic"} /\ IsValues(saved.provider)
      /\ Consistent(saved.provider) /\ Complete(saved.provider)
  BY NoValuesIs DEF ResolverInv, SavedOK, SavedIsComplete, Complete
<1>2. /\ session = [active |-> FALSE] \/ IsSession(session)
      /\ session.active => IsSession(session)
      /\ session.active /\ ToBeSaved(session) => SessionOK(session)
  BY DEF ResolverInv
<1>3. ASSUME NEW given, NEW reconfigure, NEW dry \in BOOLEAN, NEW subs,
             SetOptions(given, reconfigure, dry, subs)
      PROVE  ResolverInv'
  <2>1. saved' = saved
    BY <1>3 DEF SetOptions, Resolve
  <2>2. IsSession(session') /\ SessionOK(session')
    BY <1>3, Started
  <2> QED BY <1>1, <2>1, <2>2, ResolverPrime
<1>4. ASSUME NEW given, NEW subs, ResolveWorkspace(given, subs) PROVE ResolverInv'
  <2>1. saved' = saved
    BY <1>4 DEF ResolveWorkspace, Resolve
  <2>2. IsSession(session') /\ session'.kind = "workspace"
    BY <1>4 DEF ResolveWorkspace, Resolve, IsSession, SessionFields
  <2> QED BY <1>1, <2>1, <2>2, ResolverPrime DEF ToBeSaved
<1>5. ASSUME NEW o, NEW answer, ResolveNext(o, answer) PROVE ResolverInv'
  <2>1. saved' = saved /\ session.active
    BY <1>5 DEF ResolveNext
  <2>2. IsSession(session)
    BY <1>2, <2>1
  <2>3. /\ IsSession(session') /\ session'.kind = session.kind /\ session'.skip = session.skip
        /\ ToBeSaved(session) /\ SessionOK(session) => SessionOK(session')
    BY <1>5, <2>2, RoundOK
  <2>4. ToBeSaved(session') => SessionOK(session')
    BY <1>2, <2>1, <2>3 DEF ToBeSaved
  <2> QED BY <1>1, <2>1, <2>3, <2>4, ResolverPrime
<1>6. CASE EndResolve
  <2>1. session.active /\ session' = [active |-> FALSE] /\ session'.active = FALSE
    BY <1>6 DEF EndResolve
  <2>2. CASE session.kind = "workspace"
    <3>1. saved' = [saved EXCEPT !.workspace = Filtered(session)]
      BY <1>6, <2>2 DEF EndResolve
    <3>2. DOMAIN saved' = DOMAIN saved /\ saved'.provider = saved.provider
      BY <1>1, <3>1
    <3> QED BY <1>1, <2>1, <3>2, ResolverPrime
  <2>3. CASE session.kind # "workspace" /\ session.skip
    <3>1. saved' = saved
      BY <1>6, <2>3 DEF EndResolve
    <3> QED BY <1>1, <2>1, <3>1, ResolverPrime
  <2>4. CASE session.kind = "provider" /\ ~session.skip
    <3> DEFINE vals == Returned(session)
    <3>1. saved' = [saved EXCEPT !.provider = vals, !.dynamic = NewDynamic(session)]
      BY <1>6, <2>4 DEF EndResolve
    <3>2. SessionOK(session)
      BY <1>2, <2>1, <2>4 DEF ToBeSaved
    <3>3. /\ vals = [x \in DOMAIN vals |-> vals[x]]
          /\ DOMAIN vals = DOMAIN session.vals \cap (DOMAIN Static \cup DOMAIN NewDynamic(session))
          /\ \A x \in DOMAIN vals : vals[x] = session.vals[x]
      BY DEF Returned, Drop
    <3> HIDE DEF vals
    <3>4. DOMAIN saved' = DOMAIN saved /\ saved'.provider = vals
      BY <1>1, <3>1
    <3>5. IsValues(vals)
      BY <3>2, <3>3 DEF SessionOK, IsValues
    <3>6. Consistent(vals)
      BY <3>2, <3>3, FewerConsistent DEF SessionOK
    <3>7. Complete(vals)
      <4>1. DOMAIN Static \subseteq session.done
        BY <1>6, <3>2, AllDone DEF EndResolve
      <4>2. \A o \in DOMAIN Static : ~Static[o].local => o \in DOMAIN session.vals
        BY <3>2, <4>1 DEF SessionOK, DoneOK
      <4> QED BY <3>3, <4>2 DEF Complete
    <3> QED BY <1>1, <2>1, <3>4, <3>5, <3>6, <3>7, ResolverPrime
  <2> QED BY <1>2, <2>1, <2>2, <2>3, <2>4 DEF IsSession
<1>7. CASE ResolveFails
  <2>1. saved' = saved /\ session' = [active |-> FALSE] /\ session'.active = FALSE
    BY <1>7 DEF ResolveFails
  <2> QED BY <1>1, <2>1, ResolverPrime
<1>8. ASSUME NEW kind \in {"provider", "workspace"}, NEW o \in Names, CacheExpires(kind, o) PROVE ResolverInv'
  <2>1. /\ session' = session /\ saved' = [saved EXCEPT ![kind][o].fresh = FALSE]
        /\ o \in DOMAIN saved[kind]
    BY <1>8 DEF CacheExpires
  <2>2. CASE kind = "workspace"
    <3>1. DOMAIN saved' = DOMAIN saved /\ saved'.provider = saved.provider
      BY <1>1, <2>1, <2>2
    <3> QED BY <1>1, <1>2, <2>1, <3>1, ResolverPrime
  <2>3. CASE kind = "provider"
    <3> DEFINE vals == saved.provider
               new == saved'.provider
    <3>1. DOMAIN saved' = DOMAIN saved /\ new = [vals EXCEPT ![o].fresh = FALSE]
      BY <1>1, <2>1, <2>3
    <3>2. /\ DOMAIN new = DOMAIN vals /\ new = [x \in DOMAIN new |-> new[x]]
          /\ \A x \in DOMAIN new : new[x] = IF x = o THEN [vals[x] EXCEPT !.fresh = FALSE] ELSE vals[x]
      BY <3>1
    <3> HIDE DEF vals, new
    <3>3. ASSUME NEW x \in DOMAIN new
          PROVE  IsValue(new[x]) /\ new[x].value = vals[x].value /\ new[x].user = vals[x].user
      <4>1. IsValue(vals[x])
        BY <1>1, <3>2 DEF IsValues, vals
      <4>2. IsValue([vals[x] EXCEPT !.fresh = FALSE])
        BY <4>1 DEF IsValue
      <4> QED BY <3>2, <4>1, <4>2 DEF IsValue
    <3>4. IsValues(new)
      BY <3>2, <3>3 DEF IsValues
    <3>5. Consistent(new)
      BY <1>1, <3>2, <3>3, FewerConsistent DEF vals
    <3>6. Complete(new)
      BY <1>1, <3>2 DEF Complete, vals
    <3> QED BY <1>1, <1>2, <2>1, <3>1, <3>4, <3>5, <3>6, ResolverPrime DEF new
  <2> QED BY <2>2, <2>3
<1>9. CASE UNCHANGED resolverVars
  <2>1. saved' = saved /\ session' = session
    BY <1>9 DEF resolverVars
  <2> QED BY <1>1, <1>2, <2>1, ResolverPrime
<1> QED BY <1>3, <1>4, <1>5, <1>6, <1>7, <1>8, <1>9 DEF ResolverNext

\* What a provider saves is complete and consistent, whatever options, dependencies and sub options
\* there are, in whatever order the graph is visited, over any number of resolutions.
THEOREM SavedIsConsistentHolds == ResolverSpec => []SavedIsConsistent
<1>1. ResolverInv => SavedIsConsistent
  BY DEF ResolverInv, SavedOK, Consistent, SavedIsConsistent
<1> QED BY <1>1, ResolverInitOK, ResolverStep, PTL DEF ResolverSpec

-----------------------------------------------------------------------------
(* The dev container and its setup *)

Images == [version : Nat, dockerless : BOOLEAN]
Containers == [created : Nat, started : Nat, running : BOOLEAN, image : Images, kept : Images]

UpPcs == {"idle", "initialize", "find", "start", "reprovision", "build", "delete", "run",
          "composeFind", "composeRestart", "composeBuild", "composeDelete", "composeUp",
          "setup", "ok", "failed", "refused"}

UpRecords == [pc : UpPcs, up : BOOLEAN, recreate : BOOLEAN, image : Images,
              details : Containers \cup {NoContainer}]

\* The steps of the setup, from the last one backwards: From... is every step that
\* comes after the one it is named for.
FromDaemon == {"send", "ok"}
FromHook5  == {"ide", "daemon"} \cup FromDaemon
FromHook4  == {"hook5", "hook5Work"} \cup FromHook5
FromHook3  == {"hook4", "hook4Work"} \cup FromHook4
FromHook2  == {"hook3", "hook3Work"} \cup FromHook3
FromHook1  == {"hook2", "hook2Work"} \cup FromHook2
FromKeys   == {"hook1", "hook1Work"} \cup FromHook1
FromProfile == {"sock", "kube", "keys"} \cup FromKeys
FromEnv    == {"envFlags", "envFlagsWork", "profile", "profileWork"} \cup FromProfile
FromChown  == {"env", "envWork"} \cup FromEnv
FromResult == {"chown", "chownWork"} \cup FromChown
FromClone  == {"result"} \cup FromResult
FromGit    == {"clone"} \cup FromClone
FromBuild  == {"git"} \cup FromGit
FromMounts == {"dockerless"} \cup FromBuild
SetupPcs   == {"idle", "failed", "connect", "mounts"} \cup FromMounts

Contents == SUBSET (STRING \cup Nat)
Works == {"result", "chown", "profile", "keys", "helper"} \cup STRING

Files == [mount : [Mounts -> {"empty", "partial", "full", "edited"}], context : Nat, fallback : Nat,
          built : Nat, repo : {"none", "partial", "full"}, helpers : Nat, keys : SUBSET Nat,
          applied : SUBSET Works, logged : SUBSET Works, marker : [Markers -> Contents \cup {NoMarker}]]

Runs == [created : Nat, started : Nat, recreate : BOOLEAN, reset : BOOLEAN, dockerless : BOOLEAN,
         info : Nat, streamed : BOOLEAN, todo : SUBSET Mounts, lent : BOOLEAN]

SetupTypeOK ==
    /\ setup \in SetupPcs /\ run \in Runs /\ fs \in Files
    /\ procs \in [{"daemon", "extensions", "browser"} -> [running : Nat, pid : BOOLEAN]]
    /\ ran \in [HookNames -> Nat] /\ broken \in BOOLEAN
    /\ setup # "idle" => setupInfo \in SetupInfos

\* What is true of a container in which no setup was cut off: nothing is there in part,
\* the work behind a marker was done, was logged as failed or is being done, and every
\* step before the present one has been done or logged.
Streams == IF config.driver = "docker" THEN {} ELSE setupInfo.mounts

MountsWhole == ~broken =>
    /\ \A m \in Mounts : fs.mount[m] \in {"empty", "full", "edited"}
    /\ setup # "idle" => \A m \in Streams \ run.todo : fs.mount[m] \in {"full", "edited"}
    /\ setup \in FromMounts => run.todo = {}

ImageBuilt == ~broken => (setup \in FromBuild /\ run.dockerless => fs.built # 0)

RepoWhole == ~broken =>
    /\ fs.repo \in {"none", "full"}
    /\ setup \in FromClone /\ setupInfo.pull => fs.repo = "full"

HelperTakenBack ==
    /\ setup = "idle" => ~run.lent
    /\ ~broken /\ "helper" \notin fs.logged =>
                  /\ setup # "ok" => fs.helpers = IF run.lent THEN 1 ELSE 0
                  /\ setup = "ok" => fs.helpers = 0
                  /\ setup \in {"connect", "mounts", "dockerless", "git"} => ~run.lent

ResultWritten == ~broken => (setup \in FromResult => "result" \in fs.applied \cup fs.logged)

Chowned == ~broken =>
    /\ fs.marker["chown"] # NoMarker => "chown" \in fs.applied \cup fs.logged \/ setup = "chownWork"
    /\ setup \in FromChown => "chown" \in fs.applied \cup fs.logged

Profiled == ~broken =>
    /\ fs.marker["profile"] # NoMarker => "profile" \in fs.applied \cup fs.logged \/ setup = "profileWork"
    /\ setup \in FromProfile => "profile" \in fs.applied \cup fs.logged

EnvPatched == ~broken =>
    /\ \A e \in STRING : fs.marker["env"] # NoMarker /\ fs.marker["env"] = {e}
                            => e \in fs.applied \cup fs.logged \/ (setup = "envWork" /\ e = setupInfo.env)
    /\ setup \in FromEnv => setupInfo.env \in fs.applied \cup fs.logged

KeysWritten == ~broken => (setup \in FromKeys => 0..(setupInfo.keys - 1) \subseteq fs.keys \/ "keys" \in fs.logged)

MarkedHookRan(h, work) == ~broken => (fs.marker[h] # NoMarker => ran[h] >= 1 \/ setup = work)
PastHookRan(h, after) == ~broken => (setup \in after /\ h \in setupInfo.hooks => ran[h] >= 1)

MarkedHooksRan ==
    /\ MarkedHookRan("onCreate", "hook1Work") /\ MarkedHookRan("updateContent", "hook2Work")
    /\ MarkedHookRan("postCreate", "hook3Work")

PastHooksRan ==
    /\ PastHookRan("onCreate", FromHook1) /\ PastHookRan("updateContent", FromHook2)
    /\ PastHookRan("postCreate", FromHook3) /\ PastHookRan("postAttach", FromHook5)

DaemonOnce == ~broken =>
    /\ procs["daemon"].running = 0 \/ (procs["daemon"].running = 1 /\ procs["daemon"].pid)
    /\ setup \in FromDaemon /\ setupInfo.timeout => procs["daemon"].running = 1

FailedIsBroken == setup = "failed" => broken

SetupInv ==
    /\ SetupTypeOK /\ FailedIsBroken /\ MountsWhole /\ ImageBuilt /\ RepoWhole /\ HelperTakenBack /\ ResultWritten
    /\ Chowned /\ Profiled /\ EnvPatched /\ KeysWritten /\ MarkedHooksRan /\ PastHooksRan /\ DaemonOnce

\* The hooks and their steps, by number.
LEMMA HookFacts ==
    /\ Len(Hooks) = 5
    /\ Hooks[1] = "onCreate" /\ Hooks[2] = "updateContent" /\ Hooks[3] = "postCreate"
    /\ Hooks[4] = "postStart" /\ Hooks[5] = "postAttach"
    /\ HookStep[1] = "hook1" /\ HookStep[2] = "hook2" /\ HookStep[3] = "hook3"
    /\ HookStep[4] = "hook4" /\ HookStep[5] = "hook5"
    /\ HookWork[1] = "hook1Work" /\ HookWork[2] = "hook2Work" /\ HookWork[3] = "hook3Work"
    /\ HookWork[4] = "hook4Work" /\ HookWork[5] = "hook5Work"
    /\ AfterHook(1) = "hook2" /\ AfterHook(2) = "hook3" /\ AfterHook(3) = "hook4"
    /\ AfterHook(4) = "hook5" /\ AfterHook(5) = "ide"
    /\ HookNames = {"onCreate", "updateContent", "postCreate", "postStart", "postAttach"}
    /\ Markers = {"chown", "env", "envFlags", "profile", "kube", "onCreate", "updateContent",
                  "postCreate", "postStart"}
<1>1. /\ Len(Hooks) = 5
      /\ Hooks[1] = "onCreate" /\ Hooks[2] = "updateContent" /\ Hooks[3] = "postCreate"
      /\ Hooks[4] = "postStart" /\ Hooks[5] = "postAttach"
  BY DEF Hooks
<1>2. /\ HookStep[1] = "hook1" /\ HookStep[2] = "hook2" /\ HookStep[3] = "hook3"
      /\ HookStep[4] = "hook4" /\ HookStep[5] = "hook5"
  BY DEF HookStep
<1>3. /\ HookWork[1] = "hook1Work" /\ HookWork[2] = "hook2Work" /\ HookWork[3] = "hook3Work"
      /\ HookWork[4] = "hook4Work" /\ HookWork[5] = "hook5Work"
  BY DEF HookWork
<1>4. /\ AfterHook(1) = "hook2" /\ AfterHook(2) = "hook3" /\ AfterHook(3) = "hook4"
      /\ AfterHook(4) = "hook5" /\ AfterHook(5) = "ide"
  BY <1>1, <1>2 DEF AfterHook
<1>5. HookNames = {"onCreate", "updateContent", "postCreate", "postStart", "postAttach"}
  <2>1. 1..Len(Hooks) = {1, 2, 3, 4, 5} BY <1>1
  <2>2. HookNames = {Hooks[n] : n \in {1, 2, 3, 4, 5}} BY <2>1 DEF HookNames
  <2> QED BY <1>1, <2>2
<1>6. Markers = {"chown", "env", "envFlags", "profile", "kube", "onCreate", "updateContent",
                 "postCreate", "postStart"}
  BY <1>5 DEF Markers
<1> QED BY <1>1, <1>2, <1>3, <1>4, <1>5, <1>6

\* The work behind a marker, by step.
LEMMA GuardedWorkMeans ==
    ASSUME GuardedWork
    PROVE  /\ UNCHANGED <<setupInfo, run, procs, ran, broken>>
           /\ \/ setup = "chownWork" /\ setup' = "env" /\ fs' = [fs EXCEPT !.applied = @ \cup {"chown"}]
              \/ setup = "envWork" /\ setup' = "envFlags" /\ fs' = [fs EXCEPT !.applied = @ \cup {setupInfo.env}]
              \/ setup = "envFlagsWork" /\ setup' = "profile"
                 /\ fs' = [fs EXCEPT !.applied = @ \cup {setupInfo.env}]
              \/ setup = "profileWork" /\ setup' = "sock" /\ fs' = [fs EXCEPT !.applied = @ \cup {"profile"}]
<1>1. PICK w \in {<<"chownWork", "chown", "env">>, <<"envWork", setupInfo.env, "envFlags">>,
                  <<"envFlagsWork", setupInfo.env, "profile">>, <<"profileWork", "profile", "sock">>} :
          setup = w[1] /\ fs' = [fs EXCEPT !.applied = @ \cup {w[2]}] /\ setup' = w[3]
  BY DEF GuardedWork, SetupGoto
<1>2. CASE w = <<"chownWork", "chown", "env">> BY <1>1, <1>2 DEF GuardedWork
<1>3. CASE w = <<"envWork", setupInfo.env, "envFlags">> BY <1>1, <1>3 DEF GuardedWork
<1>4. CASE w = <<"envFlagsWork", setupInfo.env, "profile">> BY <1>1, <1>4 DEF GuardedWork
<1>5. CASE w = <<"profileWork", "profile", "sock">> BY <1>1, <1>5 DEF GuardedWork
<1> QED BY <1>1, <1>2, <1>3, <1>4, <1>5

\* What single.Single does to the processes.
LEMMA SingleMeans ==
    ASSUME SetupTypeOK, NEW n \in {"daemon", "extensions", "browser"}, Single(n)
    PROVE  /\ procs' \in [{"daemon", "extensions", "browser"} -> [running : Nat, pid : BOOLEAN]]
           /\ \A k \in {"daemon", "extensions", "browser"} : k # n => procs'[k] = procs[k]
           /\ \/ procs' = procs /\ procs[n].running > 0
              \/ /\ ~(procs[n].pid /\ procs[n].running > 0)
                 /\ procs'[n] = [running |-> procs[n].running + 1, pid |-> TRUE]
<1>1. CASE UNCHANGED procs /\ procs[n].pid /\ procs[n].running > 0 BY <1>1 DEF SetupTypeOK
<1>2. CASE /\ ~(procs[n].pid /\ procs[n].running > 0)
           /\ procs' = [procs EXCEPT ![n] = [running |-> @.running + 1, pid |-> TRUE]]
  <2> DEFINE e == [running |-> procs[n].running + 1, pid |-> TRUE]
  <2>1. e \in [running : Nat, pid : BOOLEAN] BY DEF SetupTypeOK
  <2>2. procs' = [procs EXCEPT ![n] = e] BY <1>2
  <2> HIDE DEF e
  <2>3. /\ procs' \in [{"daemon", "extensions", "browser"} -> [running : Nat, pid : BOOLEAN]]
        /\ procs'[n] = e
        /\ \A k \in {"daemon", "extensions", "browser"} : k # n => procs'[k] = procs[k]
    BY <2>1, <2>2 DEF SetupTypeOK
  <2> QED BY <1>2, <2>3 DEF e
<1> QED BY <1>1, <1>2 DEF Single

\* A setup that is cut off is marked as broken, and then nothing is claimed of it.
LEMMA SetupCutOff ==
    ASSUME SetupTypeOK, broken' = TRUE, setup # "idle", setup' = "failed", run' = run, fs' \in Files,
           UNCHANGED setupInfo,
           procs' \in [{"daemon", "extensions", "browser"} -> [running : Nat, pid : BOOLEAN]],
           ran' \in [HookNames -> Nat]
    PROVE  SetupInv'
<1>1. SetupTypeOK' BY DEF SetupTypeOK, SetupPcs
<1>2. /\ FailedIsBroken' /\ MountsWhole' /\ ImageBuilt' /\ RepoWhole' /\ HelperTakenBack' /\ ResultWritten'
      /\ Chowned' /\ Profiled' /\ EnvPatched' /\ KeysWritten' /\ MarkedHooksRan' /\ PastHooksRan' /\ DaemonOnce'
  BY DEF FailedIsBroken, MountsWhole, ImageBuilt, RepoWhole, HelperTakenBack, ResultWritten, Chowned, Profiled,
      EnvPatched, KeysWritten, MarkedHooksRan, MarkedHookRan, PastHooksRan, PastHookRan, DaemonOnce
<1> QED BY <1>1, <1>2 DEF SetupInv

\* A step of a setup does not begin it and keeps what it knows of the image and of the
\* build information, which only the stream brings and only the build uses.
BeforeBuild == {"connect", "mounts", "dockerless"}

InfoStreamed ==
    /\ setup = "mounts" /\ setup' = "mounts" /\ fs'.built = fs.built
    /\ fs'.context = IF run.info # 0 THEN run.info ELSE fs.context

InfoUsed ==
    /\ setup = "dockerless" /\ run'.streamed = run.streamed
    /\ \/ setup' = "failed"
       \/ setup' = "git" /\ (run.dockerless /\ fs.built = 0 /\ fs.context # 0 => fs'.built = fs.context)

InfoKept ==
    /\ fs'.built = fs.built /\ fs'.context = fs.context /\ run'.streamed = run.streamed
    /\ setup \in BeforeBuild <=> setup' \in BeforeBuild
    /\ setup' = "failed" => setup = "failed"

StepAt ==
    /\ \/ setup' = setup
       \/ setup \notin {"idle", "ok", "failed"} /\ setup' # "idle"
    /\ run'.dockerless = run.dockerless /\ run'.info = run.info
    /\ InfoStreamed \/ InfoUsed \/ InfoKept

\* Every step of a setup keeps the invariant of the setup.
LEMMA SetupInvStep == ASSUME SetupInv, SetupStep, UNCHANGED runnerVars PROVE SetupInv' /\ StepAt
<1>t. SetupTypeOK BY DEF SetupInv
<1>c. UNCHANGED config BY DEF runnerVars
<1>i. setup # "idle" => /\ setupInfo.env \in STRING /\ setupInfo.keys \in 0..2
                        /\ setupInfo.hooks \subseteq HookNames /\ setupInfo.mounts \subseteq Mounts
  BY <1>t, ContainerSetupAssumption DEF SetupTypeOK
<1>1. ASSUME Connect PROVE SetupInv' /\ StepAt
  <2>1. /\ setup = "connect" /\ setup' = "mounts"
        /\ UNCHANGED <<setupInfo, run, fs, procs, ran, broken>>
    BY <1>1, <1>t, HookFacts DEF Connect, SetupGoto, SetupTypeOK, Files, Runs
  <2>2. SetupTypeOK'
    BY <1>1, <1>t, <2>1, HookFacts DEF SetupTypeOK, SetupPcs, FromDaemon, FromHook5, FromHook4,
        FromHook3, FromHook2, FromHook1, FromKeys, FromProfile, FromEnv, FromChown, FromResult,
        FromClone, FromGit, FromBuild, FromMounts
  <2>3. FailedIsBroken' /\ MountsWhole' /\ ImageBuilt' /\ RepoWhole' /\ HelperTakenBack' /\ ResultWritten' /\ Chowned' /\ Profiled' /\ EnvPatched' /\ KeysWritten' /\ MarkedHooksRan' /\ PastHooksRan' /\ DaemonOnce'
    BY <1>c, <2>1, HookFacts DEF SetupInv, FailedIsBroken, MountsWhole, Streams, ImageBuilt, RepoWhole,
        HelperTakenBack, ResultWritten, Chowned, Profiled, EnvPatched, KeysWritten, MarkedHooksRan,
        MarkedHookRan, PastHooksRan, PastHookRan, DaemonOnce, FromDaemon, FromHook5, FromHook4,
        FromHook3, FromHook2, FromHook1, FromKeys, FromProfile, FromEnv, FromChown, FromResult,
        FromClone, FromGit, FromBuild, FromMounts
  <2> QED BY <2>1, <2>2, <2>3 DEF SetupInv, StepAt, InfoKept, BeforeBuild
<1>2. ASSUME MountsStreamed PROVE SetupInv' /\ StepAt
  <2>1. /\ setup = "mounts" /\ setup' = "dockerless" /\ run.todo = {}
        /\ UNCHANGED <<setupInfo, run, fs, procs, ran, broken>>
    BY <1>2, <1>t, HookFacts DEF MountsStreamed, SetupGoto, SetupTypeOK, Files, Runs
  <2>2. SetupTypeOK'
    BY <1>2, <1>t, <2>1, HookFacts DEF SetupTypeOK, SetupPcs, FromDaemon, FromHook5, FromHook4,
        FromHook3, FromHook2, FromHook1, FromKeys, FromProfile, FromEnv, FromChown, FromResult,
        FromClone, FromGit, FromBuild, FromMounts
  <2>3. MountsWhole'
    BY <1>t, <1>c, <1>i, <2>1, HookFacts DEF SetupInv, MountsWhole, Streams, SetupTypeOK, FromDaemon,
        FromHook5, FromHook4, FromHook3, FromHook2, FromHook1, FromKeys, FromProfile, FromEnv, FromChown,
        FromResult, FromClone, FromGit, FromBuild, FromMounts
  <2>4. FailedIsBroken' /\ ImageBuilt' /\ RepoWhole' /\ HelperTakenBack' /\ ResultWritten' /\ Chowned' /\ Profiled' /\ EnvPatched' /\ KeysWritten' /\ MarkedHooksRan' /\ PastHooksRan' /\ DaemonOnce'
    BY <1>c, <2>1, HookFacts DEF SetupInv, FailedIsBroken, ImageBuilt, RepoWhole, HelperTakenBack,
        ResultWritten, Chowned, Profiled, EnvPatched, KeysWritten, MarkedHooksRan, MarkedHookRan,
        PastHooksRan, PastHookRan, DaemonOnce, FromDaemon, FromHook5, FromHook4, FromHook3, FromHook2,
        FromHook1, FromKeys, FromProfile, FromEnv, FromChown, FromResult, FromClone, FromGit, FromBuild,
        FromMounts
  <2> QED BY <2>1, <2>2, <2>3, <2>4 DEF SetupInv, StepAt, InfoKept, BeforeBuild
<1>3. ASSUME DockerlessBuild PROVE SetupInv' /\ StepAt
  <2>f. CASE setup' = "failed"
    <3>1. /\ setup = "dockerless" /\ fs' = Unlend(fs) /\ broken' = TRUE
          /\ UNCHANGED <<setupInfo, run, procs, ran>>
      BY <1>3, <1>t, <2>f DEF DockerlessBuild, SetupReturns, SetupGoto, SetupTypeOK
    <3>2. fs' \in Files BY <1>t, <3>1 DEF SetupTypeOK, Unlend, Files
    <3>3. SetupInv' BY <1>t, <2>f, <3>1, <3>2, SetupCutOff DEF SetupTypeOK
    <3> QED BY <2>f, <3>1, <3>3 DEF StepAt, InfoUsed
  <2> SUFFICES ASSUME setup' # "failed" PROVE SetupInv' /\ StepAt
    BY <2>f
  <2>1. /\ setup = "dockerless" /\ setup' = "git"
        /\ (run.dockerless => fs'.built # 0)
        /\ (run.dockerless /\ fs.built = 0 /\ fs.context # 0 => fs'.built = fs.context)
        /\ fs' \in Files
        /\ fs'.mount = fs.mount /\ fs'.logged = fs.logged /\ fs'.repo = fs.repo /\ fs'.helpers = fs.helpers /\ fs'.keys = fs.keys /\ fs'.applied = fs.applied /\ fs'.marker = fs.marker
        /\ UNCHANGED <<setupInfo, run, procs, ran, broken>>
    <3>1. /\ setup = "dockerless" /\ setup' = "git" /\ UNCHANGED <<setupInfo, run, procs, ran, broken>>
          /\ ~(run.dockerless /\ fs.built = 0 /\ BuildInfo = 0)
          /\ fs' = IF ~run.dockerless \/ fs.built # 0 THEN fs
                   ELSE [fs EXCEPT !.built = BuildInfo, !.context = 0, !.fallback = BuildInfo]
      BY <1>3 DEF DockerlessBuild, SetupReturns, SetupGoto
    <3>2. fs \in Files BY <1>t DEF SetupTypeOK
    <3>3. CASE ~run.dockerless \/ fs.built # 0 BY <3>1, <3>2, <3>3
    <3>4. CASE run.dockerless /\ fs.built = 0
      <4>1. BuildInfo \in Nat /\ BuildInfo # 0 /\ (fs.context # 0 => BuildInfo = fs.context)
        BY <3>1, <3>2, <3>4 DEF BuildInfo, Files
      <4>2. fs' = [fs EXCEPT !.built = BuildInfo, !.context = 0, !.fallback = BuildInfo] BY <3>1, <3>4
      <4> QED BY <3>1, <3>2, <4>1, <4>2 DEF Files
    <3> QED BY <3>1, <3>3, <3>4
  <2>2. SetupTypeOK'
    BY <1>3, <1>t, <2>1, HookFacts DEF SetupTypeOK, SetupPcs, FromDaemon, FromHook5, FromHook4,
        FromHook3, FromHook2, FromHook1, FromKeys, FromProfile, FromEnv, FromChown, FromResult,
        FromClone, FromGit, FromBuild, FromMounts
  <2>3. ImageBuilt'
    BY <1>t, <1>c, <1>i, <2>1, HookFacts DEF SetupInv, ImageBuilt, SetupTypeOK, FromDaemon, FromHook5,
        FromHook4, FromHook3, FromHook2, FromHook1, FromKeys, FromProfile, FromEnv, FromChown,
        FromResult, FromClone, FromGit, FromBuild, FromMounts
  <2>4. FailedIsBroken' /\ MountsWhole' /\ RepoWhole' /\ HelperTakenBack' /\ ResultWritten' /\ Chowned' /\ Profiled' /\ EnvPatched' /\ KeysWritten' /\ MarkedHooksRan' /\ PastHooksRan' /\ DaemonOnce'
    BY <1>c, <2>1, HookFacts DEF SetupInv, FailedIsBroken, MountsWhole, Streams, RepoWhole,
        HelperTakenBack, ResultWritten, Chowned, Profiled, EnvPatched, KeysWritten, MarkedHooksRan,
        MarkedHookRan, PastHooksRan, PastHookRan, DaemonOnce, FromDaemon, FromHook5, FromHook4,
        FromHook3, FromHook2, FromHook1, FromKeys, FromProfile, FromEnv, FromChown, FromResult,
        FromClone, FromGit, FromBuild, FromMounts
  <2> QED BY <2>1, <2>2, <2>3, <2>4 DEF SetupInv, StepAt, InfoUsed
<1>4. ASSUME ConfigureSystemGitCredentials PROVE SetupInv' /\ StepAt
  <2>a. fs.helpers + 1 \in Nat /\ fs \in Files /\ run \in Runs BY <1>t DEF SetupTypeOK, Files
  <2>1. /\ setup = "git" /\ setup' = "clone"
        /\ \/ fs'.helpers = fs.helpers + 1 /\ run'.lent = TRUE
           \/ fs'.helpers = fs.helpers /\ run'.lent = run.lent
        /\ run' \in Runs /\ run'.todo = run.todo /\ run'.dockerless = run.dockerless
        /\ run'.info = run.info /\ run'.streamed = run.streamed
        /\ fs' \in Files
        /\ fs'.mount = fs.mount /\ fs'.built = fs.built /\ fs'.context = fs.context /\ fs'.logged = fs.logged /\ fs'.repo = fs.repo /\ fs'.keys = fs.keys /\ fs'.applied = fs.applied /\ fs'.marker = fs.marker
        /\ UNCHANGED <<setupInfo, procs, ran, broken>>
    BY ZenonT(60), <1>4, <1>t, <2>a DEF ConfigureSystemGitCredentials, SetupGoto, Files, Runs
  <2>2. SetupTypeOK'
    BY <1>4, <1>t, <2>1, HookFacts DEF SetupTypeOK, SetupPcs, FromDaemon, FromHook5, FromHook4,
        FromHook3, FromHook2, FromHook1, FromKeys, FromProfile, FromEnv, FromChown, FromResult,
        FromClone, FromGit, FromBuild, FromMounts
  <2>3. HelperTakenBack'
    BY <1>t, <1>c, <1>i, <2>1, HookFacts DEF SetupInv, HelperTakenBack, SetupTypeOK, FromDaemon,
        FromHook5, FromHook4, FromHook3, FromHook2, FromHook1, FromKeys, FromProfile, FromEnv, FromChown,
        FromResult, FromClone, FromGit, FromBuild, FromMounts
  <2>4. FailedIsBroken' /\ MountsWhole' /\ ImageBuilt' /\ RepoWhole' /\ ResultWritten' /\ Chowned' /\ Profiled' /\ EnvPatched' /\ KeysWritten' /\ MarkedHooksRan' /\ PastHooksRan' /\ DaemonOnce'
    BY <1>c, <2>1, HookFacts DEF SetupInv, FailedIsBroken, MountsWhole, Streams, ImageBuilt, RepoWhole,
        ResultWritten, Chowned, Profiled, EnvPatched, KeysWritten, MarkedHooksRan, MarkedHookRan,
        PastHooksRan, PastHookRan, DaemonOnce, FromDaemon, FromHook5, FromHook4, FromHook3, FromHook2,
        FromHook1, FromKeys, FromProfile, FromEnv, FromChown, FromResult, FromClone, FromGit, FromBuild,
        FromMounts
  <2> QED BY <2>1, <2>2, <2>3, <2>4 DEF SetupInv, StepAt, InfoKept, BeforeBuild
<1>5. ASSUME NEW m \in Mounts, StreamMount(m) PROVE SetupInv' /\ StepAt
  <2>a. fs \in Files /\ run \in Runs BY <1>t DEF SetupTypeOK
  <2>b. StreamedInfo(m) \in Nat BY <2>a DEF StreamedInfo, Files, Runs
  <2>c. /\ fs' \in Files /\ fs'.mount[m] \in {"full", fs.mount[m]} /\ fs'.mount[m] # "empty"
        /\ \A k \in Mounts : k # m => fs'.mount[k] = fs.mount[k]
        /\ fs'.built = fs.built /\ fs'.logged = fs.logged /\ fs'.repo = fs.repo /\ fs'.helpers = fs.helpers /\ fs'.keys = fs.keys /\ fs'.applied = fs.applied /\ fs'.marker = fs.marker
        /\ fs'.context = IF NeedsStream(m) THEN StreamedInfo(m) ELSE fs.context
    <3>1. CASE NeedsStream(m)
      <4>1. fs' = [fs EXCEPT !.mount[m] = "full", !.context = StreamedInfo(m)] BY <1>5, <3>1 DEF StreamMount
      <4> QED BY <2>a, <2>b, <3>1, <4>1 DEF Files
    <3>2. CASE ~NeedsStream(m)
      <4>1. fs' = fs BY <1>5, <3>2 DEF StreamMount
      <4> QED BY <2>a, <3>2, <4>1 DEF Files, NeedsStream
    <3> QED BY <3>1, <3>2
  <2>d. /\ run' \in Runs /\ run'.todo = run.todo \ {m} /\ run'.lent = run.lent /\ run'.dockerless = run.dockerless
        /\ run'.info = run.info /\ (m # WorkspaceMount \/ ~NeedsStream(m) => run'.streamed = run.streamed)
    <3>1. run' = [run EXCEPT !.todo = run.todo \ {m},
                             !.streamed = run.streamed \/ (m = WorkspaceMount /\ NeedsStream(m))]
      BY <1>5 DEF StreamMount
    <3>2. (run.streamed \/ (m = WorkspaceMount /\ NeedsStream(m))) \in BOOLEAN OBVIOUS
    <3>3. run.streamed \in BOOLEAN BY <2>a DEF Runs
    <3> QED BY <2>a, <3>1, <3>2, <3>3 DEF Runs
  <2>1. /\ setup = "mounts" /\ setup' = "mounts"
        /\ run' \in Runs /\ run'.todo = run.todo \ {m} /\ run'.lent = run.lent /\ run'.dockerless = run.dockerless
        /\ fs'.mount[m] \in {"full", fs.mount[m]} /\ fs'.mount[m] # "empty"
        /\ \A k \in Mounts : k # m => fs'.mount[k] = fs.mount[k]
        /\ fs' \in Files
        /\ fs'.built = fs.built /\ fs'.logged = fs.logged /\ fs'.repo = fs.repo /\ fs'.helpers = fs.helpers /\ fs'.keys = fs.keys /\ fs'.applied = fs.applied /\ fs'.marker = fs.marker
        /\ UNCHANGED <<setupInfo, procs, ran, broken>>
    BY <1>5, <2>c, <2>d DEF StreamMount
  <2>2. SetupTypeOK'
    BY <1>5, <1>t, <2>1, HookFacts DEF SetupTypeOK, SetupPcs, FromDaemon, FromHook5, FromHook4,
        FromHook3, FromHook2, FromHook1, FromKeys, FromProfile, FromEnv, FromChown, FromResult,
        FromClone, FromGit, FromBuild, FromMounts
  <2>3. MountsWhole'
    BY <1>t, <1>c, <1>i, <2>1, HookFacts DEF SetupInv, MountsWhole, Streams, SetupTypeOK, FromDaemon,
        FromHook5, FromHook4, FromHook3, FromHook2, FromHook1, FromKeys, FromProfile, FromEnv, FromChown,
        FromResult, FromClone, FromGit, FromBuild, FromMounts
  <2>4. FailedIsBroken' /\ ImageBuilt' /\ RepoWhole' /\ HelperTakenBack' /\ ResultWritten' /\ Chowned' /\ Profiled' /\ EnvPatched' /\ KeysWritten' /\ MarkedHooksRan' /\ PastHooksRan' /\ DaemonOnce'
    BY <1>c, <2>1, HookFacts DEF SetupInv, FailedIsBroken, ImageBuilt, RepoWhole, HelperTakenBack,
        ResultWritten, Chowned, Profiled, EnvPatched, KeysWritten, MarkedHooksRan, MarkedHookRan,
        PastHooksRan, PastHookRan, DaemonOnce, FromDaemon, FromHook5, FromHook4, FromHook3, FromHook2,
        FromHook1, FromKeys, FromProfile, FromEnv, FromChown, FromResult, FromClone, FromGit, FromBuild,
        FromMounts
  <2>5. InfoStreamed \/ InfoKept
    <3>1. CASE m = WorkspaceMount /\ NeedsStream(m)
      BY <2>1, <2>c, <3>1 DEF InfoStreamed, StreamedInfo
    <3>2. CASE m # WorkspaceMount \/ ~NeedsStream(m)
      BY <2>1, <2>c, <2>d, <3>2 DEF InfoKept, BeforeBuild, StreamedInfo
    <3> QED BY <3>1, <3>2
  <2> QED BY <2>1, <2>2, <2>3, <2>4, <2>5, <2>d DEF SetupInv, StepAt
<1>6. ASSUME CloneInside PROVE SetupInv' /\ StepAt
  <2>1. /\ setup = "clone" /\ setup' = "result"
        /\ fs'.repo \in {"full", fs.repo} /\ (setupInfo.pull => fs'.repo # "none")
        /\ fs' \in Files
        /\ fs'.mount = fs.mount /\ fs'.built = fs.built /\ fs'.context = fs.context /\ fs'.logged = fs.logged /\ fs'.helpers = fs.helpers /\ fs'.keys = fs.keys /\ fs'.applied = fs.applied /\ fs'.marker = fs.marker
        /\ UNCHANGED <<setupInfo, run, procs, ran, broken>>
    BY <1>6, <1>t, HookFacts DEF CloneInside, NeedsClone, SetupGoto, SetupTypeOK, Files, Runs
  <2>2. SetupTypeOK'
    BY <1>6, <1>t, <2>1, HookFacts DEF SetupTypeOK, SetupPcs, FromDaemon, FromHook5, FromHook4,
        FromHook3, FromHook2, FromHook1, FromKeys, FromProfile, FromEnv, FromChown, FromResult,
        FromClone, FromGit, FromBuild, FromMounts
  <2>3. RepoWhole'
    BY <1>t, <1>c, <1>i, <2>1, HookFacts DEF SetupInv, RepoWhole, SetupTypeOK, FromDaemon, FromHook5,
        FromHook4, FromHook3, FromHook2, FromHook1, FromKeys, FromProfile, FromEnv, FromChown,
        FromResult, FromClone, FromGit, FromBuild, FromMounts
  <2>4. FailedIsBroken' /\ MountsWhole' /\ ImageBuilt' /\ HelperTakenBack' /\ ResultWritten' /\ Chowned' /\ Profiled' /\ EnvPatched' /\ KeysWritten' /\ MarkedHooksRan' /\ PastHooksRan' /\ DaemonOnce'
    BY <1>c, <2>1, HookFacts DEF SetupInv, FailedIsBroken, MountsWhole, Streams, ImageBuilt,
        HelperTakenBack, ResultWritten, Chowned, Profiled, EnvPatched, KeysWritten, MarkedHooksRan,
        MarkedHookRan, PastHooksRan, PastHookRan, DaemonOnce, FromDaemon, FromHook5, FromHook4,
        FromHook3, FromHook2, FromHook1, FromKeys, FromProfile, FromEnv, FromChown, FromResult,
        FromClone, FromGit, FromBuild, FromMounts
  <2> QED BY <2>1, <2>2, <2>3, <2>4 DEF SetupInv, StepAt, InfoKept, BeforeBuild
<1>7. ASSUME WriteResult PROVE SetupInv' /\ StepAt
  <2>a. fs.applied \cup {"result"} \in SUBSET Works /\ fs \in Files
    BY <1>7, <1>t, <1>i DEF SetupTypeOK, Files, Works
  <2>1. /\ setup = "result" /\ setup' = "chown"
        /\ fs'.applied = fs.applied \cup {"result"}
        /\ fs' \in Files
        /\ fs'.mount = fs.mount /\ fs'.built = fs.built /\ fs'.context = fs.context /\ fs'.logged = fs.logged /\ fs'.repo = fs.repo /\ fs'.helpers = fs.helpers /\ fs'.keys = fs.keys /\ fs'.marker = fs.marker
        /\ UNCHANGED <<setupInfo, run, procs, ran, broken>>
    BY <1>7, <2>a DEF WriteResult, SetupGoto, Files
  <2>2. SetupTypeOK'
    BY <1>7, <1>t, <2>1, HookFacts DEF SetupTypeOK, SetupPcs, FromDaemon, FromHook5, FromHook4,
        FromHook3, FromHook2, FromHook1, FromKeys, FromProfile, FromEnv, FromChown, FromResult,
        FromClone, FromGit, FromBuild, FromMounts
  <2>3. ResultWritten'
    BY <1>t, <1>c, <1>i, <2>1, HookFacts DEF SetupInv, ResultWritten, SetupTypeOK, FromDaemon, FromHook5,
        FromHook4, FromHook3, FromHook2, FromHook1, FromKeys, FromProfile, FromEnv, FromChown,
        FromResult, FromClone, FromGit, FromBuild, FromMounts
  <2>4. FailedIsBroken' /\ MountsWhole' /\ ImageBuilt' /\ RepoWhole' /\ HelperTakenBack' /\ Chowned' /\ Profiled' /\ EnvPatched' /\ KeysWritten' /\ MarkedHooksRan' /\ PastHooksRan' /\ DaemonOnce'
    BY <1>c, <2>1, HookFacts DEF SetupInv, FailedIsBroken, MountsWhole, Streams, ImageBuilt, RepoWhole,
        HelperTakenBack, Chowned, Profiled, EnvPatched, KeysWritten, MarkedHooksRan, MarkedHookRan,
        PastHooksRan, PastHookRan, DaemonOnce, FromDaemon, FromHook5, FromHook4, FromHook3, FromHook2,
        FromHook1, FromKeys, FromProfile, FromEnv, FromChown, FromResult, FromClone, FromGit, FromBuild,
        FromMounts
  <2> QED BY <2>1, <2>2, <2>3, <2>4 DEF SetupInv, StepAt, InfoKept, BeforeBuild
<1>8. ASSUME ChownWorkspace PROVE SetupInv' /\ StepAt
  <2>1. /\ setup = "chown"
        /\ \/ setup' = "env" /\ fs' = fs /\ fs.marker["chown"] # NoMarker
           \/ setup' = "chownWork" /\ fs'.marker["chown"] = {}
        /\ \A k \in Markers : k # "chown" => fs'.marker[k] = fs.marker[k]
        /\ fs' \in Files
        /\ fs'.mount = fs.mount /\ fs'.built = fs.built /\ fs'.context = fs.context /\ fs'.logged = fs.logged /\ fs'.repo = fs.repo /\ fs'.helpers = fs.helpers /\ fs'.keys = fs.keys /\ fs'.applied = fs.applied
        /\ UNCHANGED <<setupInfo, run, procs, ran, broken>>
    BY <1>8, <1>t, <1>i, HookFacts DEF ChownWorkspace, Guarded, MarkerFileExists, SetupGoto, Contents,
        SetupTypeOK, Files, Runs
  <2>2. SetupTypeOK'
    BY <1>8, <1>t, <2>1, HookFacts DEF SetupTypeOK, SetupPcs, FromDaemon, FromHook5, FromHook4,
        FromHook3, FromHook2, FromHook1, FromKeys, FromProfile, FromEnv, FromChown, FromResult,
        FromClone, FromGit, FromBuild, FromMounts
  <2>3. Chowned'
    BY <1>t, <1>c, <1>i, <2>1, HookFacts DEF SetupInv, Chowned, SetupTypeOK, FromDaemon, FromHook5,
        FromHook4, FromHook3, FromHook2, FromHook1, FromKeys, FromProfile, FromEnv, FromChown,
        FromResult, FromClone, FromGit, FromBuild, FromMounts
  <2>4. FailedIsBroken' /\ MountsWhole' /\ ImageBuilt' /\ RepoWhole' /\ HelperTakenBack' /\ ResultWritten' /\ Profiled' /\ EnvPatched' /\ KeysWritten' /\ MarkedHooksRan' /\ PastHooksRan' /\ DaemonOnce'
    BY <1>c, <2>1, HookFacts DEF SetupInv, FailedIsBroken, MountsWhole, Streams, ImageBuilt, RepoWhole,
        HelperTakenBack, ResultWritten, Profiled, EnvPatched, KeysWritten, MarkedHooksRan, MarkedHookRan,
        PastHooksRan, PastHookRan, DaemonOnce, FromDaemon, FromHook5, FromHook4, FromHook3, FromHook2,
        FromHook1, FromKeys, FromProfile, FromEnv, FromChown, FromResult, FromClone, FromGit, FromBuild,
        FromMounts
  <2> QED BY <2>1, <2>2, <2>3, <2>4 DEF SetupInv, StepAt, InfoKept, BeforeBuild
<1>9. ASSUME PatchEtcEnvironment PROVE SetupInv' /\ StepAt
  <2>1. /\ setup = "env"
        /\ \/ setup' = "envFlags" /\ fs' = fs /\ fs.marker["env"] # NoMarker /\ fs.marker["env"] = {setupInfo.env}
           \/ setup' = "envWork" /\ fs'.marker["env"] = {setupInfo.env}
        /\ \A k \in Markers : k # "env" => fs'.marker[k] = fs.marker[k]
        /\ fs' \in Files
        /\ fs'.mount = fs.mount /\ fs'.built = fs.built /\ fs'.context = fs.context /\ fs'.logged = fs.logged /\ fs'.repo = fs.repo /\ fs'.helpers = fs.helpers /\ fs'.keys = fs.keys /\ fs'.applied = fs.applied
        /\ UNCHANGED <<setupInfo, run, procs, ran, broken>>
    BY <1>9, <1>t, <1>i, HookFacts DEF PatchEtcEnvironment, Guarded, MarkerFileExists, SetupGoto,
        Contents, SetupTypeOK, Files, Runs
  <2>2. SetupTypeOK'
    BY <1>9, <1>t, <2>1, HookFacts DEF SetupTypeOK, SetupPcs, FromDaemon, FromHook5, FromHook4,
        FromHook3, FromHook2, FromHook1, FromKeys, FromProfile, FromEnv, FromChown, FromResult,
        FromClone, FromGit, FromBuild, FromMounts
  <2>3. EnvPatched'
    BY ZenonT(60), <1>t, <1>c, <1>i, <2>1, HookFacts DEF SetupInv, EnvPatched, SetupTypeOK, FromDaemon, FromHook5,
        FromHook4, FromHook3, FromHook2, FromHook1, FromKeys, FromProfile, FromEnv, FromChown,
        FromResult, FromClone, FromGit, FromBuild, FromMounts
  <2>4. FailedIsBroken' /\ MountsWhole' /\ ImageBuilt' /\ RepoWhole' /\ HelperTakenBack' /\ ResultWritten' /\ Chowned' /\ Profiled' /\ KeysWritten' /\ MarkedHooksRan' /\ PastHooksRan' /\ DaemonOnce'
    BY <1>c, <2>1, HookFacts DEF SetupInv, FailedIsBroken, MountsWhole, Streams, ImageBuilt, RepoWhole,
        HelperTakenBack, ResultWritten, Chowned, Profiled, KeysWritten, MarkedHooksRan, MarkedHookRan,
        PastHooksRan, PastHookRan, DaemonOnce, FromDaemon, FromHook5, FromHook4, FromHook3, FromHook2,
        FromHook1, FromKeys, FromProfile, FromEnv, FromChown, FromResult, FromClone, FromGit, FromBuild,
        FromMounts
  <2> QED BY <2>1, <2>2, <2>3, <2>4 DEF SetupInv, StepAt, InfoKept, BeforeBuild
<1>10. ASSUME PatchEtcEnvironmentFlags PROVE SetupInv' /\ StepAt
  <2>1. /\ setup = "envFlags"
        /\ \/ setup' = "profile" /\ fs' = fs /\ fs.marker["envFlags"] # NoMarker /\ fs.marker["envFlags"] = {setupInfo.env}
           \/ setup' = "envFlagsWork" /\ fs'.marker["envFlags"] = {setupInfo.env}
        /\ \A k \in Markers : k # "envFlags" => fs'.marker[k] = fs.marker[k]
        /\ fs' \in Files
        /\ fs'.mount = fs.mount /\ fs'.built = fs.built /\ fs'.context = fs.context /\ fs'.logged = fs.logged /\ fs'.repo = fs.repo /\ fs'.helpers = fs.helpers /\ fs'.keys = fs.keys /\ fs'.applied = fs.applied
        /\ UNCHANGED <<setupInfo, run, procs, ran, broken>>
    BY <1>10, <1>t, <1>i, HookFacts DEF PatchEtcEnvironmentFlags, Guarded, MarkerFileExists, SetupGoto,
        Contents, SetupTypeOK, Files, Runs
  <2>2. SetupTypeOK'
    BY <1>10, <1>t, <2>1, HookFacts DEF SetupTypeOK, SetupPcs, FromDaemon, FromHook5, FromHook4,
        FromHook3, FromHook2, FromHook1, FromKeys, FromProfile, FromEnv, FromChown, FromResult,
        FromClone, FromGit, FromBuild, FromMounts
  <2>3. FailedIsBroken' /\ MountsWhole' /\ ImageBuilt' /\ RepoWhole' /\ HelperTakenBack' /\ ResultWritten' /\ Chowned' /\ Profiled' /\ EnvPatched' /\ KeysWritten' /\ MarkedHooksRan' /\ PastHooksRan' /\ DaemonOnce'
    BY <1>c, <2>1, HookFacts DEF SetupInv, FailedIsBroken, MountsWhole, Streams, ImageBuilt, RepoWhole,
        HelperTakenBack, ResultWritten, Chowned, Profiled, EnvPatched, KeysWritten, MarkedHooksRan,
        MarkedHookRan, PastHooksRan, PastHookRan, DaemonOnce, FromDaemon, FromHook5, FromHook4,
        FromHook3, FromHook2, FromHook1, FromKeys, FromProfile, FromEnv, FromChown, FromResult,
        FromClone, FromGit, FromBuild, FromMounts
  <2> QED BY <2>1, <2>2, <2>3 DEF SetupInv, StepAt, InfoKept, BeforeBuild
<1>11. ASSUME PatchEtcProfile PROVE SetupInv' /\ StepAt
  <2>1. /\ setup = "profile"
        /\ \/ setup' = "sock" /\ fs' = fs /\ fs.marker["profile"] # NoMarker
           \/ setup' = "profileWork" /\ fs'.marker["profile"] = {}
        /\ \A k \in Markers : k # "profile" => fs'.marker[k] = fs.marker[k]
        /\ fs' \in Files
        /\ fs'.mount = fs.mount /\ fs'.built = fs.built /\ fs'.context = fs.context /\ fs'.logged = fs.logged /\ fs'.repo = fs.repo /\ fs'.helpers = fs.helpers /\ fs'.keys = fs.keys /\ fs'.applied = fs.applied
        /\ UNCHANGED <<setupInfo, run, procs, ran, broken>>
    BY <1>11, <1>t, <1>i, HookFacts DEF PatchEtcProfile, Guarded, MarkerFileExists, SetupGoto, Contents,
        SetupTypeOK, Files, Runs
  <2>2. SetupTypeOK'
    BY <1>11, <1>t, <2>1, HookFacts DEF SetupTypeOK, SetupPcs, FromDaemon, FromHook5, FromHook4,
        FromHook3, FromHook2, FromHook1, FromKeys, FromProfile, FromEnv, FromChown, FromResult,
        FromClone, FromGit, FromBuild, FromMounts
  <2>3. Profiled'
    BY <1>t, <1>c, <1>i, <2>1, HookFacts DEF SetupInv, Profiled, SetupTypeOK, FromDaemon, FromHook5,
        FromHook4, FromHook3, FromHook2, FromHook1, FromKeys, FromProfile, FromEnv, FromChown,
        FromResult, FromClone, FromGit, FromBuild, FromMounts
  <2>4. FailedIsBroken' /\ MountsWhole' /\ ImageBuilt' /\ RepoWhole' /\ HelperTakenBack' /\ ResultWritten' /\ Chowned' /\ EnvPatched' /\ KeysWritten' /\ MarkedHooksRan' /\ PastHooksRan' /\ DaemonOnce'
    BY <1>c, <2>1, HookFacts DEF SetupInv, FailedIsBroken, MountsWhole, Streams, ImageBuilt, RepoWhole,
        HelperTakenBack, ResultWritten, Chowned, EnvPatched, KeysWritten, MarkedHooksRan, MarkedHookRan,
        PastHooksRan, PastHookRan, DaemonOnce, FromDaemon, FromHook5, FromHook4, FromHook3, FromHook2,
        FromHook1, FromKeys, FromProfile, FromEnv, FromChown, FromResult, FromClone, FromGit, FromBuild,
        FromMounts
  <2> QED BY <2>1, <2>2, <2>3, <2>4 DEF SetupInv, StepAt, InfoKept, BeforeBuild
<1>12. ASSUME GuardedWork, setup = "chownWork" PROVE SetupInv' /\ StepAt
  <2>a. fs.applied \cup {"chown"} \in SUBSET Works /\ fs \in Files
    BY <1>12, <1>t, <1>i DEF SetupTypeOK, Files, Works
  <2>b. setup' = "env" /\ fs' = [fs EXCEPT !.applied = fs.applied \cup {"chown"}] /\ UNCHANGED <<setupInfo, run, procs, ran, broken>>
    BY <1>12, GuardedWorkMeans
  <2>1. /\ setup = "chownWork" /\ setup' = "env"
        /\ fs'.applied = fs.applied \cup {"chown"}
        /\ fs' \in Files
        /\ fs'.mount = fs.mount /\ fs'.built = fs.built /\ fs'.context = fs.context /\ fs'.logged = fs.logged /\ fs'.repo = fs.repo /\ fs'.helpers = fs.helpers /\ fs'.keys = fs.keys /\ fs'.marker = fs.marker
        /\ UNCHANGED <<setupInfo, run, procs, ran, broken>>
    BY <1>12, <2>a, <2>b DEF Files
  <2>2. SetupTypeOK'
    BY <1>12, <1>t, <2>1, HookFacts DEF SetupTypeOK, SetupPcs, FromDaemon, FromHook5, FromHook4,
        FromHook3, FromHook2, FromHook1, FromKeys, FromProfile, FromEnv, FromChown, FromResult,
        FromClone, FromGit, FromBuild, FromMounts
  <2>3. Chowned'
    BY <1>t, <1>c, <1>i, <2>1, HookFacts DEF SetupInv, Chowned, SetupTypeOK, FromDaemon, FromHook5,
        FromHook4, FromHook3, FromHook2, FromHook1, FromKeys, FromProfile, FromEnv, FromChown,
        FromResult, FromClone, FromGit, FromBuild, FromMounts
  <2>4. FailedIsBroken' /\ MountsWhole' /\ ImageBuilt' /\ RepoWhole' /\ HelperTakenBack' /\ ResultWritten' /\ Profiled' /\ EnvPatched' /\ KeysWritten' /\ MarkedHooksRan' /\ PastHooksRan' /\ DaemonOnce'
    BY <1>c, <2>1, HookFacts DEF SetupInv, FailedIsBroken, MountsWhole, Streams, ImageBuilt, RepoWhole,
        HelperTakenBack, ResultWritten, Profiled, EnvPatched, KeysWritten, MarkedHooksRan, MarkedHookRan,
        PastHooksRan, PastHookRan, DaemonOnce, FromDaemon, FromHook5, FromHook4, FromHook3, FromHook2,
        FromHook1, FromKeys, FromProfile, FromEnv, FromChown, FromResult, FromClone, FromGit, FromBuild,
        FromMounts
  <2> QED BY <2>1, <2>2, <2>3, <2>4 DEF SetupInv, StepAt, InfoKept, BeforeBuild
<1>13. ASSUME GuardedWork, setup = "envWork" PROVE SetupInv' /\ StepAt
  <2>a. fs.applied \cup {setupInfo.env} \in SUBSET Works /\ fs \in Files
    BY <1>13, <1>t, <1>i DEF SetupTypeOK, Files, Works
  <2>b. setup' = "envFlags" /\ fs' = [fs EXCEPT !.applied = fs.applied \cup {setupInfo.env}] /\ UNCHANGED <<setupInfo, run, procs, ran, broken>>
    BY <1>13, GuardedWorkMeans
  <2>1. /\ setup = "envWork" /\ setup' = "envFlags"
        /\ fs'.applied = fs.applied \cup {setupInfo.env}
        /\ fs' \in Files
        /\ fs'.mount = fs.mount /\ fs'.built = fs.built /\ fs'.context = fs.context /\ fs'.logged = fs.logged /\ fs'.repo = fs.repo /\ fs'.helpers = fs.helpers /\ fs'.keys = fs.keys /\ fs'.marker = fs.marker
        /\ UNCHANGED <<setupInfo, run, procs, ran, broken>>
    BY <1>13, <2>a, <2>b DEF Files
  <2>2. SetupTypeOK'
    BY <1>13, <1>t, <2>1, HookFacts DEF SetupTypeOK, SetupPcs, FromDaemon, FromHook5, FromHook4,
        FromHook3, FromHook2, FromHook1, FromKeys, FromProfile, FromEnv, FromChown, FromResult,
        FromClone, FromGit, FromBuild, FromMounts
  <2>3. EnvPatched'
    BY <1>t, <1>c, <1>i, <2>1, HookFacts DEF SetupInv, EnvPatched, SetupTypeOK, FromDaemon, FromHook5,
        FromHook4, FromHook3, FromHook2, FromHook1, FromKeys, FromProfile, FromEnv, FromChown,
        FromResult, FromClone, FromGit, FromBuild, FromMounts
  <2>4. FailedIsBroken' /\ MountsWhole' /\ ImageBuilt' /\ RepoWhole' /\ HelperTakenBack' /\ ResultWritten' /\ Chowned' /\ Profiled' /\ KeysWritten' /\ MarkedHooksRan' /\ PastHooksRan' /\ DaemonOnce'
    BY <1>c, <2>1, HookFacts DEF SetupInv, FailedIsBroken, MountsWhole, Streams, ImageBuilt, RepoWhole,
        HelperTakenBack, ResultWritten, Chowned, Profiled, KeysWritten, MarkedHooksRan, MarkedHookRan,
        PastHooksRan, PastHookRan, DaemonOnce, FromDaemon, FromHook5, FromHook4, FromHook3, FromHook2,
        FromHook1, FromKeys, FromProfile, FromEnv, FromChown, FromResult, FromClone, FromGit, FromBuild,
        FromMounts
  <2> QED BY <2>1, <2>2, <2>3, <2>4 DEF SetupInv, StepAt, InfoKept, BeforeBuild
<1>14. ASSUME GuardedWork, setup = "envFlagsWork" PROVE SetupInv' /\ StepAt
  <2>a. fs.applied \cup {setupInfo.env} \in SUBSET Works /\ fs \in Files
    BY <1>14, <1>t, <1>i DEF SetupTypeOK, Files, Works
  <2>b. setup' = "profile" /\ fs' = [fs EXCEPT !.applied = fs.applied \cup {setupInfo.env}] /\ UNCHANGED <<setupInfo, run, procs, ran, broken>>
    BY <1>14, GuardedWorkMeans
  <2>1. /\ setup = "envFlagsWork" /\ setup' = "profile"
        /\ fs'.applied = fs.applied \cup {setupInfo.env}
        /\ fs' \in Files
        /\ fs'.mount = fs.mount /\ fs'.built = fs.built /\ fs'.context = fs.context /\ fs'.logged = fs.logged /\ fs'.repo = fs.repo /\ fs'.helpers = fs.helpers /\ fs'.keys = fs.keys /\ fs'.marker = fs.marker
        /\ UNCHANGED <<setupInfo, run, procs, ran, broken>>
    BY <1>14, <2>a, <2>b DEF Files
  <2>2. SetupTypeOK'
    BY <1>14, <1>t, <2>1, HookFacts DEF SetupTypeOK, SetupPcs, FromDaemon, FromHook5, FromHook4,
        FromHook3, FromHook2, FromHook1, FromKeys, FromProfile, FromEnv, FromChown, FromResult,
        FromClone, FromGit, FromBuild, FromMounts
  <2>3. FailedIsBroken' /\ MountsWhole' /\ ImageBuilt' /\ RepoWhole' /\ HelperTakenBack' /\ ResultWritten' /\ Chowned' /\ Profiled' /\ EnvPatched' /\ KeysWritten' /\ MarkedHooksRan' /\ PastHooksRan' /\ DaemonOnce'
    BY <1>c, <2>1, HookFacts DEF SetupInv, FailedIsBroken, MountsWhole, Streams, ImageBuilt, RepoWhole,
        HelperTakenBack, ResultWritten, Chowned, Profiled, EnvPatched, KeysWritten, MarkedHooksRan,
        MarkedHookRan, PastHooksRan, PastHookRan, DaemonOnce, FromDaemon, FromHook5, FromHook4,
        FromHook3, FromHook2, FromHook1, FromKeys, FromProfile, FromEnv, FromChown, FromResult,
        FromClone, FromGit, FromBuild, FromMounts
  <2> QED BY <2>1, <2>2, <2>3 DEF SetupInv, StepAt, InfoKept, BeforeBuild
<1>15. ASSUME GuardedWork, setup = "profileWork" PROVE SetupInv' /\ StepAt
  <2>a. fs.applied \cup {"profile"} \in SUBSET Works /\ fs \in Files
    BY <1>15, <1>t, <1>i DEF SetupTypeOK, Files, Works
  <2>b. setup' = "sock" /\ fs' = [fs EXCEPT !.applied = fs.applied \cup {"profile"}] /\ UNCHANGED <<setupInfo, run, procs, ran, broken>>
    BY <1>15, GuardedWorkMeans
  <2>1. /\ setup = "profileWork" /\ setup' = "sock"
        /\ fs'.applied = fs.applied \cup {"profile"}
        /\ fs' \in Files
        /\ fs'.mount = fs.mount /\ fs'.built = fs.built /\ fs'.context = fs.context /\ fs'.logged = fs.logged /\ fs'.repo = fs.repo /\ fs'.helpers = fs.helpers /\ fs'.keys = fs.keys /\ fs'.marker = fs.marker
        /\ UNCHANGED <<setupInfo, run, procs, ran, broken>>
    BY <1>15, <2>a, <2>b DEF Files
  <2>2. SetupTypeOK'
    BY <1>15, <1>t, <2>1, HookFacts DEF SetupTypeOK, SetupPcs, FromDaemon, FromHook5, FromHook4,
        FromHook3, FromHook2, FromHook1, FromKeys, FromProfile, FromEnv, FromChown, FromResult,
        FromClone, FromGit, FromBuild, FromMounts
  <2>3. Profiled'
    BY <1>t, <1>c, <1>i, <2>1, HookFacts DEF SetupInv, Profiled, SetupTypeOK, FromDaemon, FromHook5,
        FromHook4, FromHook3, FromHook2, FromHook1, FromKeys, FromProfile, FromEnv, FromChown,
        FromResult, FromClone, FromGit, FromBuild, FromMounts
  <2>4. FailedIsBroken' /\ MountsWhole' /\ ImageBuilt' /\ RepoWhole' /\ HelperTakenBack' /\ ResultWritten' /\ Chowned' /\ EnvPatched' /\ KeysWritten' /\ MarkedHooksRan' /\ PastHooksRan' /\ DaemonOnce'
    BY <1>c, <2>1, HookFacts DEF SetupInv, FailedIsBroken, MountsWhole, Streams, ImageBuilt, RepoWhole,
        HelperTakenBack, ResultWritten, Chowned, EnvPatched, KeysWritten, MarkedHooksRan, MarkedHookRan,
        PastHooksRan, PastHookRan, DaemonOnce, FromDaemon, FromHook5, FromHook4, FromHook3, FromHook2,
        FromHook1, FromKeys, FromProfile, FromEnv, FromChown, FromResult, FromClone, FromGit, FromBuild,
        FromMounts
  <2> QED BY <2>1, <2>2, <2>3, <2>4 DEF SetupInv, StepAt, InfoKept, BeforeBuild
<1>16. ASSUME ChownAgentSock PROVE SetupInv' /\ StepAt
  <2>1. /\ setup = "sock" /\ setup' = "kube"
        /\ UNCHANGED <<setupInfo, run, fs, procs, ran, broken>>
    BY <1>16, <1>t, HookFacts DEF ChownAgentSock, SetupGoto, SetupTypeOK, Files, Runs
  <2>2. SetupTypeOK'
    BY <1>16, <1>t, <2>1, HookFacts DEF SetupTypeOK, SetupPcs, FromDaemon, FromHook5, FromHook4,
        FromHook3, FromHook2, FromHook1, FromKeys, FromProfile, FromEnv, FromChown, FromResult,
        FromClone, FromGit, FromBuild, FromMounts
  <2>3. FailedIsBroken' /\ MountsWhole' /\ ImageBuilt' /\ RepoWhole' /\ HelperTakenBack' /\ ResultWritten' /\ Chowned' /\ Profiled' /\ EnvPatched' /\ KeysWritten' /\ MarkedHooksRan' /\ PastHooksRan' /\ DaemonOnce'
    BY <1>c, <2>1, HookFacts DEF SetupInv, FailedIsBroken, MountsWhole, Streams, ImageBuilt, RepoWhole,
        HelperTakenBack, ResultWritten, Chowned, Profiled, EnvPatched, KeysWritten, MarkedHooksRan,
        MarkedHookRan, PastHooksRan, PastHookRan, DaemonOnce, FromDaemon, FromHook5, FromHook4,
        FromHook3, FromHook2, FromHook1, FromKeys, FromProfile, FromEnv, FromChown, FromResult,
        FromClone, FromGit, FromBuild, FromMounts
  <2> QED BY <2>1, <2>2, <2>3 DEF SetupInv, StepAt, InfoKept, BeforeBuild
<1>17. ASSUME SetupKubeConfig PROVE SetupInv' /\ StepAt
  <2>1. /\ setup = "kube" /\ setup' = "keys"
        /\ \A k \in Markers : k # "kube" => fs'.marker[k] = fs.marker[k]
        /\ fs' \in Files
        /\ fs'.mount = fs.mount /\ fs'.built = fs.built /\ fs'.context = fs.context /\ fs'.logged = fs.logged /\ fs'.repo = fs.repo /\ fs'.helpers = fs.helpers /\ fs'.keys = fs.keys /\ fs'.applied = fs.applied
        /\ UNCHANGED <<setupInfo, run, procs, ran, broken>>
    BY <1>17, <1>t, HookFacts DEF SetupKubeConfig, SetupGoto, Contents, SetupTypeOK, Files, Runs
  <2>2. SetupTypeOK'
    BY <1>17, <1>t, <2>1, HookFacts DEF SetupTypeOK, SetupPcs, FromDaemon, FromHook5, FromHook4,
        FromHook3, FromHook2, FromHook1, FromKeys, FromProfile, FromEnv, FromChown, FromResult,
        FromClone, FromGit, FromBuild, FromMounts
  <2>3. FailedIsBroken' /\ MountsWhole' /\ ImageBuilt' /\ RepoWhole' /\ HelperTakenBack' /\ ResultWritten' /\ Chowned' /\ Profiled' /\ EnvPatched' /\ KeysWritten' /\ MarkedHooksRan' /\ PastHooksRan' /\ DaemonOnce'
    BY <1>c, <2>1, HookFacts DEF SetupInv, FailedIsBroken, MountsWhole, Streams, ImageBuilt, RepoWhole,
        HelperTakenBack, ResultWritten, Chowned, Profiled, EnvPatched, KeysWritten, MarkedHooksRan,
        MarkedHookRan, PastHooksRan, PastHookRan, DaemonOnce, FromDaemon, FromHook5, FromHook4,
        FromHook3, FromHook2, FromHook1, FromKeys, FromProfile, FromEnv, FromChown, FromResult,
        FromClone, FromGit, FromBuild, FromMounts
  <2> QED BY <2>1, <2>2, <2>3 DEF SetupInv, StepAt, InfoKept, BeforeBuild
<1>18. ASSUME SetupPlatformGitSSHKeys PROVE SetupInv' /\ StepAt
  <2>1. /\ setup = "keys" /\ setup' = "hook1"
        /\ 0..(setupInfo.keys - 1) \subseteq fs'.keys
        /\ fs' \in Files
        /\ fs'.mount = fs.mount /\ fs'.built = fs.built /\ fs'.context = fs.context /\ fs'.logged = fs.logged /\ fs'.repo = fs.repo /\ fs'.helpers = fs.helpers /\ fs'.applied = fs.applied /\ fs'.marker = fs.marker
        /\ UNCHANGED <<setupInfo, run, procs, ran, broken>>
    BY <1>18, <1>t, <1>i, HookFacts DEF SetupPlatformGitSSHKeys, NewKeys, SetupGoto, SetupTypeOK, Files, Runs
  <2>2. SetupTypeOK'
    BY <1>18, <1>t, <2>1, HookFacts DEF SetupTypeOK, SetupPcs, FromDaemon, FromHook5, FromHook4,
        FromHook3, FromHook2, FromHook1, FromKeys, FromProfile, FromEnv, FromChown, FromResult,
        FromClone, FromGit, FromBuild, FromMounts
  <2>3. KeysWritten'
    BY <1>t, <1>c, <1>i, <2>1, HookFacts DEF SetupInv, KeysWritten, SetupTypeOK, FromDaemon, FromHook5,
        FromHook4, FromHook3, FromHook2, FromHook1, FromKeys, FromProfile, FromEnv, FromChown,
        FromResult, FromClone, FromGit, FromBuild, FromMounts
  <2>4. FailedIsBroken' /\ MountsWhole' /\ ImageBuilt' /\ RepoWhole' /\ HelperTakenBack' /\ ResultWritten' /\ Chowned' /\ Profiled' /\ EnvPatched' /\ MarkedHooksRan' /\ PastHooksRan' /\ DaemonOnce'
    BY <1>c, <2>1, HookFacts DEF SetupInv, FailedIsBroken, MountsWhole, Streams, ImageBuilt, RepoWhole,
        HelperTakenBack, ResultWritten, Chowned, Profiled, EnvPatched, MarkedHooksRan, MarkedHookRan,
        PastHooksRan, PastHookRan, DaemonOnce, FromDaemon, FromHook5, FromHook4, FromHook3, FromHook2,
        FromHook1, FromKeys, FromProfile, FromEnv, FromChown, FromResult, FromClone, FromGit, FromBuild,
        FromMounts
  <2> QED BY <2>1, <2>2, <2>3, <2>4 DEF SetupInv, StepAt, InfoKept, BeforeBuild
<1>19. ASSUME RunHook(1) PROVE SetupInv' /\ StepAt
  <2>1. /\ setup = "hook1"
        /\ \/ setup' = "hook2" /\ fs' = fs /\ ("onCreate" \in setupInfo.hooks => fs.marker["onCreate"] # NoMarker)
           \/ setup' = "hook1Work"
        /\ \A k \in Markers : k # "onCreate" => fs'.marker[k] = fs.marker[k]
        /\ fs' \in Files
        /\ fs'.mount = fs.mount /\ fs'.built = fs.built /\ fs'.context = fs.context /\ fs'.logged = fs.logged /\ fs'.repo = fs.repo /\ fs'.helpers = fs.helpers /\ fs'.keys = fs.keys /\ fs'.applied = fs.applied
        /\ UNCHANGED <<setupInfo, run, procs, ran, broken>>
    BY <1>19, <1>t, <1>i, HookFacts DEF RunHook, Guarded, HookContent, MarkerFileExists, SetupGoto,
        Contents, SetupTypeOK, Files, Runs
  <2>2. SetupTypeOK'
    BY <1>19, <1>t, <2>1, HookFacts DEF SetupTypeOK, SetupPcs, FromDaemon, FromHook5, FromHook4,
        FromHook3, FromHook2, FromHook1, FromKeys, FromProfile, FromEnv, FromChown, FromResult,
        FromClone, FromGit, FromBuild, FromMounts
  <2>3. MarkedHooksRan'
    BY <1>t, <1>c, <1>i, <2>1, HookFacts DEF SetupInv, MarkedHooksRan, MarkedHookRan, SetupTypeOK,
        FromDaemon, FromHook5, FromHook4, FromHook3, FromHook2, FromHook1, FromKeys, FromProfile,
        FromEnv, FromChown, FromResult, FromClone, FromGit, FromBuild, FromMounts
  <2>4. PastHooksRan'
    BY <1>t, <1>c, <1>i, <2>1, HookFacts DEF SetupInv, PastHooksRan, PastHookRan, MarkedHooksRan,
        MarkedHookRan, SetupTypeOK, FromDaemon, FromHook5, FromHook4, FromHook3, FromHook2, FromHook1,
        FromKeys, FromProfile, FromEnv, FromChown, FromResult, FromClone, FromGit, FromBuild, FromMounts
  <2>5. FailedIsBroken' /\ MountsWhole' /\ ImageBuilt' /\ RepoWhole' /\ HelperTakenBack' /\ ResultWritten' /\ Chowned' /\ Profiled' /\ EnvPatched' /\ KeysWritten' /\ DaemonOnce'
    BY <1>c, <2>1, HookFacts DEF SetupInv, FailedIsBroken, MountsWhole, Streams, ImageBuilt, RepoWhole,
        HelperTakenBack, ResultWritten, Chowned, Profiled, EnvPatched, KeysWritten, DaemonOnce,
        FromDaemon, FromHook5, FromHook4, FromHook3, FromHook2, FromHook1, FromKeys, FromProfile,
        FromEnv, FromChown, FromResult, FromClone, FromGit, FromBuild, FromMounts
  <2> QED BY <2>1, <2>2, <2>3, <2>4, <2>5 DEF SetupInv, StepAt, InfoKept, BeforeBuild
<1>20. ASSUME RunHook(2) PROVE SetupInv' /\ StepAt
  <2>1. /\ setup = "hook2"
        /\ \/ setup' = "hook3" /\ fs' = fs /\ ("updateContent" \in setupInfo.hooks => fs.marker["updateContent"] # NoMarker)
           \/ setup' = "hook2Work"
        /\ \A k \in Markers : k # "updateContent" => fs'.marker[k] = fs.marker[k]
        /\ fs' \in Files
        /\ fs'.mount = fs.mount /\ fs'.built = fs.built /\ fs'.context = fs.context /\ fs'.logged = fs.logged /\ fs'.repo = fs.repo /\ fs'.helpers = fs.helpers /\ fs'.keys = fs.keys /\ fs'.applied = fs.applied
        /\ UNCHANGED <<setupInfo, run, procs, ran, broken>>
    BY <1>20, <1>t, <1>i, HookFacts DEF RunHook, Guarded, HookContent, MarkerFileExists, SetupGoto,
        Contents, SetupTypeOK, Files, Runs
  <2>2. SetupTypeOK'
    BY <1>20, <1>t, <2>1, HookFacts DEF SetupTypeOK, SetupPcs, FromDaemon, FromHook5, FromHook4,
        FromHook3, FromHook2, FromHook1, FromKeys, FromProfile, FromEnv, FromChown, FromResult,
        FromClone, FromGit, FromBuild, FromMounts
  <2>3. MarkedHooksRan'
    BY <1>t, <1>c, <1>i, <2>1, HookFacts DEF SetupInv, MarkedHooksRan, MarkedHookRan, SetupTypeOK,
        FromDaemon, FromHook5, FromHook4, FromHook3, FromHook2, FromHook1, FromKeys, FromProfile,
        FromEnv, FromChown, FromResult, FromClone, FromGit, FromBuild, FromMounts
  <2>4. PastHooksRan'
    BY <1>t, <1>c, <1>i, <2>1, HookFacts DEF SetupInv, PastHooksRan, PastHookRan, MarkedHooksRan,
        MarkedHookRan, SetupTypeOK, FromDaemon, FromHook5, FromHook4, FromHook3, FromHook2, FromHook1,
        FromKeys, FromProfile, FromEnv, FromChown, FromResult, FromClone, FromGit, FromBuild, FromMounts
  <2>5. FailedIsBroken' /\ MountsWhole' /\ ImageBuilt' /\ RepoWhole' /\ HelperTakenBack' /\ ResultWritten' /\ Chowned' /\ Profiled' /\ EnvPatched' /\ KeysWritten' /\ DaemonOnce'
    BY <1>c, <2>1, HookFacts DEF SetupInv, FailedIsBroken, MountsWhole, Streams, ImageBuilt, RepoWhole,
        HelperTakenBack, ResultWritten, Chowned, Profiled, EnvPatched, KeysWritten, DaemonOnce,
        FromDaemon, FromHook5, FromHook4, FromHook3, FromHook2, FromHook1, FromKeys, FromProfile,
        FromEnv, FromChown, FromResult, FromClone, FromGit, FromBuild, FromMounts
  <2> QED BY <2>1, <2>2, <2>3, <2>4, <2>5 DEF SetupInv, StepAt, InfoKept, BeforeBuild
<1>21. ASSUME RunHook(3) PROVE SetupInv' /\ StepAt
  <2>1. /\ setup = "hook3"
        /\ \/ setup' = "hook4" /\ fs' = fs /\ ("postCreate" \in setupInfo.hooks => fs.marker["postCreate"] # NoMarker)
           \/ setup' = "hook3Work"
        /\ \A k \in Markers : k # "postCreate" => fs'.marker[k] = fs.marker[k]
        /\ fs' \in Files
        /\ fs'.mount = fs.mount /\ fs'.built = fs.built /\ fs'.context = fs.context /\ fs'.logged = fs.logged /\ fs'.repo = fs.repo /\ fs'.helpers = fs.helpers /\ fs'.keys = fs.keys /\ fs'.applied = fs.applied
        /\ UNCHANGED <<setupInfo, run, procs, ran, broken>>
    BY <1>21, <1>t, <1>i, HookFacts DEF RunHook, Guarded, HookContent, MarkerFileExists, SetupGoto,
        Contents, SetupTypeOK, Files, Runs
  <2>2. SetupTypeOK'
    BY <1>21, <1>t, <2>1, HookFacts DEF SetupTypeOK, SetupPcs, FromDaemon, FromHook5, FromHook4,
        FromHook3, FromHook2, FromHook1, FromKeys, FromProfile, FromEnv, FromChown, FromResult,
        FromClone, FromGit, FromBuild, FromMounts
  <2>3. MarkedHooksRan'
    BY <1>t, <1>c, <1>i, <2>1, HookFacts DEF SetupInv, MarkedHooksRan, MarkedHookRan, SetupTypeOK,
        FromDaemon, FromHook5, FromHook4, FromHook3, FromHook2, FromHook1, FromKeys, FromProfile,
        FromEnv, FromChown, FromResult, FromClone, FromGit, FromBuild, FromMounts
  <2>4. PastHooksRan'
    BY <1>t, <1>c, <1>i, <2>1, HookFacts DEF SetupInv, PastHooksRan, PastHookRan, MarkedHooksRan,
        MarkedHookRan, SetupTypeOK, FromDaemon, FromHook5, FromHook4, FromHook3, FromHook2, FromHook1,
        FromKeys, FromProfile, FromEnv, FromChown, FromResult, FromClone, FromGit, FromBuild, FromMounts
  <2>5. FailedIsBroken' /\ MountsWhole' /\ ImageBuilt' /\ RepoWhole' /\ HelperTakenBack' /\ ResultWritten' /\ Chowned' /\ Profiled' /\ EnvPatched' /\ KeysWritten' /\ DaemonOnce'
    BY <1>c, <2>1, HookFacts DEF SetupInv, FailedIsBroken, MountsWhole, Streams, ImageBuilt, RepoWhole,
        HelperTakenBack, ResultWritten, Chowned, Profiled, EnvPatched, KeysWritten, DaemonOnce,
        FromDaemon, FromHook5, FromHook4, FromHook3, FromHook2, FromHook1, FromKeys, FromProfile,
        FromEnv, FromChown, FromResult, FromClone, FromGit, FromBuild, FromMounts
  <2> QED BY <2>1, <2>2, <2>3, <2>4, <2>5 DEF SetupInv, StepAt, InfoKept, BeforeBuild
<1>22. ASSUME RunHook(4) PROVE SetupInv' /\ StepAt
  <2>1. /\ setup = "hook4"
        /\ \/ setup' = "hook5" /\ fs' = fs /\ ("postStart" \in setupInfo.hooks => fs.marker["postStart"] # NoMarker)
           \/ setup' = "hook4Work"
        /\ \A k \in Markers : k # "postStart" => fs'.marker[k] = fs.marker[k]
        /\ fs' \in Files
        /\ fs'.mount = fs.mount /\ fs'.built = fs.built /\ fs'.context = fs.context /\ fs'.logged = fs.logged /\ fs'.repo = fs.repo /\ fs'.helpers = fs.helpers /\ fs'.keys = fs.keys /\ fs'.applied = fs.applied
        /\ UNCHANGED <<setupInfo, run, procs, ran, broken>>
    BY <1>22, <1>t, <1>i, HookFacts DEF RunHook, Guarded, HookContent, MarkerFileExists, SetupGoto,
        Contents, SetupTypeOK, Files, Runs
  <2>2. SetupTypeOK'
    BY <1>22, <1>t, <2>1, HookFacts DEF SetupTypeOK, SetupPcs, FromDaemon, FromHook5, FromHook4,
        FromHook3, FromHook2, FromHook1, FromKeys, FromProfile, FromEnv, FromChown, FromResult,
        FromClone, FromGit, FromBuild, FromMounts
  <2>3. FailedIsBroken' /\ MountsWhole' /\ ImageBuilt' /\ RepoWhole' /\ HelperTakenBack' /\ ResultWritten' /\ Chowned' /\ Profiled' /\ EnvPatched' /\ KeysWritten' /\ MarkedHooksRan' /\ PastHooksRan' /\ DaemonOnce'
    BY <1>c, <2>1, HookFacts DEF SetupInv, FailedIsBroken, MountsWhole, Streams, ImageBuilt, RepoWhole,
        HelperTakenBack, ResultWritten, Chowned, Profiled, EnvPatched, KeysWritten, MarkedHooksRan,
        MarkedHookRan, PastHooksRan, PastHookRan, DaemonOnce, FromDaemon, FromHook5, FromHook4,
        FromHook3, FromHook2, FromHook1, FromKeys, FromProfile, FromEnv, FromChown, FromResult,
        FromClone, FromGit, FromBuild, FromMounts
  <2> QED BY <2>1, <2>2, <2>3 DEF SetupInv, StepAt, InfoKept, BeforeBuild
<1>23. ASSUME RunHook(5) PROVE SetupInv' /\ StepAt
  <2>1. /\ setup = "hook5"
        /\ setup' = "hook5Work" \/ (setup' = "ide" /\ "postAttach" \notin setupInfo.hooks)
        /\ UNCHANGED <<setupInfo, run, fs, procs, ran, broken>>
    BY <1>23, <1>t, HookFacts DEF RunHook, SetupGoto, SetupTypeOK, Files, Runs
  <2>2. SetupTypeOK'
    BY <1>23, <1>t, <2>1, HookFacts DEF SetupTypeOK, SetupPcs, FromDaemon, FromHook5, FromHook4,
        FromHook3, FromHook2, FromHook1, FromKeys, FromProfile, FromEnv, FromChown, FromResult,
        FromClone, FromGit, FromBuild, FromMounts
  <2>3. PastHooksRan'
    BY <1>t, <1>c, <1>i, <2>1, HookFacts DEF SetupInv, PastHooksRan, PastHookRan, MarkedHooksRan,
        MarkedHookRan, SetupTypeOK, FromDaemon, FromHook5, FromHook4, FromHook3, FromHook2, FromHook1,
        FromKeys, FromProfile, FromEnv, FromChown, FromResult, FromClone, FromGit, FromBuild, FromMounts
  <2>4. FailedIsBroken' /\ MountsWhole' /\ ImageBuilt' /\ RepoWhole' /\ HelperTakenBack' /\ ResultWritten' /\ Chowned' /\ Profiled' /\ EnvPatched' /\ KeysWritten' /\ MarkedHooksRan' /\ DaemonOnce'
    BY <1>c, <2>1, HookFacts DEF SetupInv, FailedIsBroken, MountsWhole, Streams, ImageBuilt, RepoWhole,
        HelperTakenBack, ResultWritten, Chowned, Profiled, EnvPatched, KeysWritten, MarkedHooksRan,
        MarkedHookRan, DaemonOnce, FromDaemon, FromHook5, FromHook4, FromHook3, FromHook2, FromHook1,
        FromKeys, FromProfile, FromEnv, FromChown, FromResult, FromClone, FromGit, FromBuild, FromMounts
  <2> QED BY <2>1, <2>2, <2>3, <2>4 DEF SetupInv, StepAt, InfoKept, BeforeBuild
<1>24. ASSUME HookEnds(1) PROVE SetupInv' /\ StepAt
  <2>1. /\ setup = "hook1Work" /\ setup' = "hook2"
        /\ ran' \in [HookNames -> Nat] /\ ran'["onCreate"] >= 1 /\ ran'["onCreate"] >= ran["onCreate"]
        /\ \A k \in HookNames : k # "onCreate" => ran'[k] = ran[k]
        /\ UNCHANGED <<setupInfo, run, fs, procs, broken>>
    BY <1>24, <1>t, HookFacts DEF HookEnds, SetupGoto, SetupTypeOK, Files, Runs
  <2>2. SetupTypeOK'
    BY <1>24, <1>t, <2>1, HookFacts DEF SetupTypeOK, SetupPcs, FromDaemon, FromHook5, FromHook4,
        FromHook3, FromHook2, FromHook1, FromKeys, FromProfile, FromEnv, FromChown, FromResult,
        FromClone, FromGit, FromBuild, FromMounts
  <2>3. MarkedHooksRan'
    BY <1>t, <1>c, <1>i, <2>1, HookFacts DEF SetupInv, MarkedHooksRan, MarkedHookRan, SetupTypeOK,
        FromDaemon, FromHook5, FromHook4, FromHook3, FromHook2, FromHook1, FromKeys, FromProfile,
        FromEnv, FromChown, FromResult, FromClone, FromGit, FromBuild, FromMounts
  <2>4. PastHooksRan'
    BY <1>t, <1>c, <1>i, <2>1, HookFacts DEF SetupInv, PastHooksRan, PastHookRan, MarkedHooksRan,
        MarkedHookRan, SetupTypeOK, FromDaemon, FromHook5, FromHook4, FromHook3, FromHook2, FromHook1,
        FromKeys, FromProfile, FromEnv, FromChown, FromResult, FromClone, FromGit, FromBuild, FromMounts
  <2>5. FailedIsBroken' /\ MountsWhole' /\ ImageBuilt' /\ RepoWhole' /\ HelperTakenBack' /\ ResultWritten' /\ Chowned' /\ Profiled' /\ EnvPatched' /\ KeysWritten' /\ DaemonOnce'
    BY <1>c, <2>1, HookFacts DEF SetupInv, FailedIsBroken, MountsWhole, Streams, ImageBuilt, RepoWhole,
        HelperTakenBack, ResultWritten, Chowned, Profiled, EnvPatched, KeysWritten, DaemonOnce,
        FromDaemon, FromHook5, FromHook4, FromHook3, FromHook2, FromHook1, FromKeys, FromProfile,
        FromEnv, FromChown, FromResult, FromClone, FromGit, FromBuild, FromMounts
  <2> QED BY <2>1, <2>2, <2>3, <2>4, <2>5 DEF SetupInv, StepAt, InfoKept, BeforeBuild
<1>25. ASSUME HookEnds(2) PROVE SetupInv' /\ StepAt
  <2>1. /\ setup = "hook2Work" /\ setup' = "hook3"
        /\ ran' \in [HookNames -> Nat] /\ ran'["updateContent"] >= 1 /\ ran'["updateContent"] >= ran["updateContent"]
        /\ \A k \in HookNames : k # "updateContent" => ran'[k] = ran[k]
        /\ UNCHANGED <<setupInfo, run, fs, procs, broken>>
    BY <1>25, <1>t, HookFacts DEF HookEnds, SetupGoto, SetupTypeOK, Files, Runs
  <2>2. SetupTypeOK'
    BY <1>25, <1>t, <2>1, HookFacts DEF SetupTypeOK, SetupPcs, FromDaemon, FromHook5, FromHook4,
        FromHook3, FromHook2, FromHook1, FromKeys, FromProfile, FromEnv, FromChown, FromResult,
        FromClone, FromGit, FromBuild, FromMounts
  <2>3. MarkedHooksRan'
    BY <1>t, <1>c, <1>i, <2>1, HookFacts DEF SetupInv, MarkedHooksRan, MarkedHookRan, SetupTypeOK,
        FromDaemon, FromHook5, FromHook4, FromHook3, FromHook2, FromHook1, FromKeys, FromProfile,
        FromEnv, FromChown, FromResult, FromClone, FromGit, FromBuild, FromMounts
  <2>4. PastHooksRan'
    BY <1>t, <1>c, <1>i, <2>1, HookFacts DEF SetupInv, PastHooksRan, PastHookRan, MarkedHooksRan,
        MarkedHookRan, SetupTypeOK, FromDaemon, FromHook5, FromHook4, FromHook3, FromHook2, FromHook1,
        FromKeys, FromProfile, FromEnv, FromChown, FromResult, FromClone, FromGit, FromBuild, FromMounts
  <2>5. FailedIsBroken' /\ MountsWhole' /\ ImageBuilt' /\ RepoWhole' /\ HelperTakenBack' /\ ResultWritten' /\ Chowned' /\ Profiled' /\ EnvPatched' /\ KeysWritten' /\ DaemonOnce'
    BY <1>c, <2>1, HookFacts DEF SetupInv, FailedIsBroken, MountsWhole, Streams, ImageBuilt, RepoWhole,
        HelperTakenBack, ResultWritten, Chowned, Profiled, EnvPatched, KeysWritten, DaemonOnce,
        FromDaemon, FromHook5, FromHook4, FromHook3, FromHook2, FromHook1, FromKeys, FromProfile,
        FromEnv, FromChown, FromResult, FromClone, FromGit, FromBuild, FromMounts
  <2> QED BY <2>1, <2>2, <2>3, <2>4, <2>5 DEF SetupInv, StepAt, InfoKept, BeforeBuild
<1>26. ASSUME HookEnds(3) PROVE SetupInv' /\ StepAt
  <2>1. /\ setup = "hook3Work" /\ setup' = "hook4"
        /\ ran' \in [HookNames -> Nat] /\ ran'["postCreate"] >= 1 /\ ran'["postCreate"] >= ran["postCreate"]
        /\ \A k \in HookNames : k # "postCreate" => ran'[k] = ran[k]
        /\ UNCHANGED <<setupInfo, run, fs, procs, broken>>
    BY <1>26, <1>t, HookFacts DEF HookEnds, SetupGoto, SetupTypeOK, Files, Runs
  <2>2. SetupTypeOK'
    BY <1>26, <1>t, <2>1, HookFacts DEF SetupTypeOK, SetupPcs, FromDaemon, FromHook5, FromHook4,
        FromHook3, FromHook2, FromHook1, FromKeys, FromProfile, FromEnv, FromChown, FromResult,
        FromClone, FromGit, FromBuild, FromMounts
  <2>3. MarkedHooksRan'
    BY <1>t, <1>c, <1>i, <2>1, HookFacts DEF SetupInv, MarkedHooksRan, MarkedHookRan, SetupTypeOK,
        FromDaemon, FromHook5, FromHook4, FromHook3, FromHook2, FromHook1, FromKeys, FromProfile,
        FromEnv, FromChown, FromResult, FromClone, FromGit, FromBuild, FromMounts
  <2>4. PastHooksRan'
    BY <1>t, <1>c, <1>i, <2>1, HookFacts DEF SetupInv, PastHooksRan, PastHookRan, MarkedHooksRan,
        MarkedHookRan, SetupTypeOK, FromDaemon, FromHook5, FromHook4, FromHook3, FromHook2, FromHook1,
        FromKeys, FromProfile, FromEnv, FromChown, FromResult, FromClone, FromGit, FromBuild, FromMounts
  <2>5. FailedIsBroken' /\ MountsWhole' /\ ImageBuilt' /\ RepoWhole' /\ HelperTakenBack' /\ ResultWritten' /\ Chowned' /\ Profiled' /\ EnvPatched' /\ KeysWritten' /\ DaemonOnce'
    BY <1>c, <2>1, HookFacts DEF SetupInv, FailedIsBroken, MountsWhole, Streams, ImageBuilt, RepoWhole,
        HelperTakenBack, ResultWritten, Chowned, Profiled, EnvPatched, KeysWritten, DaemonOnce,
        FromDaemon, FromHook5, FromHook4, FromHook3, FromHook2, FromHook1, FromKeys, FromProfile,
        FromEnv, FromChown, FromResult, FromClone, FromGit, FromBuild, FromMounts
  <2> QED BY <2>1, <2>2, <2>3, <2>4, <2>5 DEF SetupInv, StepAt, InfoKept, BeforeBuild
<1>27. ASSUME HookEnds(4) PROVE SetupInv' /\ StepAt
  <2>1. /\ setup = "hook4Work" /\ setup' = "hook5"
        /\ ran' \in [HookNames -> Nat] /\ ran'["postStart"] >= 1 /\ ran'["postStart"] >= ran["postStart"]
        /\ \A k \in HookNames : k # "postStart" => ran'[k] = ran[k]
        /\ UNCHANGED <<setupInfo, run, fs, procs, broken>>
    BY <1>27, <1>t, HookFacts DEF HookEnds, SetupGoto, SetupTypeOK, Files, Runs
  <2>2. SetupTypeOK'
    BY <1>27, <1>t, <2>1, HookFacts DEF SetupTypeOK, SetupPcs, FromDaemon, FromHook5, FromHook4,
        FromHook3, FromHook2, FromHook1, FromKeys, FromProfile, FromEnv, FromChown, FromResult,
        FromClone, FromGit, FromBuild, FromMounts
  <2>3. MarkedHooksRan'
    BY <1>t, <1>c, <1>i, <2>1, HookFacts DEF SetupInv, MarkedHooksRan, MarkedHookRan, SetupTypeOK,
        FromDaemon, FromHook5, FromHook4, FromHook3, FromHook2, FromHook1, FromKeys, FromProfile,
        FromEnv, FromChown, FromResult, FromClone, FromGit, FromBuild, FromMounts
  <2>4. PastHooksRan'
    BY <1>t, <1>c, <1>i, <2>1, HookFacts DEF SetupInv, PastHooksRan, PastHookRan, MarkedHooksRan,
        MarkedHookRan, SetupTypeOK, FromDaemon, FromHook5, FromHook4, FromHook3, FromHook2, FromHook1,
        FromKeys, FromProfile, FromEnv, FromChown, FromResult, FromClone, FromGit, FromBuild, FromMounts
  <2>5. FailedIsBroken' /\ MountsWhole' /\ ImageBuilt' /\ RepoWhole' /\ HelperTakenBack' /\ ResultWritten' /\ Chowned' /\ Profiled' /\ EnvPatched' /\ KeysWritten' /\ DaemonOnce'
    BY <1>c, <2>1, HookFacts DEF SetupInv, FailedIsBroken, MountsWhole, Streams, ImageBuilt, RepoWhole,
        HelperTakenBack, ResultWritten, Chowned, Profiled, EnvPatched, KeysWritten, DaemonOnce,
        FromDaemon, FromHook5, FromHook4, FromHook3, FromHook2, FromHook1, FromKeys, FromProfile,
        FromEnv, FromChown, FromResult, FromClone, FromGit, FromBuild, FromMounts
  <2> QED BY <2>1, <2>2, <2>3, <2>4, <2>5 DEF SetupInv, StepAt, InfoKept, BeforeBuild
<1>28. ASSUME HookEnds(5) PROVE SetupInv' /\ StepAt
  <2>1. /\ setup = "hook5Work" /\ setup' = "ide"
        /\ ran' \in [HookNames -> Nat] /\ ran'["postAttach"] >= 1 /\ ran'["postAttach"] >= ran["postAttach"]
        /\ \A k \in HookNames : k # "postAttach" => ran'[k] = ran[k]
        /\ UNCHANGED <<setupInfo, run, fs, procs, broken>>
    BY <1>28, <1>t, HookFacts DEF HookEnds, SetupGoto, SetupTypeOK, Files, Runs
  <2>2. SetupTypeOK'
    BY <1>28, <1>t, <2>1, HookFacts DEF SetupTypeOK, SetupPcs, FromDaemon, FromHook5, FromHook4,
        FromHook3, FromHook2, FromHook1, FromKeys, FromProfile, FromEnv, FromChown, FromResult,
        FromClone, FromGit, FromBuild, FromMounts
  <2>3. MarkedHooksRan'
    BY <1>t, <1>c, <1>i, <2>1, HookFacts DEF SetupInv, MarkedHooksRan, MarkedHookRan, SetupTypeOK,
        FromDaemon, FromHook5, FromHook4, FromHook3, FromHook2, FromHook1, FromKeys, FromProfile,
        FromEnv, FromChown, FromResult, FromClone, FromGit, FromBuild, FromMounts
  <2>4. PastHooksRan'
    BY <1>t, <1>c, <1>i, <2>1, HookFacts DEF SetupInv, PastHooksRan, PastHookRan, MarkedHooksRan,
        MarkedHookRan, SetupTypeOK, FromDaemon, FromHook5, FromHook4, FromHook3, FromHook2, FromHook1,
        FromKeys, FromProfile, FromEnv, FromChown, FromResult, FromClone, FromGit, FromBuild, FromMounts
  <2>5. FailedIsBroken' /\ MountsWhole' /\ ImageBuilt' /\ RepoWhole' /\ HelperTakenBack' /\ ResultWritten' /\ Chowned' /\ Profiled' /\ EnvPatched' /\ KeysWritten' /\ DaemonOnce'
    BY <1>c, <2>1, HookFacts DEF SetupInv, FailedIsBroken, MountsWhole, Streams, ImageBuilt, RepoWhole,
        HelperTakenBack, ResultWritten, Chowned, Profiled, EnvPatched, KeysWritten, DaemonOnce,
        FromDaemon, FromHook5, FromHook4, FromHook3, FromHook2, FromHook1, FromKeys, FromProfile,
        FromEnv, FromChown, FromResult, FromClone, FromGit, FromBuild, FromMounts
  <2> QED BY <2>1, <2>2, <2>3, <2>4, <2>5 DEF SetupInv, StepAt, InfoKept, BeforeBuild
<1>29. ASSUME InstallIDE PROVE SetupInv' /\ StepAt
  <2>1. /\ setup = "ide" /\ setup' = "daemon"
        /\ procs' \in [{"daemon", "extensions", "browser"} -> [running : Nat, pid : BOOLEAN]]
        /\ procs'["daemon"] = procs["daemon"]
        /\ UNCHANGED <<setupInfo, run, fs, ran, broken>>
    BY <1>29, <1>t, SingleMeans DEF InstallIDE, SetupGoto, SetupTypeOK
  <2>2. SetupTypeOK'
    BY <1>29, <1>t, <2>1, HookFacts DEF SetupTypeOK, SetupPcs, FromDaemon, FromHook5, FromHook4,
        FromHook3, FromHook2, FromHook1, FromKeys, FromProfile, FromEnv, FromChown, FromResult,
        FromClone, FromGit, FromBuild, FromMounts
  <2>3. FailedIsBroken' /\ MountsWhole' /\ ImageBuilt' /\ RepoWhole' /\ HelperTakenBack' /\ ResultWritten' /\ Chowned' /\ Profiled' /\ EnvPatched' /\ KeysWritten' /\ MarkedHooksRan' /\ PastHooksRan' /\ DaemonOnce'
    BY <1>c, <2>1, HookFacts DEF SetupInv, FailedIsBroken, MountsWhole, Streams, ImageBuilt, RepoWhole,
        HelperTakenBack, ResultWritten, Chowned, Profiled, EnvPatched, KeysWritten, MarkedHooksRan,
        MarkedHookRan, PastHooksRan, PastHookRan, DaemonOnce, FromDaemon, FromHook5, FromHook4,
        FromHook3, FromHook2, FromHook1, FromKeys, FromProfile, FromEnv, FromChown, FromResult,
        FromClone, FromGit, FromBuild, FromMounts
  <2> QED BY <2>1, <2>2, <2>3 DEF SetupInv, StepAt, InfoKept, BeforeBuild
<1>30. ASSUME StartContainerDaemon PROVE SetupInv' /\ StepAt
  <2>1. /\ setup = "daemon" /\ setup' = "send"
        /\ procs' \in [{"daemon", "extensions", "browser"} -> [running : Nat, pid : BOOLEAN]]
        /\ \/ procs' = procs /\ (setupInfo.timeout => procs["daemon"].running > 0)
           \/ /\ ~(procs["daemon"].pid /\ procs["daemon"].running > 0)
              /\ procs'["daemon"] = [running |-> procs["daemon"].running + 1, pid |-> TRUE]
        /\ UNCHANGED <<setupInfo, run, fs, ran, broken>>
    BY <1>30, <1>t, SingleMeans DEF StartContainerDaemon, SetupGoto, SetupTypeOK
  <2>2. SetupTypeOK'
    BY <1>30, <1>t, <2>1, HookFacts DEF SetupTypeOK, SetupPcs, FromDaemon, FromHook5, FromHook4,
        FromHook3, FromHook2, FromHook1, FromKeys, FromProfile, FromEnv, FromChown, FromResult,
        FromClone, FromGit, FromBuild, FromMounts
  <2>3. DaemonOnce'
    BY <1>t, <1>c, <1>i, <2>1, HookFacts DEF SetupInv, DaemonOnce, SetupTypeOK, FromDaemon, FromHook5,
        FromHook4, FromHook3, FromHook2, FromHook1, FromKeys, FromProfile, FromEnv, FromChown,
        FromResult, FromClone, FromGit, FromBuild, FromMounts
  <2>4. FailedIsBroken' /\ MountsWhole' /\ ImageBuilt' /\ RepoWhole' /\ HelperTakenBack' /\ ResultWritten' /\ Chowned' /\ Profiled' /\ EnvPatched' /\ KeysWritten' /\ MarkedHooksRan' /\ PastHooksRan'
    BY <1>c, <2>1, HookFacts DEF SetupInv, FailedIsBroken, MountsWhole, Streams, ImageBuilt, RepoWhole,
        HelperTakenBack, ResultWritten, Chowned, Profiled, EnvPatched, KeysWritten, MarkedHooksRan,
        MarkedHookRan, PastHooksRan, PastHookRan, FromDaemon, FromHook5, FromHook4, FromHook3, FromHook2,
        FromHook1, FromKeys, FromProfile, FromEnv, FromChown, FromResult, FromClone, FromGit, FromBuild,
        FromMounts
  <2> QED BY <2>1, <2>2, <2>3, <2>4 DEF SetupInv, StepAt, InfoKept, BeforeBuild
<1>31. ASSUME ExtensionsDone PROVE SetupInv' /\ StepAt
  <2>1. /\ setup' = setup
        /\ procs' \in [{"daemon", "extensions", "browser"} -> [running : Nat, pid : BOOLEAN]]
        /\ procs'["daemon"] = procs["daemon"]
        /\ UNCHANGED <<setupInfo, run, fs, ran, broken>>
    BY <1>31, <1>t, HookFacts DEF ExtensionsDone, SetupTypeOK, Files, Runs
  <2>2. SetupTypeOK'
    BY <1>31, <1>t, <2>1, HookFacts DEF SetupTypeOK, SetupPcs, FromDaemon, FromHook5, FromHook4,
        FromHook3, FromHook2, FromHook1, FromKeys, FromProfile, FromEnv, FromChown, FromResult,
        FromClone, FromGit, FromBuild, FromMounts
  <2>3. FailedIsBroken' /\ MountsWhole' /\ ImageBuilt' /\ RepoWhole' /\ HelperTakenBack' /\ ResultWritten' /\ Chowned' /\ Profiled' /\ EnvPatched' /\ KeysWritten' /\ MarkedHooksRan' /\ PastHooksRan' /\ DaemonOnce'
    BY <1>c, <2>1, HookFacts DEF SetupInv, FailedIsBroken, MountsWhole, Streams, ImageBuilt, RepoWhole,
        HelperTakenBack, ResultWritten, Chowned, Profiled, EnvPatched, KeysWritten, MarkedHooksRan,
        MarkedHookRan, PastHooksRan, PastHookRan, DaemonOnce, FromDaemon, FromHook5, FromHook4,
        FromHook3, FromHook2, FromHook1, FromKeys, FromProfile, FromEnv, FromChown, FromResult,
        FromClone, FromGit, FromBuild, FromMounts
  <2> QED BY <2>1, <2>2, <2>3 DEF SetupInv, StepAt, InfoKept, BeforeBuild
<1>32. ASSUME SetupResult PROVE SetupInv' /\ StepAt
  <2>1. /\ setup = "send" /\ setup' = "ok"
        /\ fs'.helpers = IF run.lent /\ fs.helpers = 1 THEN 0 ELSE fs.helpers
        /\ broken' = broken
        /\ fs' \in Files
        /\ fs'.mount = fs.mount /\ fs'.built = fs.built /\ fs'.context = fs.context /\ fs'.logged = fs.logged /\ fs'.repo = fs.repo /\ fs'.keys = fs.keys /\ fs'.applied = fs.applied /\ fs'.marker = fs.marker
        /\ UNCHANGED <<setupInfo, run, procs, ran>>
    BY <1>32, <1>t, HookFacts DEF SetupResult, SetupReturns, Unlend, SetupTypeOK, Files, Runs
  <2>2. SetupTypeOK'
    BY <1>32, <1>t, <2>1, HookFacts DEF SetupTypeOK, SetupPcs, FromDaemon, FromHook5, FromHook4,
        FromHook3, FromHook2, FromHook1, FromKeys, FromProfile, FromEnv, FromChown, FromResult,
        FromClone, FromGit, FromBuild, FromMounts
  <2>3. HelperTakenBack'
    BY <1>t, <1>c, <1>i, <2>1, HookFacts DEF SetupInv, HelperTakenBack, SetupTypeOK, FromDaemon,
        FromHook5, FromHook4, FromHook3, FromHook2, FromHook1, FromKeys, FromProfile, FromEnv, FromChown,
        FromResult, FromClone, FromGit, FromBuild, FromMounts
  <2>4. FailedIsBroken' /\ MountsWhole' /\ ImageBuilt' /\ RepoWhole' /\ ResultWritten' /\ Chowned' /\ Profiled' /\ EnvPatched' /\ KeysWritten' /\ MarkedHooksRan' /\ PastHooksRan' /\ DaemonOnce'
    BY <1>c, <2>1, HookFacts DEF SetupInv, FailedIsBroken, MountsWhole, Streams, ImageBuilt, RepoWhole,
        ResultWritten, Chowned, Profiled, EnvPatched, KeysWritten, MarkedHooksRan, MarkedHookRan,
        PastHooksRan, PastHookRan, DaemonOnce, FromDaemon, FromHook5, FromHook4, FromHook3, FromHook2,
        FromHook1, FromKeys, FromProfile, FromEnv, FromChown, FromResult, FromClone, FromGit, FromBuild,
        FromMounts
  <2> QED BY <2>1, <2>2, <2>3, <2>4 DEF SetupInv, StepAt, InfoKept, BeforeBuild
<1>w. GuardedWork => setup \in {"chownWork", "envWork", "envFlagsWork", "profileWork"} BY GuardedWorkMeans
<1>n. 1..Len(Hooks) = {1, 2, 3, 4, 5} BY HookFacts
<1> QED
  BY <1>1, <1>2, <1>3, <1>4, <1>5, <1>6, <1>7, <1>8, <1>9, <1>10, <1>11, <1>12, <1>13, <1>14, <1>15,
      <1>16, <1>17, <1>18, <1>19, <1>20, <1>21, <1>22, <1>23, <1>24, <1>25, <1>26, <1>27, <1>28, <1>29,
      <1>30, <1>31, <1>32, <1>w, <1>n
  DEF SetupStep


-----------------------------------------------------------------------------

\* A setup that is cut off, wherever, is marked as broken.
LEMMA SetupInvFault ==
    ASSUME SetupInv, SetupFault
    PROVE  SetupInv' /\ setup # "idle" /\ setup' = "failed" /\ run' = run
<1>t. SetupTypeOK BY DEF SetupInv
<1>f. fs \in Files /\ Unlend(fs) \in Files BY <1>t DEF SetupTypeOK, Unlend, Files
<1>u. ASSUME NEW f \in Files PROVE Unlend(f) \in Files BY <1>u DEF Unlend, Files
<1>b. ASSUME broken' = TRUE, setup # "idle", setup' = "failed", run' = run, fs' \in Files, UNCHANGED setupInfo,
             procs' \in [{"daemon", "extensions", "browser"} -> [running : Nat, pid : BOOLEAN]],
             ran' \in [HookNames -> Nat]
      PROVE  SetupInv' /\ setup # "idle" /\ setup' = "failed" /\ run' = run
  BY <1>b, <1>t, SetupCutOff
<1>1. CASE SetupFails BY <1>1, <1>b, <1>f, <1>t DEF SetupFails, SetupReturns, SetupTypeOK
<1>2. CASE SetupKilled BY <1>2, <1>b, <1>f, <1>t DEF SetupKilled, SetupTypeOK
<1>3. CASE DockerlessBuildFails
  <2> DEFINE left == IF fs.context = 0 THEN 0 ELSE fs.fallback
  <2>1. BuildInfo \in Nat /\ left \in Nat BY <1>f DEF BuildInfo, Files
  <2>2. fs' = Unlend([fs EXCEPT !.context = BuildInfo, !.fallback = left])
    BY <1>3 DEF DockerlessBuildFails
  <2> HIDE DEF left
  <2>3. [fs EXCEPT !.context = BuildInfo, !.fallback = left] \in Files BY <1>f, <2>1 DEF Files
  <2> QED BY <1>3, <1>b, <1>u, <1>t, <2>2, <2>3 DEF DockerlessBuildFails, SetupTypeOK
<1>4. CASE CloneInsideFails
  <2>1. [fs EXCEPT !.repo = "none"] \in Files /\ [fs EXCEPT !.repo = "partial"] \in Files BY <1>f DEF Files
  <2>2. fs' \in Files BY <1>4, <1>u, <2>1 DEF CloneInsideFails
  <2> QED BY <1>4, <1>b, <1>t, <2>2 DEF CloneInsideFails, SetupTypeOK
<1>5. CASE KilledBeforePid
  <2>1. procs' \in [{"daemon", "extensions", "browser"} -> [running : Nat, pid : BOOLEAN]]
    BY <1>5, <1>t DEF KilledBeforePid, SetupTypeOK
  <2> QED BY <1>5, <1>b, <1>f, <1>t, <2>1 DEF KilledBeforePid, SetupTypeOK
<1>6. ASSUME NEW m \in Mounts, StreamMountFails(m)
      PROVE  SetupInv' /\ setup # "idle" /\ setup' = "failed" /\ run' = run
  <2>1. PICK rest \in {"partial", fs.mount[m]}, info \in {fs.context, StreamedInfo(m)} :
            fs' = Unlend([fs EXCEPT !.mount[m] = rest, !.context = info])
    BY <1>6 DEF StreamMountFails
  <2>2. rest \in {"empty", "partial", "full", "edited"} /\ info \in Nat
    BY <1>f, <1>t, <2>1 DEF Files, StreamedInfo, SetupTypeOK, Runs
  <2>3. [fs EXCEPT !.mount[m] = rest, !.context = info] \in Files BY <1>f, <2>2 DEF Files
  <2> QED BY <1>6, <1>b, <1>u, <1>t, <2>1, <2>3 DEF StreamMountFails, SetupTypeOK
<1>7. ASSUME NEW n \in 1..Len(Hooks), HookFails(n)
      PROVE  SetupInv' /\ setup # "idle" /\ setup' = "failed" /\ run' = run
  <2>1. n \in {1, 2, 3, 4, 5} BY HookFacts
  <2>2. setup # "idle" BY <1>7, <2>1, HookFacts DEF HookFails
  <2>3. ran' \in [HookNames -> Nat] BY <1>7, <1>t, <2>1, HookFacts DEF HookFails, SetupTypeOK
  <2> QED BY <1>7, <1>b, <1>f, <1>t, <2>2, <2>3 DEF HookFails, SetupReturns, SetupTypeOK
<1> QED BY <1>1, <1>2, <1>3, <1>4, <1>5, <1>6, <1>7 DEF SetupFault

\* Work that fails with an error that is only logged, by step.
LEMMA WorkFailsMeans ==
    ASSUME WorkFails
    PROVE  /\ UNCHANGED <<setupInfo, run, procs, ran, broken>>
           /\ \/ setup = "result" /\ setup' = "chown" /\ fs' = [fs EXCEPT !.logged = @ \cup {"result"}]
              \/ setup = "chownWork" /\ setup' = "env" /\ fs' = [fs EXCEPT !.logged = @ \cup {"chown"}]
              \/ setup = "envWork" /\ setup' = "envFlags" /\ fs' = [fs EXCEPT !.logged = @ \cup {setupInfo.env}]
              \/ setup = "envFlagsWork" /\ setup' = "profile"
                 /\ fs' = [fs EXCEPT !.logged = @ \cup {setupInfo.env}]
              \/ setup = "profileWork" /\ setup' = "sock" /\ fs' = [fs EXCEPT !.logged = @ \cup {"profile"}]
<1>1. PICK w \in {<<"result", "result", "chown">>, <<"chownWork", "chown", "env">>,
                  <<"envWork", setupInfo.env, "envFlags">>, <<"envFlagsWork", setupInfo.env, "profile">>,
                  <<"profileWork", "profile", "sock">>} :
          setup = w[1] /\ fs' = [fs EXCEPT !.logged = @ \cup {w[2]}] /\ setup' = w[3]
  BY DEF WorkFails, SetupGoto
<1>2. CASE w = <<"result", "result", "chown">> BY <1>1, <1>2 DEF WorkFails
<1>3. CASE w = <<"chownWork", "chown", "env">> BY <1>1, <1>3 DEF WorkFails
<1>4. CASE w = <<"envWork", setupInfo.env, "envFlags">> BY <1>1, <1>4 DEF WorkFails
<1>5. CASE w = <<"envFlagsWork", setupInfo.env, "profile">> BY <1>1, <1>5 DEF WorkFails
<1>6. CASE w = <<"profileWork", "profile", "sock">> BY <1>1, <1>6 DEF WorkFails
<1> QED BY <1>1, <1>2, <1>3, <1>4, <1>5, <1>6

\* An error that is only logged keeps the invariant: what was not done is in the log.
LEMMA SetupInvLogs == ASSUME SetupInv, SetupLogs, UNCHANGED config PROVE SetupInv' /\ StepAt
<1>t. SetupTypeOK /\ fs \in Files BY DEF SetupInv, SetupTypeOK
<1>i. setup # "idle" => setupInfo.env \in STRING /\ setupInfo.keys \in 0..2
  BY <1>t, ContainerSetupAssumption DEF SetupTypeOK
\* The step goes on from s to n with w in the log.
<1>l. ASSUME NEW s, NEW n, NEW w \in Works, setup = s, setup' = n, fs' = [fs EXCEPT !.logged = @ \cup {w}],
             UNCHANGED <<setupInfo, run, procs, ran, broken>>,
             <<s, n, w>> \in {<<"result", "chown", "result">>, <<"chownWork", "env", "chown">>,
                             <<"envWork", "envFlags", setupInfo.env>>,
                             <<"envFlagsWork", "profile", setupInfo.env>>,
                             <<"profileWork", "sock", "profile">>, <<"send", "ok", "helper">>}
      PROVE  SetupInv' /\ StepAt
  <2>0. \/ s = "result" /\ n = "chown" /\ w = "result"
        \/ s = "chownWork" /\ n = "env" /\ w = "chown"
        \/ s = "envWork" /\ n = "envFlags" /\ w = setupInfo.env
        \/ s = "envFlagsWork" /\ n = "profile" /\ w = setupInfo.env
        \/ s = "profileWork" /\ n = "sock" /\ w = "profile"
        \/ s = "send" /\ n = "ok" /\ w = "helper"
    BY <1>l
  <2>a. fs.logged \cup {w} \in SUBSET Works BY <1>t, <1>l DEF Files
  <2>1. /\ fs' \in Files /\ fs'.logged = fs.logged \cup {w}
        /\ fs'.mount = fs.mount /\ fs'.built = fs.built /\ fs'.context = fs.context /\ fs'.repo = fs.repo
        /\ fs'.helpers = fs.helpers /\ fs'.keys = fs.keys /\ fs'.applied = fs.applied /\ fs'.marker = fs.marker
    BY <1>t, <1>l, <2>a DEF Files
  <2>2. SetupTypeOK'
    BY <1>t, <1>l, <2>0, <2>1 DEF SetupTypeOK, SetupPcs, FromDaemon, FromHook5, FromHook4, FromHook3, FromHook2, FromHook1, FromKeys, FromProfile, FromEnv,
      FromChown, FromResult, FromClone, FromGit, FromBuild, FromMounts
  <2>3. FailedIsBroken' /\ MountsWhole' /\ ImageBuilt' /\ RepoWhole' /\ MarkedHooksRan' /\ PastHooksRan' /\ DaemonOnce'
    BY <1>l, <2>0, <2>1, HookFacts DEF SetupInv, FailedIsBroken, MountsWhole, Streams, ImageBuilt, RepoWhole,
      MarkedHooksRan, MarkedHookRan, PastHooksRan, PastHookRan, DaemonOnce, FromDaemon, FromHook5, FromHook4, FromHook3, FromHook2, FromHook1, FromKeys, FromProfile, FromEnv,
      FromChown, FromResult, FromClone, FromGit, FromBuild, FromMounts
  <2>4. HelperTakenBack' /\ ResultWritten' /\ KeysWritten'
    BY <1>l, <2>0, <2>1 DEF SetupInv, HelperTakenBack, ResultWritten, KeysWritten, FromDaemon, FromHook5, FromHook4, FromHook3, FromHook2, FromHook1, FromKeys, FromProfile, FromEnv,
      FromChown, FromResult, FromClone, FromGit, FromBuild, FromMounts
  <2>5. Chowned' /\ Profiled'
    BY <1>l, <2>0, <2>1 DEF SetupInv, Chowned, Profiled, FromDaemon, FromHook5, FromHook4, FromHook3, FromHook2, FromHook1, FromKeys, FromProfile, FromEnv,
      FromChown, FromResult, FromClone, FromGit, FromBuild, FromMounts
  <2>6. EnvPatched'
    BY <1>l, <2>0, <2>1 DEF SetupInv, EnvPatched, FromDaemon, FromHook5, FromHook4, FromHook3, FromHook2, FromHook1, FromKeys, FromProfile, FromEnv,
      FromChown, FromResult, FromClone, FromGit, FromBuild, FromMounts
  <2>7. StepAt BY <1>l, <2>0, <2>1 DEF StepAt, InfoKept, BeforeBuild
  <2> QED BY <2>2, <2>3, <2>4, <2>5, <2>6, <2>7 DEF SetupInv
<1>1. CASE WorkFails
  <2>1. /\ {"result", "chown", "profile"} \subseteq Works
        /\ setup # "idle" => setupInfo.env \in Works
    BY <1>i DEF Works
  <2> QED BY <1>1, <1>l, <2>1, WorkFailsMeans
<1>2. CASE KeysFail
  <2>1. PICK k \in SUBSET NewKeys :
            fs' = [fs EXCEPT !.keys = (fs.keys \ NewKeys) \cup k, !.logged = fs.logged \cup {"keys"}]
    BY <1>2 DEF KeysFail
  <2>2. setup = "keys" /\ setup' = "hook1" /\ UNCHANGED <<setupInfo, run, procs, ran, broken>>
    BY <1>2 DEF KeysFail, SetupGoto
  <2>3. (fs.keys \ NewKeys) \cup k \in SUBSET Nat /\ fs.logged \cup {"keys"} \in SUBSET Works
    <3>1. NewKeys \subseteq Nat BY <1>i, <2>2 DEF NewKeys
    <3>2. fs.keys \subseteq Nat /\ fs.logged \subseteq Works /\ "keys" \in Works BY <1>t DEF Files, Works
    <3> QED BY <2>1, <3>1, <3>2
  <2>4. /\ fs' \in Files /\ fs'.logged = fs.logged \cup {"keys"}
        /\ fs'.mount = fs.mount /\ fs'.built = fs.built /\ fs'.context = fs.context /\ fs'.repo = fs.repo
        /\ fs'.helpers = fs.helpers /\ fs'.applied = fs.applied /\ fs'.marker = fs.marker
    BY <1>t, <2>1, <2>3 DEF Files
  <2>5. SetupTypeOK'
    BY <1>t, <2>2, <2>4 DEF SetupTypeOK, SetupPcs, FromDaemon, FromHook5, FromHook4, FromHook3, FromHook2, FromHook1, FromKeys, FromProfile, FromEnv,
      FromChown, FromResult, FromClone, FromGit, FromBuild, FromMounts
  <2>6. FailedIsBroken' /\ MountsWhole' /\ ImageBuilt' /\ RepoWhole' /\ MarkedHooksRan' /\ PastHooksRan' /\ DaemonOnce'
    BY <2>2, <2>4, HookFacts DEF SetupInv, FailedIsBroken, MountsWhole, Streams, ImageBuilt, RepoWhole,
      MarkedHooksRan, MarkedHookRan, PastHooksRan, PastHookRan, DaemonOnce, FromDaemon, FromHook5, FromHook4, FromHook3, FromHook2, FromHook1, FromKeys, FromProfile, FromEnv,
      FromChown, FromResult, FromClone, FromGit, FromBuild, FromMounts
  <2>7. HelperTakenBack' /\ ResultWritten' /\ KeysWritten' /\ Chowned' /\ Profiled' /\ EnvPatched'
    BY <2>2, <2>4 DEF SetupInv, HelperTakenBack, ResultWritten, KeysWritten, Chowned, Profiled, EnvPatched, FromDaemon, FromHook5, FromHook4, FromHook3, FromHook2, FromHook1, FromKeys, FromProfile, FromEnv,
      FromChown, FromResult, FromClone, FromGit, FromBuild, FromMounts
  <2>8. StepAt BY <2>2, <2>4 DEF StepAt, InfoKept, BeforeBuild
  <2> QED BY <2>5, <2>6, <2>7, <2>8 DEF SetupInv
<1>3. CASE UnlendFails
  <2>1. "helper" \in Works BY DEF Works
  <2>2. /\ setup = "send" /\ setup' = "ok" /\ fs' = [fs EXCEPT !.logged = @ \cup {"helper"}]
        /\ UNCHANGED <<setupInfo, run, procs, ran, broken>>
    BY <1>3 DEF UnlendFails
  <2> QED BY ONLY <1>l, <2>1, <2>2
<1> QED BY <1>1, <1>2, <1>3 DEF SetupLogs

\* What the runner and the user do to a container in which no setup runs.
LEMMA SetupInvQuiet == ASSUME SetupInv, UNCHANGED <<setupVars, config>> PROVE SetupInv'
  BY DEF SetupInv, setupVars, SetupTypeOK, FailedIsBroken, MountsWhole, Streams, ImageBuilt, RepoWhole, HelperTakenBack,
      ResultWritten, Chowned, Profiled, EnvPatched, KeysWritten, MarkedHooksRan, MarkedHookRan, PastHooksRan,
      PastHookRan, DaemonOnce

\* A new container has nothing that an earlier one left, or only what is on the claim.
LEMMA SetupInvNew ==
    ASSUME SetupInv, setup = "idle", fs' \in Files, fs'.helpers = 0,
           fs'.marker = [n \in Markers |-> NoMarker],
           procs' = NoProcs, ran' = [h \in HookNames |-> 0], UNCHANGED <<setup, setupInfo, run>>,
           broken' \in BOOLEAN,
           ~broken' => /\ \A m \in Mounts : fs'.mount[m] \in {"empty", "full", "edited"}
                       /\ fs'.repo \in {"none", "full"}
    PROVE  SetupInv'
<1>t. SetupTypeOK BY DEF SetupInv
<1>1. fs' \in Files /\ fs'.marker = [n \in Markers |-> NoMarker] OBVIOUS
<1>2. SetupTypeOK' BY <1>t, <1>1 DEF SetupTypeOK, NoProcs
<1>3. \A n \in Markers : fs'.marker[n] = NoMarker BY <1>1
<1>4. procs'["daemon"].running = 0 BY DEF NoProcs
<1>5. FailedIsBroken' /\ MountsWhole' /\ RepoWhole' /\ HelperTakenBack' /\ ImageBuilt' /\ ResultWritten' /\ KeysWritten' /\ DaemonOnce'
  BY <1>1, <1>4 DEF SetupInv, FailedIsBroken, MountsWhole, Streams, RepoWhole, HelperTakenBack, ImageBuilt, ResultWritten, KeysWritten,
      DaemonOnce, FromDaemon, FromHook5, FromHook4, FromHook3, FromHook2, FromHook1, FromKeys, FromProfile, FromEnv,
      FromChown, FromResult, FromClone, FromGit, FromBuild, FromMounts
<1>6. Chowned' /\ Profiled' /\ EnvPatched' /\ MarkedHooksRan' /\ PastHooksRan'
  BY <1>3, HookFacts DEF Chowned, Profiled, EnvPatched, MarkedHooksRan, MarkedHookRan, PastHooksRan, PastHookRan,
      FromDaemon, FromHook5, FromHook4, FromHook3, FromHook2, FromHook1, FromKeys, FromProfile, FromEnv,
      FromChown, FromResult, FromClone, FromGit, FromBuild, FromMounts
<1> QED BY <1>2, <1>5, <1>6 DEF SetupInv

\* A start of the container keeps its files and processes.
LEMMA SetupInvStart ==
    ASSUME SetupInv, setup = "idle", UNCHANGED <<config, setup, setupInfo, run, fs, procs, broken>>,
           ran' = [ran EXCEPT !["postStart"] = 0]
    PROVE  SetupInv'
<1>t. SetupTypeOK BY DEF SetupInv
<1>1. ran' \in [HookNames -> Nat] /\ \A h \in HookNames : h # "postStart" => ran'[h] = ran[h]
  BY <1>t DEF SetupTypeOK
<1>2. SetupTypeOK' BY <1>t, <1>1 DEF SetupTypeOK
<1>3. MarkedHooksRan' /\ PastHooksRan'
  BY <1>1, HookFacts DEF SetupInv, MarkedHooksRan, MarkedHookRan, PastHooksRan, PastHookRan, FromDaemon, FromHook5, FromHook4, FromHook3, FromHook2, FromHook1, FromKeys, FromProfile, FromEnv,
      FromChown, FromResult, FromClone, FromGit, FromBuild, FromMounts
<1>4. /\ FailedIsBroken' /\ MountsWhole' /\ ImageBuilt' /\ RepoWhole' /\ HelperTakenBack' /\ ResultWritten'
      /\ Chowned' /\ Profiled' /\ EnvPatched' /\ KeysWritten' /\ DaemonOnce'
  BY DEF SetupInv, FailedIsBroken, MountsWhole, Streams, ImageBuilt, RepoWhole, HelperTakenBack, ResultWritten, Chowned, Profiled,
      EnvPatched, KeysWritten, DaemonOnce
<1> QED BY <1>2, <1>3, <1>4 DEF SetupInv

\* A stop of the container ends its processes; the pid files stay.
LEMMA SetupInvStop ==
    ASSUME SetupInv, setup = "idle", UNCHANGED <<config, setup, setupInfo, run, fs, ran, broken>>,
           procs' = [n \in DOMAIN NoProcs |-> [procs[n] EXCEPT !.running = 0]]
    PROVE  SetupInv'
<1>t. SetupTypeOK BY DEF SetupInv
<1>1. DOMAIN NoProcs = {"daemon", "extensions", "browser"} BY DEF NoProcs
<1>2. \A n \in {"daemon", "extensions", "browser"} : [procs[n] EXCEPT !.running = 0] \in [running : Nat, pid : BOOLEAN]
  BY <1>t DEF SetupTypeOK
<1>3. /\ procs' \in [{"daemon", "extensions", "browser"} -> [running : Nat, pid : BOOLEAN]]
      /\ procs'["daemon"].running = 0
  BY <1>t, <1>1, <1>2 DEF SetupTypeOK
<1>4. SetupTypeOK' BY <1>t, <1>3 DEF SetupTypeOK
<1>5. DaemonOnce' BY <1>3 DEF DaemonOnce, FromDaemon
<1>6. /\ FailedIsBroken' /\ MountsWhole' /\ ImageBuilt' /\ RepoWhole' /\ HelperTakenBack' /\ ResultWritten'
      /\ Chowned' /\ Profiled' /\ EnvPatched' /\ KeysWritten' /\ MarkedHooksRan' /\ PastHooksRan'
  BY DEF SetupInv, FailedIsBroken, MountsWhole, Streams, ImageBuilt, RepoWhole, HelperTakenBack, ResultWritten, Chowned, Profiled,
      EnvPatched, KeysWritten, MarkedHooksRan, MarkedHookRan, PastHooksRan, PastHookRan
<1> QED BY <1>4, <1>5, <1>6 DEF SetupInv

\* The user edits the files of a mount.
LEMMA SetupInvEdit ==
    ASSUME SetupInv, setup = "idle", NEW m \in Mounts, fs' = [fs EXCEPT !.mount[m] = "edited"],
           UNCHANGED <<config, setup, setupInfo, run, procs, ran, broken>>
    PROVE  SetupInv'
<1>t. SetupTypeOK BY DEF SetupInv
<1>1. /\ fs' \in Files /\ \A k \in Mounts : fs'.mount[k] \in {"edited", fs.mount[k]}
      /\ fs'.built = fs.built /\ fs'.repo = fs.repo /\ fs'.helpers = fs.helpers /\ fs'.keys = fs.keys
      /\ fs'.logged = fs.logged /\ fs'.applied = fs.applied /\ fs'.marker = fs.marker
  BY <1>t DEF SetupTypeOK, Files
<1>2. SetupTypeOK' BY <1>t, <1>1 DEF SetupTypeOK
<1>3. MountsWhole' BY <1>1 DEF SetupInv, MountsWhole, FromDaemon, FromHook5, FromHook4, FromHook3, FromHook2, FromHook1, FromKeys, FromProfile, FromEnv,
      FromChown, FromResult, FromClone, FromGit, FromBuild, FromMounts
<1>4. /\ FailedIsBroken' /\ ImageBuilt' /\ RepoWhole' /\ HelperTakenBack' /\ ResultWritten' /\ Chowned' /\ Profiled' /\ EnvPatched'
      /\ KeysWritten' /\ MarkedHooksRan' /\ PastHooksRan' /\ DaemonOnce'
  BY <1>1 DEF SetupInv, FailedIsBroken, ImageBuilt, RepoWhole, HelperTakenBack, ResultWritten, Chowned, Profiled, EnvPatched,
      KeysWritten, MarkedHooksRan, MarkedHookRan, PastHooksRan, PastHookRan, DaemonOnce
<1> QED BY <1>2, <1>3, <1>4 DEF SetupInv

-----------------------------------------------------------------------------

RunnerTypeOK ==
    /\ config \in Configs /\ version \in Nat \ {0} /\ clock \in Nat /\ upFaults \in Nat
    /\ container \in Containers \cup {NoContainer} /\ upCmd \in UpRecords

\* Where a command is and what it has there: a setup runs in the container that the
\* command found or made; a command that recreates has the image of the present files;
\* what it found is gone when compose makes anew.
CommandAt ==
    /\ upCmd.pc # "setup" => setup = "idle"
    /\ setup # "idle" => container \in Containers /\ run.dockerless = container.image.dockerless
    /\ upCmd.pc \in {"start", "reprovision"} => container \in Containers
    /\ upCmd.pc \in {"start", "setup"} => upCmd.details \in Containers
    /\ upCmd.pc \in {"start", "reprovision", "composeRestart"} => ~upCmd.recreate
    /\ upCmd.pc \in {"delete", "run", "composeDelete", "composeUp"} => upCmd.image.version = version
    /\ upCmd.pc = "composeUp" /\ upCmd.recreate => upCmd.details = NoContainer \/ container = NoContainer

\* The container of a command that recreates has the image of the command and nothing is
\* built in it yet; what the stream brings, and then what is built, is of the present
\* version.
Recreated ==
    upCmd.pc = "setup" /\ upCmd.recreate =>
        /\ container.image = upCmd.image /\ upCmd.image.version = version
        /\ setup \in BeforeBuild \cup {"idle"} => fs.built = 0
        /\ setup # "idle" /\ container.image.dockerless => run.info = version
        /\ container.image.dockerless /\ run.streamed =>
              /\ setup \in BeforeBuild => fs.context = version
              /\ setup \notin BeforeBuild \cup {"idle", "failed"} => fs.built = version

DevInv == SetupInv /\ RunnerTypeOK /\ CommandAt /\ Recreated

\* The command goes on to p with the details d and the image i.
Moved(p, d, i) ==
    /\ upCmd' \in UpRecords /\ upCmd'.pc = p /\ upCmd'.details = d /\ upCmd'.image = i
    /\ upCmd'.recreate = upCmd.recreate

\* The forms in which the runner goes on.
LEMMA UpStepMeans ==
    ASSUME upCmd \in UpRecords, NEW p \in UpPcs, UpStep(p)
    PROVE  Moved(p, upCmd.details, upCmd.image)
  BY DEF UpStep, Moved, UpRecords

\* What up reads of a container is a container, or that there is none.
LEMMA DetailsRead ==
    ASSUME upCmd \in UpRecords, NEW p \in UpPcs, NEW d \in Containers \cup {NoContainer},
           \/ upCmd' = [upCmd EXCEPT !.details = d, !.pc = p]
           \/ upCmd' = [upCmd EXCEPT !.pc = p, !.details = d]
    PROVE  Moved(p, d, upCmd.image)
<1>1. CASE upCmd' = [upCmd EXCEPT !.details = d, !.pc = p] BY <1>1 DEF Moved, UpRecords
<1>2. CASE upCmd' = [upCmd EXCEPT !.pc = p, !.details = d] BY <1>2 DEF Moved, UpRecords
<1> QED BY <1>1, <1>2

\* What is built or prebuilt is an image of a version.
LEMMA ImageRead ==
    ASSUME upCmd \in UpRecords, NEW p \in UpPcs, NEW i \in Images,
           upCmd' = [upCmd EXCEPT !.image = i, !.pc = p]
    PROVE  Moved(p, upCmd.details, i)
  BY DEF Moved, UpRecords

\* What NewContainer makes of the container, when no setup runs: the image is the one it
\* was given, and nothing is built in it.
LEMMA FromScratchMeans ==
    ASSUME DevInv, setup = "idle", FromScratch, UNCHANGED config
    PROVE  /\ SetupInv' /\ setup' = "idle" /\ clock' \in Nat
           /\ container' \in Containers /\ container'.image = upCmd.image /\ fs'.built = 0
<1>1. fs' = NewFiles BY DEF FromScratch
<1>2. /\ fs' \in Files /\ fs'.mount = [m \in Mounts |-> "empty"] /\ fs'.repo = "none" /\ fs'.helpers = 0
      /\ fs'.marker = [n \in Markers |-> NoMarker] /\ fs'.built = 0
  BY <1>1 DEF NewFiles, Files
<1>3. SetupInv' BY <1>2, SetupInvNew DEF DevInv, FromScratch
<1>4. clock + 1 \in Nat /\ upCmd.image \in Images BY DEF DevInv, RunnerTypeOK, UpRecords
<1>5. container' = [created |-> clock + 1, started |-> clock + 1, running |-> TRUE, image |-> upCmd.image,
                    kept |-> upCmd.image]
  BY DEF FromScratch
<1>6. container' \in Containers /\ container'.image = upCmd.image BY <1>4, <1>5 DEF Containers
<1> QED BY <1>2, <1>3, <1>4, <1>6 DEF FromScratch

\* A new pod for a claim keeps what is on the claim.
LEMMA NewPodMeans ==
    ASSUME DevInv, setup = "idle", container \in Containers, NEW image \in Images, NewPod(image),
           UNCHANGED config
    PROVE  /\ SetupInv' /\ setup' = "idle" /\ clock' \in Nat
           /\ container' \in Containers /\ container'.image = image /\ fs'.built = 0
<1>1. fs' = [NewFiles EXCEPT !.mount = fs.mount, !.context = fs.context, !.fallback = fs.fallback,
                            !.repo = fs.repo]
  BY DEF NewPod
<1>2. NewFiles \in Files BY DEF NewFiles, Files
<1>3. fs \in Files /\ broken \in BOOLEAN BY DEF DevInv, SetupInv, SetupTypeOK
<1>4. /\ fs.mount \in [Mounts -> {"empty", "partial", "full", "edited"}] /\ fs.context \in Nat
      /\ fs.fallback \in Nat /\ fs.repo \in {"none", "partial", "full"}
  BY <1>3 DEF Files
<1>5. /\ fs' \in Files /\ fs'.mount = fs.mount /\ fs'.repo = fs.repo /\ fs'.helpers = NewFiles.helpers
      /\ fs'.marker = NewFiles.marker /\ fs'.built = NewFiles.built
  BY <1>1, <1>2, <1>4 DEF Files
<1>6. NewFiles.helpers = 0 /\ NewFiles.marker = [n \in Markers |-> NoMarker] /\ NewFiles.built = 0
  BY DEF NewFiles
<1>7. ~broken => /\ \A m \in Mounts : fs.mount[m] \in {"empty", "full", "edited"}
                 /\ fs.repo \in {"none", "full"}
  BY DEF DevInv, SetupInv, MountsWhole, RepoWhole
<1>8. SetupInv' BY <1>3, <1>5, <1>6, <1>7, SetupInvNew DEF DevInv, NewPod
<1>9. clock + 1 \in Nat BY DEF DevInv, RunnerTypeOK
<1>10. container' \in Containers /\ container'.image = image BY <1>9 DEF NewPod, Containers
<1> QED BY <1>5, <1>6, <1>8, <1>9, <1>10 DEF NewPod

\* What starting the container changes: it runs, and it has been started once more.
LEMMA StartContainerMeans ==
    ASSUME DevInv, setup = "idle", container \in Containers, StartContainer, UNCHANGED config
    PROVE  SetupInv' /\ setup' = "idle" /\ clock' \in Nat /\ container' \in Containers
<1>1. SetupInv' BY SetupInvStart DEF DevInv, StartContainer
<1>2. clock + 1 \in Nat BY DEF DevInv, RunnerTypeOK
<1>3. container' \in Containers BY <1>2 DEF StartContainer, Containers
<1> QED BY <1>1, <1>2, <1>3 DEF StartContainer

\* What ends the container, when no setup runs.
LEMMA StopContainerMeans ==
    ASSUME DevInv, setup = "idle", container \in Containers, StopContainer, UNCHANGED config
    PROVE  SetupInv' /\ setup' = "idle" /\ clock' \in Nat /\ container' \in Containers
<1>1. SetupInv' BY SetupInvStop DEF DevInv, StopContainer
<1>2. container' \in Containers BY DEF StopContainer, Containers
<1> QED BY <1>1, <1>2 DEF StopContainer, DevInv, RunnerTypeOK

\* A step of the setup builds what was streamed.
LEMMA StepKeepsRecreated ==
    ASSUME SetupInv, CommandAt, Recreated, StepAt, version \in Nat \ {0},
           UNCHANGED <<version, container, upCmd>>
    PROVE  Recreated'
<1> SUFFICES ASSUME upCmd.pc = "setup", upCmd.recreate PROVE Recreated'
  BY DEF Recreated
<1>1. CASE InfoStreamed BY <1>1 DEF Recreated, StepAt, InfoStreamed, BeforeBuild
<1>2. CASE InfoUsed BY <1>2 DEF Recreated, CommandAt, StepAt, InfoUsed, BeforeBuild
<1>3. CASE InfoKept BY <1>3 DEF Recreated, StepAt, InfoKept, BeforeBuild
<1> QED BY <1>1, <1>2, <1>3 DEF StepAt

\* The initial states satisfy the invariant.
LEMMA DevInvInit == DevInit => DevInv
<1> SUFFICES ASSUME DevInit PROVE DevInv
  OBVIOUS
<1>1. /\ setup = "idle" /\ run = NoRun /\ fs = NewFiles /\ procs = NoProcs
      /\ ran = [h \in HookNames |-> 0] /\ broken = FALSE
  BY DEF DevInit, SetupInit
<1>2. /\ fs \in Files /\ fs.mount = [m \in Mounts |-> "empty"] /\ fs.repo = "none" /\ fs.helpers = 0
      /\ fs.marker = [n \in Markers |-> NoMarker]
  BY <1>1 DEF NewFiles, Files
<1>3. run \in Runs /\ ~run.lent BY <1>1 DEF NoRun, Runs
<1>4. SetupTypeOK BY <1>1, <1>2, <1>3 DEF SetupTypeOK, NoProcs, SetupPcs
<1>5. procs["daemon"].running = 0 BY <1>1 DEF NoProcs
<1>6. /\ FailedIsBroken /\ MountsWhole /\ RepoWhole /\ HelperTakenBack /\ ImageBuilt /\ ResultWritten /\ KeysWritten /\ DaemonOnce
  BY <1>1, <1>2, <1>3, <1>5
  DEF FailedIsBroken, MountsWhole, Streams, RepoWhole, HelperTakenBack, ImageBuilt, ResultWritten, KeysWritten, DaemonOnce, FromDaemon, FromHook5, FromHook4, FromHook3, FromHook2, FromHook1, FromKeys, FromProfile, FromEnv,
      FromChown, FromResult, FromClone, FromGit, FromBuild, FromMounts
<1>7. \A n \in Markers : fs.marker[n] = NoMarker BY <1>2
<1>8. Chowned /\ Profiled /\ EnvPatched /\ MarkedHooksRan /\ PastHooksRan
  BY <1>1, <1>7, HookFacts
  DEF Chowned, Profiled, EnvPatched, MarkedHooksRan, MarkedHookRan, PastHooksRan, PastHookRan, FromDaemon, FromHook5, FromHook4, FromHook3, FromHook2, FromHook1, FromKeys, FromProfile, FromEnv,
      FromChown, FromResult, FromClone, FromGit, FromBuild, FromMounts
<1>9. NoImage \in Images /\ NoUp \in UpRecords /\ NoUp.pc = "idle"
  BY DEF NoImage, NoUp, Images, UpRecords, UpPcs
<1>10. container \in Containers \cup {NoContainer} BY <1>9 DEF DevInit, Containers
<1>11. RunnerTypeOK BY <1>9, <1>10 DEF DevInit, RunnerTypeOK
<1>12. upCmd.pc = "idle" BY <1>9 DEF DevInit
<1>13. CommandAt /\ Recreated BY <1>1, <1>12 DEF CommandAt, Recreated
<1> QED BY <1>4, <1>6, <1>8, <1>11, <1>13 DEF DevInv, SetupInv

\* Every step of the runner, of the setup and of the user, and every fault keeps it.
LEMMA DevInvNext == DevInv /\ [DevNext]_devVars => DevInv'
<1> SUFFICES ASSUME DevInv, [DevNext]_devVars PROVE DevInv'
  OBVIOUS
<1>t. RunnerTypeOK /\ upCmd \in UpRecords BY DEF DevInv, RunnerTypeOK
<1>c. CommandAt /\ Recreated BY DEF DevInv
<1>s. SetupInv BY DEF DevInv
<1>v. setup # "idle" => upCmd.pc = "setup" BY <1>c DEF CommandAt
<1>u. upCmd.details \in Containers \cup {NoContainer} /\ upCmd.image \in Images
  BY <1>t DEF UpRecords
<1>q. UNCHANGED <<setupVars, config>> => SetupInv' BY <1>s, SetupInvQuiet
<1>1. ASSUME NEW r \in BOOLEAN, Up(r) PROVE DevInv'
  <2> DEFINE e == [NoUp EXCEPT !.pc = "initialize", !.up = TRUE, !.recreate = r]
  <2>1. e \in UpRecords BY <1>t DEF NoUp, NoImage, UpRecords, UpPcs, Images, RunnerTypeOK
  <2>2. e.pc = "initialize" BY DEF NoUp
  <2>3. upCmd' = e BY <1>1 DEF Up
  <2> HIDE DEF e
  <2>4. /\ upCmd.pc = "idle" /\ UNCHANGED <<config, version, container, clock, upFaults, setupVars>>
    BY <1>1 DEF Up
  <2>5. setup = "idle" /\ setup' = "idle" BY <1>v, <2>4 DEF setupVars
  <2>6. RunnerTypeOK' BY <1>t, <2>1, <2>3, <2>4 DEF RunnerTypeOK
  <2>7. CommandAt' /\ Recreated' BY <1>t, <2>2, <2>3, <2>4, <2>5 DEF CommandAt, Recreated, RunnerTypeOK
  <2> QED BY <1>q, <2>4, <2>6, <2>7 DEF DevInv
\* A step of the command that leaves the container and the setup alone.
<1>m. ASSUME NEW p \in UpPcs, NEW d \in Containers \cup {NoContainer}, NEW i \in Images, Moved(p, d, i),
             UNCHANGED <<config, version, container, clock, upFaults, setupVars>>,
             setup = "idle", upCmd.pc # "idle", p # "failed",
             p \in {"start", "reprovision"} => container \in Containers,
             p \in {"start", "setup"} => d \in Containers,
             p \in {"start", "reprovision", "composeRestart"} => ~upCmd.recreate,
             p \in {"delete", "run", "composeDelete", "composeUp"} => i.version = version,
             p = "composeUp" /\ upCmd.recreate => d = NoContainer \/ container = NoContainer,
             p = "setup" => ~upCmd.recreate
      PROVE  DevInv'
  <2>1. setup' = "idle" BY <1>m DEF setupVars
  <2>2. RunnerTypeOK' BY <1>m, <1>t DEF RunnerTypeOK, Moved
  <2>3. CommandAt' BY <1>m, <2>1 DEF CommandAt, Moved
  <2>4. Recreated' BY <1>m DEF Recreated, Moved
  <2> QED BY <1>m, <1>q, <2>2, <2>3, <2>4 DEF DevInv
\* A step after which another container runs, or none does.
<1>n. ASSUME NEW p \in {"run", "setup", "reprovision", "composeUp", "failed"},
             NEW d \in Containers \cup {NoContainer}, Moved(p, d, upCmd.image),
             UNCHANGED <<config, version>>, SetupInv', setup' = "idle", clock' \in Nat, upFaults' \in Nat,
             container' \in Containers \cup {NoContainer}, upCmd.pc # "idle",
             p = "reprovision" => container' \in Containers /\ ~upCmd.recreate,
             p = "setup" => d \in Containers,
             p \in {"run", "composeUp"} => upCmd.image.version = version,
             p = "composeUp" => container' = NoContainer,
             p = "setup" /\ upCmd.recreate => /\ container'.image = upCmd.image /\ fs'.built = 0
                                              /\ upCmd.image.version = version
      PROVE  DevInv'
  <2>1. RunnerTypeOK' BY <1>n, <1>t DEF RunnerTypeOK, Moved
  <2>2. CommandAt' BY <1>n DEF CommandAt, Moved
  <2>3. Recreated' BY <1>n DEF Recreated, Moved, BeforeBuild
  <2> QED BY <1>n, <2>1, <2>2, <2>3 DEF DevInv
\* A step of the user between commands.
<1>o. ASSUME upCmd.pc = "idle", upCmd' = upCmd, config' = config, version' \in Nat \ {0}, SetupInv', setup' = "idle",
             clock' \in Nat, upFaults' \in Nat, container' \in Containers \cup {NoContainer}
      PROVE  DevInv'
  <2>1. RunnerTypeOK' BY <1>o, <1>t DEF RunnerTypeOK
  <2>2. CommandAt' /\ Recreated' BY <1>o DEF CommandAt, Recreated
  <2> QED BY <1>o, <2>1, <2>2 DEF DevInv
<1>r. ASSUME ContainerRemoved, UNCHANGED config, setup = "idle"
      PROVE  SetupInv' /\ setup' = "idle" /\ clock' \in Nat /\ container' = NoContainer
  BY <1>r, <1>q, <1>t DEF ContainerRemoved, setupVars, RunnerTypeOK
<1>e. Exists => container \in Containers BY <1>t DEF Exists, RunnerTypeOK
<1>2. ASSUME NEW delete \in BOOLEAN, StopOrDelete(delete) PROVE DevInv'
  <2>1. upCmd.pc = "idle" /\ setup = "idle" /\ UNCHANGED <<config, version, upCmd, upFaults>>
    BY <1>2, <1>v DEF StopOrDelete
  <2>2. SetupInv' /\ setup' = "idle" /\ clock' \in Nat /\ container' \in Containers \cup {NoContainer}
    <3>1. CASE UNCHANGED <<container, clock, setupVars>> BY <1>q, <1>t, <2>1, <3>1 DEF RunnerTypeOK, setupVars
    <3>2. CASE Exists /\ StopContainer BY <1>e, <2>1, <3>2, StopContainerMeans
    <3>3. CASE ContainerRemoved BY <1>r, <2>1, <3>3
    <3> QED BY <1>2, <3>1, <3>2, <3>3 DEF StopOrDelete
  <2> QED BY <1>o, <1>t, <2>1, <2>2 DEF RunnerTypeOK
<1>3. CASE RunInitializeCommand
  <2>1. PICK p \in {"composeFind", "refused", "find"} : UpStep(p) BY <1>3 DEF RunInitializeCommand
  <2>2. Moved(p, upCmd.details, upCmd.image) BY <1>t, <2>1, UpStepMeans DEF UpPcs
  <2>3. upCmd.pc = "initialize" /\ UNCHANGED <<config, version, container, clock, upFaults, setupVars>>
    BY <1>3 DEF RunInitializeCommand
  <2> QED BY <1>m, <1>u, <1>v, <2>1, <2>2, <2>3 DEF UpPcs
<1>4. CASE RunSingleContainer
  <2> DEFINE p == IF upCmd.recreate /\ config.kind = "container" THEN "refused"
                  ELSE IF ~upCmd.recreate /\ Exists THEN "start" ELSE "build"
  <2>1. upCmd' = [upCmd EXCEPT !.details = container, !.pc = p] BY <1>4 DEF RunSingleContainer
  <2>2. p \in {"refused", "start", "build"} /\ (p = "start" => ~upCmd.recreate /\ Exists) OBVIOUS
  <2> HIDE DEF p
  <2>3. container \in Containers \cup {NoContainer} BY <1>t DEF RunnerTypeOK
  <2>4. Moved(p, container, upCmd.image) BY <1>t, <2>1, <2>2, <2>3, DetailsRead DEF UpPcs
  <2>5. upCmd.pc = "find" /\ UNCHANGED <<config, version, container, clock, upFaults, setupVars>>
    BY <1>4 DEF RunSingleContainer
  <2> QED BY <1>e, <1>m, <1>u, <1>v, <2>2, <2>3, <2>4, <2>5 DEF UpPcs
<1>5. CASE RestartContainer
  <2>1. PICK p \in {"reprovision", "setup"} : UpStep(p) BY <1>5 DEF RestartContainer
  <2>2. Moved(p, upCmd.details, upCmd.image) BY <1>t, <2>1, UpStepMeans DEF UpPcs
  <2>3. upCmd.pc = "start" /\ UNCHANGED <<config, version, upFaults>> BY <1>5 DEF RestartContainer
  <2>4. container \in Containers /\ upCmd.details \in Containers /\ ~upCmd.recreate /\ setup = "idle"
    BY <1>c, <2>3 DEF CommandAt
  <2>5. SetupInv' /\ setup' = "idle" /\ clock' \in Nat /\ container' \in Containers
    <3>1. CASE UNCHANGED <<clock, container, setupVars>>
      BY <1>q, <1>t, <2>3, <2>4, <3>1 DEF RunnerTypeOK, setupVars
    <3>2. CASE StartContainer BY <2>3, <2>4, <3>2, StartContainerMeans
    <3>3. CASE NewPod(container.kept)
      <4>1. container.kept \in Images BY <2>4 DEF Containers
      <4> QED BY <2>3, <2>4, <3>3, <4>1, NewPodMeans
    <3> QED BY <1>5, <3>1, <3>2, <3>3 DEF RestartContainer
  <2>6. upFaults' \in Nat BY <1>t, <2>3 DEF RunnerTypeOK
  <2> QED BY <1>n, <1>u, <2>1, <2>2, <2>3, <2>4, <2>5, <2>6
<1>6. CASE Reprovision
  <2>1. container \in Containers /\ ~upCmd.recreate /\ upCmd.pc = "reprovision" /\ setup = "idle"
    BY <1>6, <1>c DEF Reprovision, CommandAt
  <2>2. UNCHANGED <<config, version, upFaults>> BY <1>6 DEF Reprovision
  <2>3. SetupInv' /\ setup' = "idle" /\ clock' \in Nat /\ container' \in Containers
    <3>1. CASE UNCHANGED <<clock, container, setupVars>>
      BY <1>q, <1>t, <2>1, <2>2, <3>1 DEF RunnerTypeOK, setupVars
    <3>2. CASE NewPod(container.kept)
      <4>1. container.kept \in Images BY <2>1 DEF Containers
      <4> QED BY <2>1, <2>2, <3>2, <4>1, NewPodMeans
    <3> QED BY <1>6, <3>1, <3>2 DEF Reprovision
  <2>4. Moved("setup", container', upCmd.image) BY <1>6, <1>t, <2>3, DetailsRead DEF Reprovision, UpPcs
  <2>5. upFaults' \in Nat BY <1>t, <2>2 DEF RunnerTypeOK
  <2> QED BY <1>n, <2>1, <2>2, <2>3, <2>4, <2>5
<1>x. ASSUME upCmd.pc = "build", Refuse PROVE DevInv'
  <2>1. Moved("refused", upCmd.details, upCmd.image) BY <1>x, <1>t, UpStepMeans DEF Refuse, UpPcs
  <2> QED BY <1>m, <1>u, <1>v, <1>x, <2>1 DEF Refuse, UpPcs
<1>7. CASE BuildImage
  <2>1. CASE Refuse BY <1>7, <1>x, <2>1 DEF BuildImage
  <2>2. CASE Built([version |-> version, dockerless |-> LeftToContainer])
    <3> DEFINE i == [version |-> version, dockerless |-> LeftToContainer]
               p == IF upCmd.recreate THEN "delete" ELSE "run"
    <3>1. i \in Images /\ i.version = version
      <4>1. LeftToContainer \in BOOLEAN BY DEF LeftToContainer
      <4> QED BY <1>t, <4>1 DEF Images, RunnerTypeOK
    <3>2. upCmd' = [upCmd EXCEPT !.image = i, !.pc = p]
          /\ UNCHANGED <<config, version, container, clock, upFaults, setupVars>>
      BY <2>2 DEF Built
    <3>3. p \in {"delete", "run"} OBVIOUS
    <3> HIDE DEF i, p
    <3>4. Moved(p, upCmd.details, i) BY <1>t, <3>1, <3>2, <3>3, ImageRead DEF UpPcs
    <3> QED BY <1>7, <1>m, <1>u, <1>v, <3>1, <3>2, <3>3, <3>4 DEF BuildImage, UpPcs
  <2> QED BY <1>7, <2>1, <2>2 DEF BuildImage
<1>8. CASE BuildNothing BY <1>8, <1>x DEF BuildNothing
<1>9. CASE DeleteOnRecreate
  <2>1. upCmd.pc = "delete" /\ UNCHANGED <<config, version, upFaults>> BY <1>9 DEF DeleteOnRecreate
  <2>2. Moved("run", upCmd.details, upCmd.image) BY <1>9, <1>t, UpStepMeans DEF DeleteOnRecreate, UpPcs
  <2>3. setup = "idle" /\ upCmd.image.version = version BY <1>c, <2>1 DEF CommandAt
  <2>4. SetupInv' /\ setup' = "idle" /\ clock' \in Nat /\ container' \in Containers \cup {NoContainer}
    <3>1. CASE ContainerRemoved BY <1>r, <2>1, <2>3, <3>1
    <3>2. CASE UNCHANGED <<container, clock, setupVars>> BY <1>q, <1>t, <2>1, <2>3, <3>2 DEF RunnerTypeOK, setupVars
    <3>3. CASE Exists /\ StopContainer BY <1>e, <2>1, <2>3, <3>3, StopContainerMeans
    <3> QED BY <1>9, <3>1, <3>2, <3>3 DEF DeleteOnRecreate
  <2>5. upFaults' \in Nat BY <1>t, <2>1 DEF RunnerTypeOK
  <2> QED BY <1>n, <1>u, <2>1, <2>2, <2>3, <2>4, <2>5
<1>10. CASE RunContainer
  <2>1. upCmd.pc = "run" /\ UNCHANGED <<config, version, upFaults>> BY <1>10 DEF RunContainer
  <2>2. setup = "idle" /\ upCmd.image.version = version BY <1>c, <2>1 DEF CommandAt
  <2>3. /\ SetupInv' /\ setup' = "idle" /\ clock' \in Nat
        /\ container' \in Containers /\ container'.image = upCmd.image /\ fs'.built = 0
    <3>1. CASE HasClaim
      <4>1. container \in Containers /\ NewPod(upCmd.image)
        BY <1>10, <1>e, <3>1 DEF RunContainer, NewContainer, HasClaim
      <4> QED BY <1>u, <2>1, <2>2, <4>1, NewPodMeans
    <3>2. CASE ~HasClaim
      <4>1. FromScratch BY <1>10, <3>2 DEF RunContainer, NewContainer
      <4> QED BY <2>1, <2>2, <4>1, FromScratchMeans
    <3> QED BY <3>1, <3>2
  <2>4. Moved("setup", container', upCmd.image) BY <1>10, <1>t, <2>3, DetailsRead DEF RunContainer, UpPcs
  <2>5. upFaults' \in Nat BY <1>t, <2>1 DEF RunnerTypeOK
  <2> QED BY <1>n, <2>1, <2>2, <2>3, <2>4, <2>5
<1>11. CASE RunDockerCompose
  <2> DEFINE p == IF ContainerRunning /\ ~upCmd.recreate THEN "setup"
                  ELSE IF project # "none" /\ ~upCmd.recreate THEN "composeRestart" ELSE "composeBuild"
  <2>1. upCmd' = [upCmd EXCEPT !.details = container, !.pc = p] BY <1>11 DEF RunDockerCompose
  <2>2. /\ p \in {"setup", "composeRestart", "composeBuild"} /\ (p = "setup" => ~upCmd.recreate /\ Exists)
        /\ (p = "composeRestart" => ~upCmd.recreate)
    BY DEF ContainerRunning
  <2> HIDE DEF p
  <2>3. container \in Containers \cup {NoContainer} BY <1>t DEF RunnerTypeOK
  <2>4. Moved(p, container, upCmd.image) BY <1>t, <2>1, <2>2, <2>3, DetailsRead DEF UpPcs
  <2>5. upCmd.pc = "composeFind" /\ UNCHANGED <<config, version, container, clock, upFaults, setupVars>>
    BY <1>11 DEF RunDockerCompose
  <2> QED BY <1>e, <1>m, <1>u, <1>v, <2>2, <2>3, <2>4, <2>5 DEF UpPcs
<1>12. CASE ComposeRestart
  <2>1. upCmd.pc = "composeRestart" /\ UNCHANGED <<config, version, upFaults>> BY <1>12 DEF ComposeRestart
  <2>2. setup = "idle" /\ ~upCmd.recreate BY <1>c, <2>1 DEF CommandAt
  <2>3. CASE /\ IF Exists THEN StartContainer ELSE FromScratch
             /\ upCmd' = [upCmd EXCEPT !.pc = "setup", !.details = container']
    <3>1. SetupInv' /\ setup' = "idle" /\ clock' \in Nat /\ container' \in Containers
      BY <1>e, <2>1, <2>2, <2>3, FromScratchMeans, StartContainerMeans
    <3>2. Moved("setup", container', upCmd.image) BY <1>t, <2>3, <3>1, DetailsRead DEF UpPcs
    <3>3. upFaults' \in Nat BY <1>t, <2>1 DEF RunnerTypeOK
    <3> QED BY <1>n, <2>1, <2>2, <3>1, <3>2, <3>3
  <2>4. CASE /\ upCmd' = [upCmd EXCEPT !.pc = "composeBuild", !.details = NoContainer]
             /\ UNCHANGED <<container, clock, setupVars>>
    <3>1. Moved("composeBuild", NoContainer, upCmd.image) BY <1>t, <2>4, DetailsRead DEF UpPcs
    <3> QED BY <1>m, <1>u, <2>1, <2>2, <2>4, <3>1 DEF UpPcs
  <2> QED BY <1>12, <2>3, <2>4 DEF ComposeRestart
<1>13. CASE BuildAndExtendDockerCompose
  <2> DEFINE i == [version |-> version, dockerless |-> FALSE]
             p == IF upCmd.details # NoContainer /\ upCmd.recreate THEN "composeDelete" ELSE "composeUp"
  <2>1. i \in Images /\ i.version = version BY <1>t DEF Images, RunnerTypeOK
  <2>2. /\ p \in {"composeDelete", "composeUp"}
        /\ p = "composeUp" /\ upCmd.recreate => upCmd.details = NoContainer
    OBVIOUS
  <2>3. /\ upCmd.pc = "composeBuild" /\ upCmd' = [upCmd EXCEPT !.image = i, !.pc = p]
        /\ UNCHANGED <<config, version, container, clock, upFaults, setupVars>>
    BY <1>13 DEF BuildAndExtendDockerCompose
  <2> HIDE DEF i, p
  <2>4. Moved(p, upCmd.details, i) BY <1>t, <2>1, <2>2, <2>3, ImageRead DEF UpPcs
  <2> QED BY <1>m, <1>u, <1>v, <2>1, <2>2, <2>3, <2>4 DEF UpPcs
<1>14. CASE ComposeDelete
  <2>1. upCmd.pc = "composeDelete" /\ UNCHANGED <<config, version, upFaults>> BY <1>14 DEF ComposeDelete
  <2>2. Moved("composeUp", upCmd.details, upCmd.image) BY <1>14, <1>t, UpStepMeans DEF ComposeDelete, UpPcs
  <2>3. setup = "idle" /\ upCmd.image.version = version BY <1>c, <2>1 DEF CommandAt
  <2>4. SetupInv' /\ setup' = "idle" /\ clock' \in Nat /\ container' = NoContainer
    BY <1>14, <1>r, <2>1, <2>3 DEF ComposeDelete
  <2>5. upFaults' \in Nat BY <1>t, <2>1 DEF RunnerTypeOK
  <2> QED BY <1>n, <1>u, <2>1, <2>2, <2>3, <2>4, <2>5
<1>15. CASE ComposeUp
  <2>1. upCmd.pc = "composeUp" /\ UNCHANGED <<config, version, upFaults>> BY <1>15 DEF ComposeUp
  <2>2. /\ setup = "idle" /\ upCmd.image.version = version
        /\ upCmd.recreate => upCmd.details = NoContainer \/ container = NoContainer
    BY <1>c, <2>1 DEF CommandAt
  <2>3. /\ SetupInv' /\ setup' = "idle" /\ clock' \in Nat /\ container' \in Containers
        /\ upCmd.recreate => container'.image = upCmd.image /\ fs'.built = 0
    <3>1. CASE Exists /\ upCmd.details # NoContainer /\ StartContainer
      <4>1. ~upCmd.recreate BY <2>2, <3>1 DEF Exists
      <4> QED BY <1>e, <2>1, <2>2, <3>1, <4>1, StartContainerMeans
    <3>2. CASE FromScratch BY <2>1, <2>2, <3>2, FromScratchMeans
    <3> QED BY <1>15, <3>1, <3>2 DEF ComposeUp
  <2>4. Moved("setup", container', upCmd.image) BY <1>15, <1>t, <2>3, DetailsRead DEF ComposeUp, UpPcs
  <2>5. upFaults' \in Nat BY <1>t, <2>1 DEF RunnerTypeOK
  <2> QED BY <1>n, <2>1, <2>2, <2>3, <2>4, <2>5
<1>16. CASE SetupContainer
  <2>1. /\ upCmd.pc = "setup" /\ setup = "idle" /\ setup' = "connect" /\ setupInfo' \in SetupInfos
        /\ UNCHANGED <<fs, procs, ran, broken>> /\ UNCHANGED <<config, version, container, clock, upCmd, upFaults>>
    BY <1>16 DEF SetupContainer, runnerVars
  <2>2. container \in Containers BY <1>16, <1>e DEF SetupContainer, ContainerRunning
  <2>3. upCmd.details \in Containers BY <1>c, <2>1 DEF CommandAt
  <2>4. upCmd.recreate \in BOOLEAN BY <1>t DEF UpRecords
  <2>5. setupInfo'.mounts \subseteq Mounts BY <2>1, ContainerSetupAssumption
  <2>6. PICK reset \in BOOLEAN :
            run' = [created |-> upCmd.details.created, started |-> upCmd.details.started,
                    recreate |-> upCmd.recreate, reset |-> reset,
                    dockerless |-> container.image.dockerless,
                    info |-> IF upCmd.image.dockerless THEN upCmd.image.version ELSE 0,
                    streamed |-> FALSE, lent |-> FALSE,
                    todo |-> IF config.driver = "docker" THEN {} ELSE setupInfo'.mounts]
    BY <1>16 DEF SetupContainer
  <2>7. /\ run' \in Runs /\ run'.lent = FALSE /\ run'.dockerless = container.image.dockerless
        /\ run'.todo = Streams' /\ run'.streamed = FALSE
        /\ (upCmd.image.dockerless => run'.info = upCmd.image.version)
    BY <1>u, <2>1, <2>2, <2>3, <2>4, <2>5, <2>6 DEF Runs, Containers, Images, Streams
  <2>8. SetupTypeOK' BY <1>s, <2>1, <2>7 DEF SetupInv, SetupTypeOK, SetupPcs
  <2>9. MountsWhole' /\ HelperTakenBack' BY <1>s, <2>1, <2>7 DEF SetupInv, MountsWhole, HelperTakenBack, FromDaemon, FromHook5, FromHook4, FromHook3, FromHook2, FromHook1, FromKeys, FromProfile, FromEnv,
      FromChown, FromResult, FromClone, FromGit, FromBuild, FromMounts
  <2>10. /\ ImageBuilt' /\ RepoWhole' /\ ResultWritten' /\ Chowned' /\ Profiled' /\ KeysWritten' /\ DaemonOnce'
    BY <1>s, <2>1 DEF SetupInv, ImageBuilt, RepoWhole, ResultWritten, Chowned, Profiled, KeysWritten, DaemonOnce,
      FromDaemon, FromHook5, FromHook4, FromHook3, FromHook2, FromHook1, FromKeys, FromProfile, FromEnv,
      FromChown, FromResult, FromClone, FromGit, FromBuild, FromMounts
  <2>11. EnvPatched' /\ MarkedHooksRan' /\ PastHooksRan'
    BY <1>s, <2>1 DEF SetupInv, EnvPatched, MarkedHooksRan, MarkedHookRan, PastHooksRan, PastHookRan, FromDaemon, FromHook5, FromHook4, FromHook3, FromHook2, FromHook1, FromKeys, FromProfile, FromEnv,
      FromChown, FromResult, FromClone, FromGit, FromBuild, FromMounts
  <2>12. RunnerTypeOK' BY <1>t, <2>1 DEF RunnerTypeOK
  <2>13. CommandAt' /\ Recreated' BY <1>c, <2>1, <2>2, <2>7 DEF CommandAt, Recreated, BeforeBuild
  <2> QED BY <2>1, <2>8, <2>9, <2>10, <2>11, <2>12, <2>13 DEF DevInv, SetupInv, FailedIsBroken
<1>17. CASE SetupEnds
  <2>1. /\ upCmd.pc = "setup" /\ setup \in {"ok", "failed"} /\ setup' = "idle" /\ run' = NoRun
        /\ UNCHANGED <<config, version, container, clock, upFaults>> /\ UNCHANGED <<setupInfo, fs, procs, ran, broken>>
    BY <1>17 DEF SetupEnds
  <2>2. Moved(setup, upCmd.details, upCmd.image) BY <1>17, <1>t, UpStepMeans DEF SetupEnds, UpPcs
  <2>3. run' \in Runs /\ run'.lent = FALSE BY <2>1 DEF NoRun, Runs
  <2>4. SetupTypeOK' BY <1>s, <2>1, <2>3 DEF SetupInv, SetupTypeOK, SetupPcs
  <2>6. setup = "failed" => broken BY <1>s DEF SetupInv, FailedIsBroken
  <2>7. MountsWhole' /\ HelperTakenBack'
    BY <1>s, <2>1, <2>3, <2>6 DEF SetupInv, MountsWhole, HelperTakenBack, FromDaemon, FromHook5, FromHook4, FromHook3, FromHook2, FromHook1, FromKeys, FromProfile, FromEnv,
      FromChown, FromResult, FromClone, FromGit, FromBuild, FromMounts
  <2>8. /\ ImageBuilt' /\ RepoWhole' /\ ResultWritten' /\ Chowned' /\ Profiled' /\ KeysWritten' /\ DaemonOnce'
    BY <1>s, <2>1 DEF SetupInv, ImageBuilt, RepoWhole, ResultWritten, Chowned, Profiled, KeysWritten, DaemonOnce,
      FromDaemon, FromHook5, FromHook4, FromHook3, FromHook2, FromHook1, FromKeys, FromProfile, FromEnv,
      FromChown, FromResult, FromClone, FromGit, FromBuild, FromMounts
  <2>9. EnvPatched' /\ MarkedHooksRan' /\ PastHooksRan'
    BY <1>s, <2>1 DEF SetupInv, EnvPatched, MarkedHooksRan, MarkedHookRan, PastHooksRan, PastHookRan, FromDaemon, FromHook5, FromHook4, FromHook3, FromHook2, FromHook1, FromKeys, FromProfile, FromEnv,
      FromChown, FromResult, FromClone, FromGit, FromBuild, FromMounts
  <2>10. RunnerTypeOK' BY <1>t, <2>1, <2>2 DEF RunnerTypeOK, Moved
  <2>11. CommandAt' /\ Recreated' BY <1>c, <2>1, <2>2 DEF CommandAt, Recreated, Moved
  <2> QED BY <2>1, <2>4, <2>7, <2>8, <2>9, <2>10, <2>11 DEF DevInv, SetupInv, FailedIsBroken
<1>18. CASE UpReturned
  <2>1. NoUp \in UpRecords /\ NoUp.pc = "idle" BY DEF NoUp, NoImage, UpRecords, UpPcs, Images
  <2>2. /\ upCmd' = NoUp /\ UNCHANGED <<config, version, container, clock, upFaults, setupVars>>
        /\ upCmd.pc # "setup"
    BY <1>18 DEF UpReturned
  <2>3. setup' = "idle" BY <1>v, <2>2 DEF setupVars
  <2>4. RunnerTypeOK' BY <1>t, <2>1, <2>2 DEF RunnerTypeOK
  <2>5. CommandAt' /\ Recreated' BY <2>1, <2>2, <2>3 DEF CommandAt, Recreated
  <2> QED BY <1>q, <2>2, <2>4, <2>5 DEF DevInv
<1>19. CASE Outside
  <2>1. upCmd.pc = "idle" /\ setup = "idle" /\ UNCHANGED <<config, version, upCmd>> /\ upFaults' = upFaults + 1
    BY <1>19, <1>v DEF Outside
  <2>2. SetupInv' /\ setup' = "idle" /\ clock' \in Nat /\ container' \in Containers \cup {NoContainer}
    <3>1. CASE UNCHANGED <<container, clock, setupVars>> BY <1>q, <1>t, <2>1, <3>1 DEF RunnerTypeOK, setupVars
    <3>2. CASE Exists /\ StopContainer BY <1>e, <2>1, <3>2, StopContainerMeans
    <3>3. CASE ContainerRemoved BY <1>r, <2>1, <3>3
    <3> QED BY <1>19, <3>1, <3>2, <3>3 DEF Outside, ContainerRunning
  <2> QED BY <1>o, <1>t, <2>1, <2>2 DEF RunnerTypeOK
<1>20. CASE PushPrebuild \/ EditConfig
  <2>1. /\ upCmd.pc = "idle" /\ version' \in Nat \ {0} /\ UNCHANGED <<config, container, clock, upCmd, upFaults, setupVars>>
    BY <1>20, <1>t DEF PushPrebuild, EditConfig, RunnerTypeOK
  <2>2. setup' = "idle" BY <1>v, <2>1 DEF setupVars
  <2> QED BY <1>o, <1>q, <1>t, <2>1, <2>2 DEF RunnerTypeOK
<1>21. ASSUME NEW m \in Mounts, UserEdits(m) PROVE DevInv'
  <2>1. /\ upCmd.pc = "idle" /\ setup = "idle" /\ UNCHANGED <<config, version, container, clock, upCmd, upFaults>>
        /\ UNCHANGED <<setup, setupInfo, run, procs, ran, broken>> /\ fs' = [fs EXCEPT !.mount[m] = "edited"]
    BY <1>21, <1>v DEF UserEdits, runnerVars
  <2>2. SetupInv' BY <1>s, <2>1, SetupInvEdit
  <2> QED BY <1>o, <1>t, <2>1, <2>2 DEF RunnerTypeOK
<1>22. CASE SetupStep /\ UNCHANGED runnerVars
  <2>1. SetupInv' /\ StepAt BY <1>22, <1>s, SetupInvStep
  <2>2. UNCHANGED <<config, version, container, clock, upCmd, upFaults>> BY <1>22 DEF runnerVars
  <2>3. RunnerTypeOK' BY <1>t, <2>2 DEF RunnerTypeOK
  <2>4. CommandAt' BY <1>c, <2>1, <2>2 DEF CommandAt, StepAt
  <2>5. Recreated' BY <1>s, <1>c, <1>v, <1>t, <2>1, <2>2, StepKeepsRecreated DEF RunnerTypeOK
  <2> QED BY <2>1, <2>3, <2>4, <2>5 DEF DevInv
<1>23. CASE UpFault
  <2>0. upFaults' = upFaults + 1 /\ upFaults' \in Nat
    BY <1>23, <1>t DEF UpFault, RunnerTypeOK
  <2>1. CASE RunnerFails
    <3>1. Moved("failed", upCmd.details, upCmd.image) BY <1>t, <2>1, UpStepMeans DEF RunnerFails, UpPcs
    <3>2. /\ upCmd.pc # "idle" /\ setup = "idle" /\ UNCHANGED <<config, version, container, clock, setupVars>>
      BY <2>1 DEF RunnerFails
    <3>3. SetupInv' /\ setup' = "idle" /\ clock' \in Nat /\ container' \in Containers \cup {NoContainer}
      BY <1>q, <1>t, <3>2 DEF setupVars, RunnerTypeOK
    <3> QED BY <1>n, <1>u, <2>0, <3>1, <3>2, <3>3
  <2>2. CASE RunContainerFailsLate
    <3>1. Moved("failed", upCmd.details, upCmd.image) BY <1>t, <2>2, UpStepMeans DEF RunContainerFailsLate, UpPcs
    <3>2. upCmd.pc = "run" /\ setup = "idle" /\ UNCHANGED <<config, version>>
      BY <1>v, <2>2 DEF RunContainerFailsLate
    <3>3. SetupInv' /\ setup' = "idle" /\ clock' \in Nat /\ container' \in Containers
      BY <2>2, <3>2, FromScratchMeans DEF RunContainerFailsLate
    <3> QED BY <1>n, <1>u, <2>0, <3>1, <3>2, <3>3
  <2>3. CASE ComposeRestartFails
    <3>1. Moved("composeBuild", upCmd.details, upCmd.image) BY <1>t, <2>3, UpStepMeans DEF ComposeRestartFails, UpPcs
    <3>2. upCmd.pc = "composeRestart" /\ setup = "idle" /\ UNCHANGED <<config, version, container, clock, setupVars>>
      BY <1>v, <2>3 DEF ComposeRestartFails
    <3>3. setup' = "idle" /\ SetupInv' BY <1>q, <3>2 DEF setupVars
    <3>4. RunnerTypeOK' BY <1>t, <2>0, <3>1, <3>2 DEF RunnerTypeOK, Moved
    <3>5. CommandAt' BY <3>1, <3>3 DEF CommandAt, Moved
    <3>6. Recreated' BY <3>1 DEF Recreated, Moved
    <3> QED BY <3>3, <3>4, <3>5, <3>6 DEF DevInv
  <2>4. CASE SetupFault /\ UNCHANGED <<config, version, registry, container, clock, project, upCmd, upCommands>>
    <3>1. SetupInv' /\ setup # "idle" /\ setup' = "failed" /\ run' = run BY <1>s, <2>4, SetupInvFault
    <3>2. RunnerTypeOK' BY <1>t, <2>0, <2>4 DEF RunnerTypeOK
    <3>3. CommandAt' BY <1>c, <2>4, <3>1 DEF CommandAt
    <3>4. Recreated' BY <1>c, <2>4, <3>1 DEF Recreated, BeforeBuild
    <3> QED BY <3>1, <3>2, <3>3, <3>4 DEF DevInv
  <2>5. CASE SetupLogs /\ UNCHANGED <<config, version, registry, container, clock, project, upCmd, upCommands>>
    <3>1. SetupInv' /\ StepAt BY <1>s, <2>5, SetupInvLogs
    <3>2. RunnerTypeOK' BY <1>t, <2>0, <2>5 DEF RunnerTypeOK
    <3>3. CommandAt' BY <1>c, <2>5, <3>1 DEF CommandAt, StepAt
    <3>4. Recreated' BY <1>s, <1>c, <1>v, <1>t, <2>5, <3>1, StepKeepsRecreated DEF RunnerTypeOK
    <3> QED BY <3>1, <3>2, <3>3, <3>4 DEF DevInv
  <2> QED BY <1>23, <2>1, <2>2, <2>3, <2>4, <2>5 DEF UpFault
<1>24. CASE UNCHANGED devVars
  <2>1. UNCHANGED <<setupVars, config, version, container, clock, upCmd, upFaults>> BY <1>24 DEF devVars, runnerVars
  <2>2. RunnerTypeOK' /\ CommandAt' /\ Recreated'
    BY <1>t, <1>c, <2>1 DEF RunnerTypeOK, CommandAt, Recreated, setupVars
  <2> QED BY <1>q, <2>1, <2>2 DEF DevInv
<1> QED
  BY <1>1, <1>2, <1>3, <1>4, <1>5, <1>6, <1>7, <1>8, <1>9, <1>10, <1>11, <1>12, <1>13, <1>14, <1>15, <1>16,
     <1>17, <1>18, <1>19, <1>20, <1>21, <1>22, <1>23, <1>24
  DEF DevNext

\* The invariant holds in every reachable state.
LEMMA DevInvAlways == DevSpec => []DevInv
  BY DevInvInit, DevInvNext, PTL DEF DevSpec

\* An up with --recreate whose setup succeeds runs in a container of the present
\* devcontainer.json and Dockerfile, and if its image is built in the container from a
\* workspace that was streamed, it is built from them, for every kind of container and
\* driver, any number of commands and faults, and whatever the user stops, removes or
\* edits in between.
THEOREM RecreateAppliesHolds == DevSpec => []RecreateApplies
<1>1. DevInv => RecreateApplies
  BY DEF DevInv, Recreated, BeforeBuild, RecreateApplies, SetupDone
<1> QED BY <1>1, DevInvAlways, PTL

\* A setup that reports success in a container where none was cut off has done all that
\* it was asked for, also what the markers of earlier setups made it skip, but for the
\* work whose error was logged.
THEOREM SetupCompleteHolds == DevSpec => []SetupComplete
<1>1. DevInv => SetupComplete
  <2> SUFFICES ASSUME DevInv, SetupDone, ~broken
               PROVE  /\ config.driver # "docker" => \A m \in setupInfo.mounts : fs.mount[m] \in {"full", "edited"}
                      /\ (container.image.dockerless => fs.built # 0) /\ (setupInfo.pull => fs.repo = "full")
                      /\ \A w \in {"result", "chown", "profile", setupInfo.env} : DoneOrLogged(w)
                      /\ \A h \in setupInfo.hooks \ {"postStart"} : ran[h] >= 1
                      /\ NewKeys \subseteq fs.keys \/ "keys" \in fs.logged
                      /\ fs.helpers = 0 \/ "helper" \in fs.logged
                      /\ setupInfo.timeout => procs["daemon"].running = 1
    BY DEF SetupComplete
  <2>1. setup = "ok" /\ SetupInv /\ SetupTypeOK BY DEF SetupDone, DevInv, SetupInv
  <2>2. config.driver # "docker" => \A m \in setupInfo.mounts : fs.mount[m] \in {"full", "edited"}
    BY <2>1 DEF SetupInv, MountsWhole, Streams, FromDaemon, FromHook5, FromHook4, FromHook3, FromHook2, FromHook1, FromKeys, FromProfile, FromEnv,
      FromChown, FromResult, FromClone, FromGit, FromBuild, FromMounts
  <2>3. /\ (container.image.dockerless => fs.built # 0) /\ (setupInfo.pull => fs.repo = "full")
        /\ fs.helpers = 0 \/ "helper" \in fs.logged
    BY <2>1 DEF DevInv, CommandAt, SetupInv, ImageBuilt, RepoWhole, HelperTakenBack, FromDaemon, FromHook5, FromHook4, FromHook3, FromHook2, FromHook1, FromKeys, FromProfile, FromEnv,
      FromChown, FromResult, FromClone, FromGit, FromBuild, FromMounts
  <2>4. \A w \in {"result", "chown", "profile", setupInfo.env} : DoneOrLogged(w)
    BY <2>1 DEF DoneOrLogged, SetupInv, ResultWritten, Chowned, Profiled, EnvPatched, FromDaemon, FromHook5, FromHook4, FromHook3, FromHook2, FromHook1, FromKeys, FromProfile, FromEnv,
      FromChown, FromResult, FromClone, FromGit, FromBuild, FromMounts
  <2>5. ASSUME NEW h \in setupInfo.hooks, h # "postStart" PROVE ran[h] >= 1
    <3>1. h \in {"onCreate", "updateContent", "postCreate", "postAttach"}
      BY <2>1, <2>5, HookFacts, ContainerSetupAssumption DEF SetupTypeOK
    <3> QED BY <2>1, <2>5, <3>1 DEF SetupInv, PastHooksRan, PastHookRan, FromDaemon, FromHook5, FromHook4, FromHook3, FromHook2, FromHook1, FromKeys, FromProfile, FromEnv,
      FromChown, FromResult, FromClone, FromGit, FromBuild, FromMounts
  <2>6. /\ NewKeys \subseteq fs.keys \/ "keys" \in fs.logged
        /\ setupInfo.timeout => procs["daemon"].running = 1
    BY <2>1 DEF NewKeys, SetupInv, KeysWritten, DaemonOnce, FromDaemon, FromHook5, FromHook4, FromHook3, FromHook2, FromHook1, FromKeys, FromProfile, FromEnv,
      FromChown, FromResult, FromClone, FromGit, FromBuild, FromMounts
  <2> QED BY <2>2, <2>3, <2>4, <2>5, <2>6
<1> QED BY <1>1, DevInvAlways, PTL

-----------------------------------------------------------------------------
(* Tasks of a platform workspace *)

TaskPcs == {"idle", "find", "patch", "wait", "active", "cancel", "create", "observe", "result",
            "delete", "gone"}

Processes ==
    [op : {"none", "up", "stop", "delete"}, pc : TaskPcs, force : BOOLEAN, task : Nat \cup {NoTask},
     found : Nat \cup {NoTask}, canceled : BOOLEAN, excused : BOOLEAN,
     canceller : {"none", "waits", "sends", "done"}, printer : {"none", "reads", "done"},
     exit : Int, chan : {"empty", "nil", "error"}, outcome : {"none", "ok", "failed"}]

TaskRecords == [of : Nat, type : {"up", "stop"}, status : {"Running", "Succeeded", "Failed"}]
Instances == [there : BOOLEAN, deleting : BOOLEAN, number : Nat, syncOnce : BOOLEAN, changes : BOOLEAN]

TasksTypeOK ==
    /\ instance \in Instances /\ raced \in BOOLEAN
    /\ tasks \in Seq(TaskRecords)
    /\ cl \in [TaskClients -> Processes]

\* The caller of observeTask has something to receive, or soon will have.
EndSeen(c) ==
    \/ cl[c].pc \in {"idle", "result"}
    \/ cl[c].pc = "observe"
       /\ (cl[c].printer = "done" \/ cl[c].canceller \in {"sends", "done"} \/ cl[c].chan # "empty")

\* What a process knows of its command and of its task: it observes a task that was
\* created, and nothing is sent to it before that task has ended.
KnowsTask(c) ==
    /\ cl[c].pc = "find" => cl[c].op # "none"
    /\ cl[c].pc = "create" => cl[c].op \in {"up", "stop"}
    /\ cl[c].pc \in {"patch", "wait", "active", "cancel"} => cl[c].op = "up"
    /\ cl[c].pc = "cancel" => cl[c].found \in DOMAIN tasks
    /\ cl[c].pc \notin {"idle", "observe", "result"} => cl[c].task = NoTask /\ cl[c].chan = "empty"
    /\ cl[c].pc \in {"observe", "result"} => cl[c].task # NoTask
    /\ cl[c].task # NoTask => cl[c].task \in DOMAIN tasks
    /\ EndSeen(c) /\ cl[c].task # NoTask /\ ~cl[c].excused => tasks[cl[c].task].status # "Running"

\* What an up that has looked for an active task may rely on.
HasLooked(c) ==
    cl[c].op = "up" =>
      /\ cl[c].pc = "create" => Active = {}
      /\ cl[c].pc = "cancel" => Active \subseteq {cl[c].found}

TasksInv ==
    /\ TasksTypeOK /\ \A c \in TaskClients : KnowsTask(c)
    /\ \A t \in DOMAIN tasks : tasks[t].of <= instance.number
    /\ OneUpTask /\ (~raced => \A c \in TaskClients : HasLooked(c))

\* What every step does to the tasks: none goes, and one that has ended stays so.
TasksKept ==
    /\ tasks' \in Seq(TaskRecords) /\ instance' \in Instances
    /\ \A t \in DOMAIN tasks' : tasks'[t].of <= instance'.number
    /\ \A t \in DOMAIN tasks :
          t \in DOMAIN tasks' /\ (tasks[t].status # "Running" => tasks'[t].status # "Running")

\* What a step does that creates no task.
NoneCreated == TasksKept /\ raced' = raced /\ Active' \subseteq Active

\* What a step of one process leaves of the others.
OthersKept(c) == \A o \in TaskClients : o # c => cl'[o] = cl[o]

\* The record of a process without a command is one.
LEMMA NoCommandIsOne == NoCommand \in Processes
  BY DEF NoCommand, Processes, TaskPcs

\* A command that goes on.
LEMMA PcMeans ==
    ASSUME TasksTypeOK, NEW c \in TaskClients, NEW p \in TaskPcs, Pc(c, p)
    PROVE  /\ cl' \in [TaskClients -> Processes] /\ OthersKept(c)
           /\ cl'[c].pc = p /\ cl'[c].op = cl[c].op /\ cl'[c].task = cl[c].task
           /\ cl'[c].excused = cl[c].excused /\ cl'[c].chan = cl[c].chan
<1>1. cl[c] \in Processes BY DEF TasksTypeOK
<1>2. cl' = [cl EXCEPT ![c] = [cl[c] EXCEPT !.pc = p]] BY DEF Pc, TasksTypeOK
<1>3. [cl[c] EXCEPT !.pc = p] \in Processes BY <1>1 DEF Processes
<1>4. cl'[c] = [cl[c] EXCEPT !.pc = p] BY <1>2 DEF TasksTypeOK
<1>5. cl' \in [TaskClients -> Processes] BY <1>2, <1>3 DEF TasksTypeOK
<1>6. OthersKept(c) BY <1>2 DEF TasksTypeOK, OthersKept
<1>7. /\ [cl[c] EXCEPT !.pc = p].pc = p /\ [cl[c] EXCEPT !.pc = p].op = cl[c].op
      /\ [cl[c] EXCEPT !.pc = p].task = cl[c].task /\ [cl[c] EXCEPT !.pc = p].excused = cl[c].excused
      /\ [cl[c] EXCEPT !.pc = p].chan = cl[c].chan
  BY <1>1 DEF Processes
<1> QED BY <1>4, <1>5, <1>6, <1>7

\* A command that is over.
LEMMA EndsMeans ==
    ASSUME TasksTypeOK, NEW c \in TaskClients, NEW o \in {"ok", "failed"}, Ends(c, o)
    PROVE  /\ cl' \in [TaskClients -> Processes] /\ OthersKept(c)
           /\ cl'[c].pc = "idle" /\ cl'[c].task = cl[c].task /\ cl'[c].excused = cl[c].excused
<1> DEFINE e == [NoCommand EXCEPT !.op = cl[c].op, !.task = cl[c].task,
                                  !.excused = cl[c].excused, !.outcome = o]
<1>1. cl[c] \in Processes BY DEF TasksTypeOK
<1>2. e \in Processes BY ZenonT(60), <1>1, NoCommandIsOne DEF Processes
<1>3. e.pc = "idle" /\ e.task = cl[c].task /\ e.excused = cl[c].excused
  BY <1>1, NoCommandIsOne DEF Processes, NoCommand
<1>4. cl' = [cl EXCEPT ![c] = e] BY DEF Ends
<1> HIDE DEF e
<1>5. cl'[c] = e /\ cl' \in [TaskClients -> Processes] /\ OthersKept(c)
  BY <1>2, <1>4 DEF TasksTypeOK, OthersKept
<1> QED BY <1>3, <1>5

\* What the others know survives a step that keeps the tasks.
LEMMA OthersKnow ==
    ASSUME TasksInv, NEW c \in TaskClients, TasksKept, OthersKept(c), NEW o \in TaskClients, o # c
    PROVE  KnowsTask(o)'
<1>1. KnowsTask(o) /\ cl'[o] = cl[o] BY DEF TasksInv, OthersKept
<1> QED BY <1>1 DEF KnowsTask, TasksKept, EndSeen

\* A step of one process that creates no task keeps the invariant if it keeps what that
\* process knows.
LEMMA OneProcessSteps ==
    ASSUME TasksInv, NEW c \in TaskClients, NoneCreated, OthersKept(c),
           cl' \in [TaskClients -> Processes], KnowsTask(c)', ~raced => HasLooked(c)'
    PROVE  TasksInv'
<1>1. TasksTypeOK' BY DEF TasksInv, TasksTypeOK, TasksKept, NoneCreated
<1>2. \A o \in TaskClients : KnowsTask(o)' BY OthersKnow DEF NoneCreated
<1>3. OneUpTask' BY DEF TasksInv, NoneCreated, OneUpTask
<1>4. ASSUME NEW o \in TaskClients, o # c, ~raced PROVE HasLooked(o)'
  <2>1. HasLooked(o) /\ cl'[o] = cl[o] BY <1>4 DEF TasksInv, OthersKept
  <2> QED BY <2>1 DEF HasLooked, NoneCreated
<1>5. ~raced' => \A o \in TaskClients : HasLooked(o)' BY <1>4 DEF NoneCreated
<1>6. \A t \in DOMAIN tasks' : tasks'[t].of <= instance'.number BY DEF NoneCreated, TasksKept
<1> QED BY <1>1, <1>2, <1>3, <1>5, <1>6 DEF TasksInv

\* A step of the platform keeps it.
LEMMA PlatformSteps == ASSUME TasksInv, NoneCreated, cl' = cl PROVE TasksInv'
<1>1. TasksTypeOK' BY DEF TasksInv, TasksTypeOK, TasksKept, NoneCreated
<1>2. \A c \in TaskClients : KnowsTask(c)' BY DEF TasksInv, KnowsTask, EndSeen, TasksKept, NoneCreated
<1>3. OneUpTask' BY DEF TasksInv, NoneCreated, OneUpTask
<1>4. ~raced' => \A c \in TaskClients : HasLooked(c)' BY DEF TasksInv, HasLooked, NoneCreated
<1>5. \A t \in DOMAIN tasks' : tasks'[t].of <= instance'.number BY DEF NoneCreated, TasksKept
<1> QED BY <1>1, <1>2, <1>3, <1>4, <1>5 DEF TasksInv

\* A step that leaves the tasks and the number of the instance creates none.
LEMMA UntouchedTasks ==
    ASSUME TasksInv, UNCHANGED <<tasks, raced>>, instance' \in Instances, instance'.number = instance.number
    PROVE  NoneCreated
<1>1. Active' = Active BY DEF Active, IsActive
<1> QED BY <1>1 DEF TasksInv, TasksTypeOK, TasksKept, NoneCreated

\* Nor does the end of a task.
LEMMA EndOfTask ==
    ASSUME TasksInv, NEW t \in DOMAIN tasks, NEW s \in {"Succeeded", "Failed"},
           tasks' = [tasks EXCEPT ![t].status = s], UNCHANGED <<instance, raced>>
    PROVE  NoneCreated /\ t \notin Active' /\ tasks'[t].status # "Running"
<1>1. tasks \in Seq(TaskRecords) /\ tasks[t] \in TaskRecords BY DEF TasksInv, TasksTypeOK
<1>2. [tasks[t] EXCEPT !.status = s] \in TaskRecords BY <1>1 DEF TaskRecords
<1>3. tasks' = [tasks EXCEPT ![t] = [tasks[t] EXCEPT !.status = s]] OBVIOUS
<1>4. tasks' \in Seq(TaskRecords) BY <1>1, <1>2, <1>3
<1>5. DOMAIN tasks' = DOMAIN tasks BY <1>3
<1>6. \A q \in DOMAIN tasks : q # t => tasks'[q] = tasks[q] BY <1>3
<1>7. tasks'[t].status = s /\ tasks'[t].of = tasks[t].of BY <1>1, <1>3 DEF TaskRecords
<1>8. \A q \in DOMAIN tasks' : tasks'[q].of <= instance'.number BY <1>5, <1>6, <1>7 DEF TasksInv
<1>9. TasksKept BY <1>4, <1>5, <1>6, <1>7, <1>8 DEF TasksKept, TasksInv, TasksTypeOK
<1>10. Active' \subseteq Active /\ t \notin Active' BY <1>5, <1>6, <1>7 DEF Active, IsActive
<1> QED BY <1>7, <1>9, <1>10 DEF NoneCreated

\* The initial state satisfies the invariant.
LEMMA TasksInvInit == TasksInit => TasksInv
<1> SUFFICES ASSUME TasksInit PROVE TasksInv
  OBVIOUS
<1>1. TasksTypeOK
  <2>1. instance \in Instances BY DEF TasksInit, Instances
  <2>2. tasks \in Seq(TaskRecords) /\ cl \in [TaskClients -> Processes] BY NoCommandIsOne DEF TasksInit
  <2>3. raced \in BOOLEAN BY Zenon DEF TasksInit
  <2> QED BY <2>1, <2>2, <2>3 DEF TasksTypeOK
<1>2. \A c \in TaskClients : cl[c] = NoCommand BY DEF TasksInit
<1>3. NoCommand.pc = "idle" /\ NoCommand.task = NoTask BY DEF NoCommand
<1>4. \A c \in TaskClients : KnowsTask(c) BY <1>2, <1>3 DEF KnowsTask
<1>5. tasks = <<>> BY DEF TasksInit
<1>6. Active = {} BY <1>5 DEF Active
<1>7. OneUpTask /\ \A c \in TaskClients : HasLooked(c) BY <1>6 DEF OneUpTask, HasLooked
<1> QED BY <1>1, <1>4, <1>5, <1>7 DEF TasksInv

\* A process that ends, with the tasks kept.
LEMMA ProcessEnds ==
    ASSUME TasksInv, NEW c \in TaskClients, NEW o \in {"ok", "failed"}, Ends(c, o), NoneCreated,
           cl[c].task # NoTask /\ ~cl[c].excused => tasks'[cl[c].task].status # "Running"
    PROVE  TasksInv'
<1>1. /\ cl' \in [TaskClients -> Processes] /\ OthersKept(c)
      /\ cl'[c].pc = "idle" /\ cl'[c].task = cl[c].task /\ cl'[c].excused = cl[c].excused
  BY EndsMeans DEF TasksInv
<1>2. cl[c].task # NoTask => cl[c].task \in DOMAIN tasks' BY DEF TasksInv, KnowsTask, NoneCreated, TasksKept
<1>3. KnowsTask(c)' BY <1>1, <1>2 DEF KnowsTask
<1>4. HasLooked(c)' BY <1>1 DEF HasLooked
<1> QED BY <1>1, <1>3, <1>4, OneProcessSteps

\* A process that has no task yet goes on.
LEMMA ProcessGoesOn ==
    ASSUME TasksInv, NEW c \in TaskClients, NEW p \in TaskPcs \ {"idle", "observe", "result", "cancel"},
           Pc(c, p), NoneCreated,
           cl[c].pc \notin {"idle", "observe", "result"},
           p = "find" => cl[c].op # "none",
           p = "create" => cl[c].op \in {"up", "stop"},
           p \in {"patch", "wait", "active"} => cl[c].op = "up",
           p = "create" /\ cl[c].op = "up" /\ ~raced => Active' = {}
    PROVE  TasksInv'
<1>1. /\ cl' \in [TaskClients -> Processes] /\ OthersKept(c)
      /\ cl'[c].pc = p /\ cl'[c].op = cl[c].op /\ cl'[c].task = cl[c].task /\ cl'[c].chan = cl[c].chan
  BY PcMeans DEF TasksInv
<1>2. cl[c].task = NoTask /\ cl[c].chan = "empty" BY DEF TasksInv, KnowsTask
<1>3. KnowsTask(c)' BY <1>1, <1>2 DEF KnowsTask
<1>4. ~raced => HasLooked(c)' BY <1>1 DEF HasLooked
<1> QED BY <1>1, <1>3, <1>4, OneProcessSteps

\* A step of the goroutines of observeTask: they send nothing before the task has ended.
LEMMA ObserverSteps ==
    ASSUME TasksInv, NEW c \in TaskClients, cl[c].pc = "observe", NEW e \in Processes,
           e.pc = cl[c].pc, e.task = cl[c].task, cl' = [cl EXCEPT ![c] = e], NoneCreated,
           \/ tasks'[cl[c].task].status # "Running"
           \/ e.excused
           \/ /\ e.excused = cl[c].excused /\ e.printer = cl[c].printer
              /\ e.canceller = cl[c].canceller /\ e.chan = cl[c].chan
    PROVE  TasksInv'
<1>1. cl'[c] = e /\ cl' \in [TaskClients -> Processes] /\ OthersKept(c)
  BY DEF TasksInv, TasksTypeOK, OthersKept
<1>2. KnowsTask(c) /\ cl[c].task \in DOMAIN tasks BY DEF TasksInv, KnowsTask
<1>3. KnowsTask(c)' BY <1>1, <1>2 DEF KnowsTask, EndSeen, NoneCreated, TasksKept
<1>4. HasLooked(c)' BY <1>1 DEF HasLooked
<1> QED BY <1>1, <1>3, <1>4, OneProcessSteps

\* The printer of the logs sends.
LEMMA PrinterSends ==
    ASSUME TasksInv, NEW c \in TaskClients, cl[c].pc = "observe", NEW e \in Processes,
           e.pc = cl[c].pc, e.task = cl[c].task, NEW v \in {"nil", "error"}, Send(c, e, v),
           NoneCreated, tasks'[cl[c].task].status # "Running" \/ e.excused
    PROVE  TasksInv'
<1>4. CASE cl' = [cl EXCEPT ![c] = [e EXCEPT !.chan = v]]
  <2>1. [e EXCEPT !.chan = v] \in Processes BY DEF Processes
  <2>2. /\ [e EXCEPT !.chan = v].pc = e.pc /\ [e EXCEPT !.chan = v].task = e.task
        /\ [e EXCEPT !.chan = v].excused = e.excused
    BY DEF Processes
  <2> QED BY <1>4, <2>1, <2>2, ObserverSteps
<1>5. CASE cl' = [cl EXCEPT ![c] = [e EXCEPT !.canceller = "done"]]
  <2>1. [e EXCEPT !.canceller = "done"] \in Processes BY DEF Processes
  <2>2. /\ [e EXCEPT !.canceller = "done"].pc = e.pc /\ [e EXCEPT !.canceller = "done"].task = e.task
        /\ [e EXCEPT !.canceller = "done"].excused = e.excused
    BY DEF Processes
  <2> QED BY <1>5, <2>1, <2>2, ObserverSteps
<1> QED BY <1>4, <1>5 DEF Send

\* A new task: it is the only one that is active, unless somebody else had looked.
LEMMA CreationMeans ==
    ASSUME TasksInv, NEW c \in TaskClients, cl[c].pc = "create", TaskIsCreated(c), UNCHANGED instance
    PROVE  /\ TasksKept /\ raced' \in BOOLEAN /\ OneUpTask' /\ Len(tasks) + 1 \in DOMAIN tasks'
           /\ \A o \in TaskClients : o # c /\ ~raced' /\ cl'[o] = cl[o] => HasLooked(o)'
<1> DEFINE n == [of |-> instance.number, type |-> cl[c].op, status |-> "Running"]
<1>1. /\ tasks \in Seq(TaskRecords) /\ Len(tasks) \in Nat /\ instance \in Instances /\ raced \in BOOLEAN
  BY DEF TasksInv, TasksTypeOK
<1>2. cl[c].op \in {"up", "stop"} BY DEF TasksInv, KnowsTask
<1>3. n \in TaskRecords BY <1>1, <1>2 DEF TaskRecords, Instances
<1>4. tasks' = Append(tasks, n) BY DEF TaskIsCreated
<1>5. n.of = instance.number /\ n.type = cl[c].op OBVIOUS
<1> HIDE DEF n
<1>6. /\ tasks' \in Seq(TaskRecords) /\ DOMAIN tasks' = 1..(Len(tasks) + 1) /\ DOMAIN tasks = 1..Len(tasks)
      /\ tasks'[Len(tasks) + 1] = n
      /\ \A t \in DOMAIN tasks : t \in DOMAIN tasks' /\ tasks'[t] = tasks[t]
  BY <1>1, <1>3, <1>4
<1>7. \A t \in DOMAIN tasks' : tasks'[t].of <= instance'.number
  <2> SUFFICES ASSUME NEW t \in DOMAIN tasks' PROVE tasks'[t].of <= instance'.number
    OBVIOUS
  <2>1. t \in DOMAIN tasks \/ t = Len(tasks) + 1 BY <1>1, <1>6
  <2>2. instance.number \in Nat BY <1>1 DEF Instances
  <2> QED BY <1>5, <1>6, <2>1, <2>2 DEF TasksInv
<1>8. TasksKept BY <1>1, <1>6, <1>7 DEF TasksKept
<1>9. Active' \subseteq Active \cup {Len(tasks) + 1} /\ (cl[c].op = "stop" => Active' \subseteq Active)
  BY <1>1, <1>5, <1>6 DEF Active, IsActive
<1>10. raced' \in BOOLEAN /\ (raced => raced') BY <1>1 DEF TaskIsCreated
<1>11. ASSUME ~raced', cl[c].op = "up" PROVE Active = {}
  BY <1>10, <1>11 DEF TasksInv, HasLooked
<1>12. OneUpTask'
  <2>1. CASE cl[c].op = "up" BY <1>9, <1>11, <2>1 DEF OneUpTask
  <2>2. CASE cl[c].op = "stop" BY <1>9, <1>10, <2>2 DEF OneUpTask, TasksInv
  <2> QED BY <1>2, <2>1, <2>2
<1>13. ASSUME NEW o \in TaskClients, o # c, ~raced', cl'[o] = cl[o] PROVE HasLooked(o)'
  <2>1. CASE cl[c].op = "up"
    <3>1. ~(cl[o].op = "up" /\ cl[o].pc \in {"cancel", "create"}) BY <1>13, <2>1 DEF TaskIsCreated
    <3> QED BY <1>13, <3>1 DEF HasLooked
  <2>2. CASE cl[c].op = "stop" BY <1>9, <1>10, <1>13, <2>2 DEF HasLooked, TasksInv
  <2> QED BY <1>2, <2>1, <2>2
<1>14. Len(tasks) + 1 \in DOMAIN tasks' BY <1>1, <1>6
<1> QED BY <1>8, <1>10, <1>12, <1>13, <1>14

\* A step of one process with a new task keeps the invariant.
LEMMA CreatorSteps ==
    ASSUME TasksInv, NEW c \in TaskClients, cl[c].pc = "create", TaskIsCreated(c), UNCHANGED instance,
           OthersKept(c), cl' \in [TaskClients -> Processes], KnowsTask(c)', cl'[c].pc \in {"idle", "observe"}
    PROVE  TasksInv'
<1>1. /\ TasksKept /\ raced' \in BOOLEAN /\ OneUpTask'
      /\ \A o \in TaskClients : o # c /\ ~raced' /\ cl'[o] = cl[o] => HasLooked(o)'
  BY CreationMeans
<1>2. TasksTypeOK' BY <1>1 DEF TasksTypeOK, TasksKept
<1>3. \A o \in TaskClients : KnowsTask(o)' BY <1>1, OthersKnow
<1>4. HasLooked(c)' BY DEF HasLooked
<1>5. ~raced' => \A o \in TaskClients : HasLooked(o)' BY <1>1, <1>4 DEF OthersKept
<1>6. \A t \in DOMAIN tasks' : tasks'[t].of <= instance'.number BY <1>1 DEF TasksKept
<1> QED BY <1>1, <1>2, <1>3, <1>5, <1>6 DEF TasksInv

\* Every step of the platform, of a process, and every fault keeps it.
LEMMA TasksInvNext == TasksInv /\ [TasksNext]_taskVars => TasksInv'
<1> SUFFICES ASSUME TasksInv, [TasksNext]_taskVars PROVE TasksInv'
  OBVIOUS
<1>t. TasksTypeOK BY DEF TasksInv
<1>k. \A c \in TaskClients : KnowsTask(c) BY DEF TasksInv
<1>p. \A c \in TaskClients : cl[c] \in Processes BY <1>t DEF TasksTypeOK
<1>i. instance \in Instances BY <1>t DEF TasksTypeOK
<1>u. UNCHANGED <<instance, tasks, raced>> => NoneCreated BY <1>i, UntouchedTasks
<1>v. UNCHANGED <<tasks, raced>> /\ instance' \in Instances /\ instance'.number = instance.number => NoneCreated
  BY UntouchedTasks
<1>1. ASSUME NEW t \in DOMAIN tasks, TaskEnds(t) PROVE TasksInv'
  <2>1. PICK s \in {"Succeeded", "Failed"} : tasks' = [tasks EXCEPT ![t].status = s] BY <1>1 DEF TaskEnds
  <2>2. UNCHANGED <<instance, raced, cl>> BY <1>1 DEF TaskEnds
  <2> QED BY <2>1, <2>2, EndOfTask, PlatformSteps
<1>2. CASE TemplateChanges
  BY <1>2, <1>i, <1>v, PlatformSteps DEF TemplateChanges, Instances
<1>3. CASE TemplateSyncs
  BY <1>3, <1>i, <1>v, PlatformSteps DEF TemplateSyncs, Instances
<1>4. CASE InstanceGoes
  BY <1>4, <1>i, <1>v, PlatformSteps DEF InstanceGoes, Instances
<1>5. CASE InstanceIsCreated
  <2>1. /\ instance' \in Instances /\ instance'.number = instance.number + 1 /\ instance.number \in Nat
        /\ UNCHANGED <<tasks, cl, raced>>
    BY <1>5, <1>i DEF InstanceIsCreated, Instances
  <2>2. ASSUME NEW t \in DOMAIN tasks PROVE tasks[t].of <= instance'.number /\ tasks[t].of # instance'.number
    <3>1. tasks[t].of \in Nat
      <4>1. tasks[t] \in TaskRecords BY <1>t, <2>2 DEF TasksTypeOK
      <4> QED BY <4>1 DEF TaskRecords
    <3>2. tasks[t].of <= instance.number BY <2>2 DEF TasksInv
    <3> QED BY <2>1, <3>1, <3>2
  <2>3. Active' = {} BY <2>1, <2>2 DEF Active, IsActive
  <2>4. TasksKept BY <1>t, <2>1, <2>2 DEF TasksTypeOK, TasksKept
  <2> QED BY <2>1, <2>3, <2>4, PlatformSteps DEF NoneCreated
<1>6. ASSUME NEW c \in TaskClients, NEW op \in {"up", "stop", "delete"}, NEW force \in BOOLEAN,
             TaskCommand(c, op, force)
      PROVE  TasksInv'
  <2> DEFINE e == [NoCommand EXCEPT !.op = op, !.force = force, !.pc = "find"]
  <2>1. e \in Processes BY ZenonT(60), NoCommandIsOne DEF Processes, TaskPcs
  <2>2. e.pc = "find" /\ e.op = op /\ e.task = NoTask /\ e.chan = "empty" BY DEF NoCommand
  <2>3. cl' = [cl EXCEPT ![c] = e] BY <1>6 DEF TaskCommand
  <2> HIDE DEF e
  <2>4. cl'[c] = e /\ cl' \in [TaskClients -> Processes] /\ OthersKept(c)
    BY <1>t, <2>1, <2>3 DEF TasksTypeOK, OthersKept
  <2>5. KnowsTask(c)' /\ HasLooked(c)' BY <2>2, <2>4 DEF KnowsTask, HasLooked, EndSeen
  <2> QED BY <1>6, <1>u, <2>4, <2>5, OneProcessSteps DEF TaskCommand
<1>e. ASSUME NEW c \in TaskClients, NEW o \in {"ok", "failed"}, Ends(c, o), NoneCreated,
             cl[c].pc \notin {"idle", "observe", "result"}
      PROVE  TasksInv'
  <2>1. cl[c].task = NoTask BY <1>e, <1>k DEF KnowsTask
  <2> QED BY <1>e, <2>1, ProcessEnds
<1>7. ASSUME NEW c \in TaskClients, FindInstance(c) PROVE TasksInv'
  <2>0. NoneCreated /\ cl[c].pc = "find" BY <1>7, <1>u DEF FindInstance
  <2>k. cl[c].op \in {"up", "stop", "delete"} BY <1>k, <1>p, <2>0 DEF KnowsTask, Processes
  <2>1. CASE \E o \in {"ok", "failed"} : Ends(c, o) BY <1>e, <2>0, <2>1
  <2>2. CASE Pc(c, IF cl[c].op = "delete" THEN "delete" ELSE IF cl[c].op = "stop" THEN "create"
                   ELSE IF instance.changes THEN "patch" ELSE "active")
    <3>1. CASE cl[c].op = "delete" BY <2>0, <2>2, <3>1, ProcessGoesOn DEF TaskPcs
    <3>2. CASE cl[c].op = "stop" BY <2>0, <2>2, <3>2, ProcessGoesOn DEF TaskPcs
    <3>3. CASE cl[c].op = "up" /\ Pc(c, "patch") BY <2>0, <3>3, ProcessGoesOn DEF TaskPcs
    <3>4. CASE cl[c].op = "up" /\ Pc(c, "active") BY <2>0, <3>4, ProcessGoesOn DEF TaskPcs
    <3> QED BY <2>k, <2>2, <3>1, <3>2, <3>3, <3>4
  <2> QED BY <1>7, <2>1, <2>2 DEF FindInstance
<1>8. ASSUME NEW c \in TaskClients, UpdateInstance(c) PROVE TasksInv'
  <2>0. NoneCreated /\ cl[c].pc = "patch" BY <1>8, <1>i, <1>u, <1>v DEF UpdateInstance, Instances
  <2>k. cl[c].op = "up" BY <1>k, <2>0 DEF KnowsTask
  <2>1. CASE Ends(c, "failed") BY <1>e, <2>0, <2>1
  <2>2. CASE Pc(c, "wait") BY <2>0, <2>k, <2>2, ProcessGoesOn DEF TaskPcs
  <2> QED BY <1>8, <2>1, <2>2 DEF UpdateInstance
<1>9. ASSUME NEW c \in TaskClients, WaitForInstance(c) PROVE TasksInv'
  <2>0. NoneCreated /\ cl[c].pc = "wait" BY <1>9, <1>u DEF WaitForInstance
  <2>k. cl[c].op = "up" BY <1>k, <2>0 DEF KnowsTask
  <2>1. CASE Ends(c, "failed") BY <1>e, <2>0, <2>1
  <2>2. CASE Pc(c, "active") BY <2>0, <2>k, <2>2, ProcessGoesOn DEF TaskPcs
  <2> QED BY <1>9, <2>1, <2>2 DEF WaitForInstance
<1>10. ASSUME NEW c \in TaskClients, FindActiveUpTask(c) PROVE TasksInv'
  <2>0. /\ NoneCreated /\ cl[c].pc = "active" /\ UNCHANGED <<instance, tasks, raced>>
    BY <1>10, <1>u DEF FindActiveUpTask
  <2>a. Active' = Active BY <2>0 DEF Active, IsActive
  <2>k. cl[c].op = "up" /\ cl[c].task = NoTask /\ cl[c].chan = "empty" BY <1>k, <2>0 DEF KnowsTask
  <2>1. CASE Active = {} /\ Pc(c, "create") BY <2>0, <2>a, <2>k, <2>1, ProcessGoesOn DEF TaskPcs
  <2>2. ASSUME NEW t \in Active, cl' = [cl EXCEPT ![c].pc = "cancel", ![c].found = t] PROVE TasksInv'
    <3> DEFINE e == [cl[c] EXCEPT !.pc = "cancel", !.found = t]
    <3>1. t \in DOMAIN tasks /\ t \in Nat
      <4>1. t \in DOMAIN tasks BY DEF Active
      <4> QED BY <1>t, <4>1 DEF TasksTypeOK
    <3>2. e \in Processes BY ZenonT(60), <1>p, <3>1 DEF Processes, TaskPcs
    <3>3. e.pc = "cancel" /\ e.found = t /\ e.op = cl[c].op /\ e.task = cl[c].task /\ e.chan = cl[c].chan
      BY <1>p DEF Processes
    <3>4. cl' = [cl EXCEPT ![c] = e] BY <1>t, <2>2 DEF TasksTypeOK
    <3> HIDE DEF e
    <3>5. cl'[c] = e /\ cl' \in [TaskClients -> Processes] /\ OthersKept(c)
      BY <1>t, <3>2, <3>4 DEF TasksTypeOK, OthersKept
    <3>6. KnowsTask(c)' BY <2>0, <2>k, <3>1, <3>3, <3>5 DEF KnowsTask, EndSeen
    <3>7. ~raced => HasLooked(c)'
      <4> SUFFICES ASSUME ~raced PROVE HasLooked(c)'
        OBVIOUS
      <4>1. Active \subseteq {t} BY DEF TasksInv, OneUpTask
      <4> QED BY <2>a, <3>3, <3>5, <4>1 DEF HasLooked
    <3> QED BY <2>0, <3>5, <3>6, <3>7, OneProcessSteps
  <2> QED BY <1>10, <2>1, <2>2 DEF FindActiveUpTask
<1>11. ASSUME NEW c \in TaskClients, CancelFound(c) PROVE TasksInv'
  <2>0. cl[c].pc = "cancel" /\ UNCHANGED <<instance, raced>> BY <1>11 DEF CancelFound
  <2>k. cl[c].op = "up" /\ cl[c].found \in DOMAIN tasks BY <1>k, <2>0 DEF KnowsTask
  <2>h. ~raced => Active \subseteq {cl[c].found} BY <2>0, <2>k DEF TasksInv, HasLooked
  <2>1. CASE tasks' = [tasks EXCEPT ![cl[c].found].status = "Failed"] /\ Pc(c, "create")
    <3>1. NoneCreated /\ cl[c].found \notin Active' BY <2>0, <2>k, <2>1, EndOfTask
    <3>2. ~raced => Active' = {} BY <2>h, <3>1 DEF NoneCreated
    <3> QED BY <2>0, <2>k, <2>1, <3>1, <3>2, ProcessGoesOn DEF TaskPcs
  <2>2. CASE tasks[cl[c].found].status # "Running" /\ UNCHANGED tasks /\ (Pc(c, "create") \/ Ends(c, "failed"))
    <3>1. NoneCreated BY <1>u, <2>0, <2>2
    <3>2. cl[c].found \notin Active /\ Active' = Active BY <2>0, <2>2 DEF Active, IsActive
    <3>3. ~raced => Active' = {} BY <2>h, <3>2
    <3>4. CASE Pc(c, "create") BY <2>0, <2>k, <3>1, <3>3, <3>4, ProcessGoesOn DEF TaskPcs
    <3>5. CASE Ends(c, "failed") BY <1>e, <2>0, <3>1, <3>5
    <3> QED BY <2>2, <3>4, <3>5
  <2> QED BY <1>11, <2>1, <2>2 DEF CancelFound
<1>12. ASSUME NEW c \in TaskClients, CreateTask(c) PROVE TasksInv'
  <2>0. cl[c].pc = "create" /\ UNCHANGED instance BY <1>12 DEF CreateTask
  <2>1. CASE Ends(c, "failed") /\ UNCHANGED <<tasks, raced>> BY <1>e, <1>u, <2>0, <2>1
  <2>2. CASE /\ TaskIsCreated(c)
             /\ cl' = [cl EXCEPT ![c].pc = "observe", ![c].task = Len(tasks) + 1,
                                 ![c].canceller = "waits", ![c].printer = "reads"]
    <3> DEFINE e == [cl[c] EXCEPT !.pc = "observe", !.task = Len(tasks) + 1,
                                  !.canceller = "waits", !.printer = "reads"]
    <3>1. Len(tasks) + 1 \in Nat /\ Len(tasks) + 1 # NoTask BY <1>t, PlatformTasksAssumption DEF TasksTypeOK
    <3>2. e \in Processes BY ZenonT(60), <1>p, <3>1 DEF Processes, TaskPcs
    <3>3. /\ e.pc = "observe" /\ e.task = Len(tasks) + 1 /\ e.canceller = "waits" /\ e.printer = "reads"
          /\ e.chan = cl[c].chan
      BY <1>p DEF Processes
    <3>4. cl' = [cl EXCEPT ![c] = e] BY <1>t, <2>2 DEF TasksTypeOK
    <3> HIDE DEF e
    <3>5. cl'[c] = e /\ cl' \in [TaskClients -> Processes] /\ OthersKept(c)
      BY <1>t, <3>2, <3>4 DEF TasksTypeOK, OthersKept
    <3>6. Len(tasks) + 1 \in DOMAIN tasks' BY <2>0, <2>2, CreationMeans
    <3>7. cl[c].chan = "empty" BY <2>0, <1>k DEF KnowsTask
    <3>8. KnowsTask(c)' BY <3>1, <3>3, <3>5, <3>6, <3>7 DEF KnowsTask, EndSeen
    <3> QED BY <2>0, <2>2, <3>3, <3>5, <3>8, CreatorSteps
  <2> QED BY <1>12, <2>1, <2>2 DEF CreateTask
<1>13. ASSUME NEW c \in TaskClients, AnswerIsLost(c) PROVE TasksInv'
  <2>0. cl[c].pc = "create" /\ UNCHANGED instance /\ TaskIsCreated(c) /\ Ends(c, "failed") BY <1>13 DEF AnswerIsLost
  <2>1. /\ cl' \in [TaskClients -> Processes] /\ OthersKept(c) /\ cl'[c].pc = "idle" /\ cl'[c].task = cl[c].task
    BY <1>t, <2>0, EndsMeans
  <2>2. cl[c].task = NoTask BY <1>k, <2>0 DEF KnowsTask
  <2>3. KnowsTask(c)' BY <2>1, <2>2 DEF KnowsTask
  <2> QED BY <2>0, <2>1, <2>3, CreatorSteps
<1>14. ASSUME NEW c \in TaskClients, PrinterEnds(c) PROVE TasksInv'
  <2> DEFINE e == [cl[c] EXCEPT !.printer = "done", !.exit = ExitOf(c)]
  <2>1. ExitOf(c) \in Int BY DEF ExitOf
  <2>2. cl[c].pc = "observe" /\ NoneCreated /\ tasks'[cl[c].task].status # "Running" /\ Send(c, e, "nil")
    BY <1>14, <1>u DEF PrinterEnds, Ended
  <2>3. e \in Processes /\ e.pc = cl[c].pc /\ e.task = cl[c].task BY ZenonT(60), <1>p, <2>1 DEF Processes
  <2> HIDE DEF e
  <2> QED BY <2>2, <2>3, PrinterSends
<1>15. ASSUME NEW c \in TaskClients, StreamBreaks(c) PROVE TasksInv'
  <2>1. cl[c].pc = "observe" /\ NoneCreated BY <1>15, <1>u DEF StreamBreaks
  <2>2. ASSUME NEW x \in Int, NEW v \in {"nil", "error"},
               Send(c, [cl[c] EXCEPT !.printer = "done", !.exit = x, !.excused = TRUE], v)
        PROVE  TasksInv'
    <3> DEFINE e == [cl[c] EXCEPT !.printer = "done", !.exit = x, !.excused = TRUE]
    <3>1. e \in Processes /\ e.pc = cl[c].pc /\ e.task = cl[c].task /\ e.excused
      BY ZenonT(60), <1>p DEF Processes
    <3>2. Send(c, e, v) BY <2>2
    <3> HIDE DEF e
    <3> QED BY <2>1, <3>1, <3>2, PrinterSends
  <2>3. 0 \in Int /\ -1 \in Int OBVIOUS
  <2>4. CASE Send(c, [cl[c] EXCEPT !.printer = "done", !.exit = 0, !.excused = TRUE], "nil")
    BY ZenonT(30), <2>2, <2>3, <2>4
  <2>5. CASE Send(c, [cl[c] EXCEPT !.printer = "done", !.exit = -1, !.excused = TRUE], "error")
    BY ZenonT(30), <2>2, <2>3, <2>5
  <2> QED BY ZenonT(30), <1>15, <2>4, <2>5 DEF StreamBreaks
<1>16. ASSUME NEW c \in TaskClients, CancelTask(c) PROVE TasksInv'
  <2> DEFINE e == [cl[c] EXCEPT !.canceller = "sends"]
  <2>1. cl[c].pc = "observe" /\ UNCHANGED <<instance, raced>> BY <1>16 DEF CancelTask
  <2>2. cl[c].task \in DOMAIN tasks BY <1>k, <2>1 DEF KnowsTask
  <2>3. NoneCreated /\ tasks'[cl[c].task].status # "Running"
    <3>1. CASE Ended(c) BY <1>16, <1>u, <2>1, <3>1 DEF CancelTask, Ended
    <3>2. CASE ~Ended(c) BY <1>16, <2>1, <2>2, <3>2, EndOfTask DEF CancelTask
    <3> QED BY <3>1, <3>2
  <2>4. cl' = [cl EXCEPT ![c] = e] BY <1>16, <1>t DEF CancelTask, TasksTypeOK
  <2>5. e \in Processes /\ e.pc = cl[c].pc /\ e.task = cl[c].task BY <1>p DEF Processes
  <2> HIDE DEF e
  <2> QED BY <2>1, <2>3, <2>4, <2>5, ObserverSteps
<1>17. ASSUME NEW c \in TaskClients, CancelTaskFails(c) PROVE TasksInv'
  <2> DEFINE e == [cl[c] EXCEPT !.canceller = "sends", !.excused = TRUE]
  <2>1. cl[c].pc = "observe" /\ NoneCreated BY <1>17, <1>u DEF CancelTaskFails
  <2>2. cl' = [cl EXCEPT ![c] = e] BY <1>17, <1>t DEF CancelTaskFails, TasksTypeOK
  <2>3. e \in Processes /\ e.pc = cl[c].pc /\ e.task = cl[c].task /\ e.excused
    BY ZenonT(60), <1>p DEF Processes
  <2> HIDE DEF e
  <2> QED BY <2>1, <2>2, <2>3, ObserverSteps
<1>18. ASSUME NEW c \in TaskClients, CancellerSends(c) PROVE TasksInv'
  <2> DEFINE e == [cl[c] EXCEPT !.canceller = "done", !.chan = "error"]
  <2>1. /\ cl[c].pc = "observe" /\ cl[c].canceller = "sends" /\ NoneCreated /\ tasks' = tasks
    BY <1>18, <1>u DEF CancellerSends
  <2>2. cl' = [cl EXCEPT ![c] = e] BY <1>18, <1>t DEF CancellerSends, TasksTypeOK
  <2>3. /\ e \in Processes /\ e.pc = cl[c].pc /\ e.task = cl[c].task /\ e.excused = cl[c].excused
    BY ZenonT(60), <1>p DEF Processes
  <2>4. tasks[cl[c].task].status # "Running" \/ cl[c].excused BY <1>k, <2>1 DEF KnowsTask, EndSeen
  <2> HIDE DEF e
  <2> QED BY <2>1, <2>2, <2>3, <2>4, ObserverSteps
<1>19. ASSUME NEW c \in TaskClients, ObserveReturns(c) PROVE TasksInv'
  <2>0. cl[c].pc = "observe" /\ cl[c].chan # "empty" /\ NoneCreated /\ tasks' = tasks
    BY <1>19, <1>u DEF ObserveReturns
  <2>k. /\ cl[c].task \in DOMAIN tasks' /\ cl[c].task # NoTask
        /\ ~cl[c].excused => tasks'[cl[c].task].status # "Running"
    BY <1>k, <2>0 DEF KnowsTask, EndSeen
  <2>1. CASE \E o \in {"ok", "failed"} : Ends(c, o) BY <2>0, <2>k, <2>1, ProcessEnds
  <2>2. CASE Pc(c, "result")
    <3>1. /\ cl' \in [TaskClients -> Processes] /\ OthersKept(c)
          /\ cl'[c].pc = "result" /\ cl'[c].task = cl[c].task /\ cl'[c].excused = cl[c].excused
      BY <1>t, <2>2, PcMeans DEF TaskPcs
    <3>2. KnowsTask(c)' /\ HasLooked(c)' BY <2>k, <3>1 DEF KnowsTask, HasLooked
    <3> QED BY <2>0, <3>1, <3>2, OneProcessSteps
  <2> QED BY <1>19, <2>1, <2>2 DEF ObserveReturns
<1>20. ASSUME NEW c \in TaskClients, NEW o \in {"ok", "failed"}, cl[c].pc = "result", Ends(c, o),
              UNCHANGED <<instance, tasks, raced>>
       PROVE  TasksInv'
  <2>1. cl[c].task # NoTask /\ ~cl[c].excused => tasks'[cl[c].task].status # "Running"
    BY <1>k, <1>20 DEF KnowsTask, EndSeen
  <2> QED BY <1>20, <1>u, <2>1, ProcessEnds
<1>21. ASSUME NEW c \in TaskClients, GetResult(c) PROVE TasksInv'
  BY <1>20, <1>21 DEF GetResult
<1>22. ASSUME NEW c \in TaskClients, DeleteInstance(c) PROVE TasksInv'
  <2>0. cl[c].pc = "delete" /\ NoneCreated BY <1>22, <1>i, <1>u, <1>v DEF DeleteInstance, Instances
  <2>1. CASE Pc(c, "gone") BY <2>0, <2>1, ProcessGoesOn DEF TaskPcs
  <2>2. CASE Ends(c, "failed") BY <1>e, <2>0, <2>2
  <2> QED BY <1>22, <2>1, <2>2 DEF DeleteInstance
<1>23. ASSUME NEW c \in TaskClients, PollGone(c) PROVE TasksInv'
  <2>0. cl[c].pc = "gone" /\ NoneCreated BY <1>23, <1>u DEF PollGone
  <2>1. \E o \in {"ok", "failed"} : Ends(c, o) BY <1>23 DEF PollGone
  <2> QED BY <1>e, <2>0, <2>1
<1>24. ASSUME NEW c \in TaskClients, RequestFails(c) PROVE TasksInv'
  <2>0. NoneCreated /\ UNCHANGED <<instance, tasks, raced>> BY <1>24, <1>u DEF RequestFails
  <2>1. CASE Ends(c, "failed") /\ cl[c].pc = "result" BY <1>20, <2>0, <2>1
  <2>2. CASE Ends(c, "failed") /\ cl[c].pc # "result"
    <3>1. cl[c].pc \notin {"idle", "observe"} BY <1>24 DEF RequestFails, Requests
    <3> QED BY <1>e, <2>0, <2>2, <3>1
  <2>3. CASE cl[c].pc = "delete" /\ Pc(c, "gone") BY <2>0, <2>3, ProcessGoesOn DEF TaskPcs
  <2> QED BY <1>24, <2>1, <2>2, <2>3 DEF RequestFails
<1>25. ASSUME NEW c \in TaskClients, Killed(c) PROVE TasksInv'
  <2>1. cl' = [cl EXCEPT ![c] = NoCommand] /\ NoneCreated BY <1>25, <1>u DEF Killed
  <2>2. cl'[c] = NoCommand /\ cl' \in [TaskClients -> Processes] /\ OthersKept(c)
    BY <1>t, <2>1, NoCommandIsOne DEF TasksTypeOK, OthersKept
  <2>3. NoCommand.pc = "idle" /\ NoCommand.task = NoTask BY DEF NoCommand
  <2>4. KnowsTask(c)' /\ HasLooked(c)' BY <2>2, <2>3 DEF KnowsTask, HasLooked
  <2> QED BY <2>1, <2>2, <2>4, OneProcessSteps
<1>26. ASSUME NEW c \in TaskClients, Interrupted(c) PROVE TasksInv'
  <2> DEFINE e == [cl[c] EXCEPT !.canceled = TRUE]
  <2>1. cl[c].pc = "observe" /\ NoneCreated BY <1>26, <1>u DEF Interrupted
  <2>2. cl' = [cl EXCEPT ![c] = e] BY <1>26, <1>t DEF Interrupted, TasksTypeOK
  <2>3. /\ e \in Processes /\ e.pc = cl[c].pc /\ e.task = cl[c].task
        /\ e.excused = cl[c].excused /\ e.printer = cl[c].printer
        /\ e.canceller = cl[c].canceller /\ e.chan = cl[c].chan
    BY <1>p DEF Processes
  <2> HIDE DEF e
  <2> QED BY <2>1, <2>2, <2>3, ObserverSteps
<1>27. CASE UNCHANGED taskVars
  BY <1>27, <1>u, PlatformSteps DEF taskVars
<1> QED
  BY <1>1, <1>2, <1>3, <1>4, <1>5, <1>6, <1>7, <1>8, <1>9, <1>10, <1>11, <1>12, <1>13, <1>14, <1>15,
     <1>16, <1>17, <1>18, <1>19, <1>21, <1>22, <1>23, <1>24, <1>25, <1>26, <1>27
  DEF TasksNext, TaskClientStep

\* The invariant holds in every reachable state.
LEMMA TasksInvAlways == TasksSpec => []TasksInv
  BY TasksInvInit, TasksInvNext, PTL DEF TasksSpec

\* An up or stop of a platform workspace that returns leaves no task of its own running
\* (observeTask), for any number of processes, tasks, interrupts and kills, unless its log
\* stream or its cancel request failed.
THEOREM NoTaskLeftRunningHolds == TasksSpec => []NoTaskLeftRunning
<1>1. TasksInv => NoTaskLeftRunning
  BY DEF TasksInv, KnowsTask, EndSeen, NoTaskLeftRunning
<1> QED BY <1>1, TasksInvAlways, PTL

\* One up task of an instance is active at a time, for any number of processes, unless one
\* was created while another up had looked and not yet created its own (Up of the daemon
\* client).
THEOREM OneUpTaskHolds == TasksSpec => []OneUpTask
<1>1. TasksInv => OneUpTask
  BY DEF TasksInv
<1> QED BY <1>1, TasksInvAlways, PTL

=============================================================================
