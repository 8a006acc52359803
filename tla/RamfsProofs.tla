----------------------------- MODULE RamfsProofs ----------------------------
(***************************************************************************)
(* The filesystem of fs/ramfs.c keeps its tree, its buffers and its files'   *)
(* contents, for every set of pointers, names, paths and texts and every     *)
(* sequence of commands.  Where no name is cut, it also keeps names unique,  *)
(* shows paths that lead back exactly where they fit, and implements the     *)
(* abstract FileTree.                                                        *)
(***************************************************************************)
EXTENDS Ramfs, RecursionProofs, SequenceTheorems, FiniteSetTheorems

-----------------------------------------------------------------------------
(* The shape of the tree, for nodes nds.                                    *)

ParentClosed(nds, S) == \A m \in S : nds[m].parent # NULL => nds[m].parent \in S
ChildClosed(nds, S)  == \A m \in S : Range(nds[m].children) \subseteq S

\* Every node is a struct ramfs_node whose parent is a node.
NodesOK(nds) ==
    /\ DOMAIN nds \subseteq Ptrs /\ nds \in [DOMAIN nds -> Node]
    /\ root \in DOMAIN nds /\ nds[root].parent = NULL
    /\ ParentClosed(nds, DOMAIN nds)

\* The list of children of n and the parent links agree; only directories
\* have children and only files have a buffer.
LinksOK(nds, n) ==
    /\ IsInjective(nds[n].children)
    /\ Range(nds[n].children) = {m \in DOMAIN nds : nds[m].parent = n}
    /\ nds[n].type = "file" => nds[n].children = <<>>
    /\ nds[n].type = "dir" => nds[n].data = NULL

\* Going up from anywhere leads to the root.  In this form it is inductive
\* by itself: no bound on the number of steps.
Rooted(nds) ==
    \A S \in SUBSET DOMAIN nds : S # {} /\ ParentClosed(nds, S) => root \in S

Shape(nds) == NodesOK(nds) /\ (\A n \in DOMAIN nds : LinksOK(nds, n)) /\ Rooted(nds)

\* The number of nodes.
LEMMA NodeCount ==
    ASSUME NodesOK(nodes)
    PROVE  /\ IsFiniteSet(DOMAIN nodes) /\ Cardinality(DOMAIN nodes) \in Nat
           /\ Cardinality(DOMAIN nodes) >= 1
<1>1. IsFiniteSet(Ptrs) BY RamfsAssumption
<1>2. IsFiniteSet(DOMAIN nodes) BY <1>1, FS_Subset DEF NodesOK
<1>3. Cardinality(DOMAIN nodes) \in Nat BY <1>2, FS_CardinalityType
<1>4. Cardinality(DOMAIN nodes) # 0 BY <1>2, FS_EmptySet DEF NodesOK
<1> QED BY <1>2, <1>3, <1>4

\* The chain of parents that ramfs_move() follows.
Up(n, up) ==
    up = [i \in 1 .. Cardinality(DOMAIN nodes) |->
            IF i = 1 THEN n
            ELSE LET m == up[i-1]
                 IN  IF m = NULL THEN NULL ELSE nodes[m].parent]

LEMMA UpExists ==
    ASSUME NodesOK(nodes), NEW n \in DOMAIN nodes
    PROVE  \E up : Up(n, up)
<1> DEFINE N == Cardinality(DOMAIN nodes)
           D == DOMAIN nodes \cup {NULL}
           F == [m \in D |-> IF m = NULL THEN NULL ELSE nodes[m].parent]
<1>1. N \in Nat /\ 1 <= N /\ 1 \in Nat BY NodeCount
<1>2. \A m \in D : F[m] \in D BY DEF NodesOK, ParentClosed
<1>3. PICK g : Recurs(g, 1, N, n, F)
  <2> HIDE DEF N, F
  <2> QED BY <1>1, RecursionExists
<1> HIDE DEF N, F
<1> DEFINE S == {i \in 1 .. N : g[i] \in D}
<1>4. \A i \in 1 .. N : g[i] = IF i = 1 THEN n ELSE F[g[i - 1]] BY <1>3 DEF Recurs
<1>5. 1 \in S BY <1>1, <1>4
<1>6. ASSUME NEW i \in 1 .. N - 1, i \in S PROVE i + 1 \in S
  <2>1. i + 1 \in 1 .. N /\ i + 1 # 1 /\ i + 1 - 1 = i BY <1>1
  <2>2. g[i + 1] = F[g[i]] BY <1>4, <2>1
  <2> QED BY <1>2, <1>6, <2>1, <2>2
<1>7. \A i \in 1 .. N : i \in S
  <2> HIDE DEF S
  <2> QED BY <1>1, <1>5, <1>6, RangeInduction
<1>8. \A i \in 1 .. N :
         g[i] = IF i = 1 THEN n ELSE IF g[i - 1] = NULL THEN NULL ELSE nodes[g[i - 1]].parent
  <2> SUFFICES ASSUME NEW i \in 1 .. N, i # 1
               PROVE  g[i] = IF g[i - 1] = NULL THEN NULL ELSE nodes[g[i - 1]].parent
    BY <1>4
  <2>1. i - 1 \in 1 .. N BY <1>1
  <2>2. g[i - 1] \in D BY <1>7, <2>1
  <2> QED BY <1>4, <2>2 DEF F
<1>9. g = [i \in 1 .. N |-> g[i]] BY <1>3 DEF Recurs
<1>10. Up(n, g) BY <1>8, <1>9 DEF Up, N
<1> QED BY <1>10

\* Ancestors(n) is the set of the nodes above n, n included: the bound on the
\* length of the chain never cuts it off.
LEMMA AncestorsClosed ==
    ASSUME NodesOK(nodes), NEW n \in DOMAIN nodes
    PROVE  /\ n \in Ancestors(n) /\ Ancestors(n) \subseteq DOMAIN nodes
           /\ ParentClosed(nodes, Ancestors(n))
<1> DEFINE N == Cardinality(DOMAIN nodes)
           up == CHOOSE g : Up(n, g)
           A(i) == {up[j] : j \in 1 .. i} \ {NULL}
<1>1. N \in Nat /\ 1 <= N /\ IsFiniteSet(DOMAIN nodes) BY NodeCount
<1>2. Up(n, up) BY UpExists
<1>3. Ancestors(n) = {up[i] : i \in DOMAIN up} \ {NULL} BY DEF Ancestors, Up
<1> HIDE DEF up
<1>4. DOMAIN up = 1 .. N BY <1>2 DEF Up
<1>5. up[1] = n BY <1>1, <1>2 DEF Up
<1>6. NULL \notin DOMAIN nodes BY RamfsAssumption DEF NodesOK
<1> HIDE DEF N
<1>7. \A i \in 1 .. N - 1 :
         up[i + 1] = IF up[i] = NULL THEN NULL ELSE nodes[up[i]].parent
  <2>2. \A i \in 1 .. N :
           up[i] = IF i = 1 THEN n
                   ELSE IF up[i - 1] = NULL THEN NULL ELSE nodes[up[i - 1]].parent
    BY <1>2 DEF Up, N
  <2> SUFFICES ASSUME NEW i \in 1 .. N - 1
               PROVE  up[i + 1] = IF up[i] = NULL THEN NULL ELSE nodes[up[i]].parent
    OBVIOUS
  <2>1. i + 1 \in 1 .. N /\ i + 1 # 1 /\ i + 1 - 1 = i BY <1>1
  <2> QED BY <2>1, <2>2
<1>8. \A i \in 1 .. N : up[i] \in DOMAIN nodes \cup {NULL}
  <2> DEFINE S == {i \in 1 .. N : up[i] \in DOMAIN nodes \cup {NULL}}
  <2>1. 1 \in S BY <1>1, <1>5
  <2>2. ASSUME NEW i \in 1 .. N - 1, i \in S PROVE i + 1 \in S
    BY <1>1, <1>7, <2>2 DEF NodesOK, ParentClosed
  <2>3. \A i \in 1 .. N : i \in S
    <3> HIDE DEF S
    <3> QED BY <1>1, <2>1, <2>2, RangeInduction
  <2> QED BY <2>3
\* The chain so far is closed, or has not met any node twice.
<1>9. ASSUME NEW i \in 1 .. N PROVE A(i) \subseteq DOMAIN nodes /\ IsFiniteSet(A(i))
  <2>1. A(i) \subseteq DOMAIN nodes BY <1>1, <1>8
  <2> HIDE DEF A
  <2> QED BY <1>1, <2>1, FS_Subset
<1>10. ASSUME NEW i \in 1 .. N - 1
       PROVE  A(i + 1) = IF up[i + 1] = NULL THEN A(i) ELSE A(i) \cup {up[i + 1]}
  <2>1. 1 .. i + 1 = (1 .. i) \cup {i + 1} BY <1>1
  <2> QED BY <2>1
<1>11. ASSUME NEW i \in 1 .. N - 1, up[i + 1] = NULL \/ up[i + 1] \in A(i)
       PROVE  ParentClosed(nodes, A(i))
  <2> SUFFICES ASSUME NEW j \in 1 .. i, up[j] # NULL, nodes[up[j]].parent # NULL
               PROVE  nodes[up[j]].parent \in A(i)
    BY DEF ParentClosed
  <2>1. j \in 1 .. N - 1 /\ j \in Int /\ i \in Int /\ j <= i BY <1>1
  <2>2. nodes[up[j]].parent = up[j + 1] BY <1>7, <2>1
  <2>3. CASE j = i BY <1>11, <2>2, <2>3
  <2>4. CASE j # i
    <3>1. j + 1 \in 1 .. i BY <2>1, <2>4
    <3> QED BY <2>2, <3>1
  <2> QED BY <2>3, <2>4
<1>12. \A i \in 1 .. N : ParentClosed(nodes, A(i)) \/ Cardinality(A(i)) >= i
  <2> DEFINE S == {i \in 1 .. N : ParentClosed(nodes, A(i)) \/ Cardinality(A(i)) >= i}
  <2>1. 1 \in S
    <3>1. A(1) = {n} BY <1>5, <1>6
    <3>2. Cardinality(A(1)) = 1 BY <3>1, FS_Singleton
    <3> QED BY <1>1, <3>2
  <2>2. ASSUME NEW i \in 1 .. N - 1, i \in S PROVE i + 1 \in S
    <3>1. i \in 1 .. N /\ i + 1 \in 1 .. N /\ i \in Nat BY <1>1
    <3>2. A(i + 1) = IF up[i + 1] = NULL THEN A(i) ELSE A(i) \cup {up[i + 1]} BY <1>10
    <3>3. CASE ParentClosed(nodes, A(i))
      <4>1. up[i] \in A(i) \cup {NULL} BY <3>1
      <4>2. up[i + 1] \in A(i) \cup {NULL}
        <5> HIDE DEF A
        <5> QED BY <1>7, <3>3, <4>1 DEF ParentClosed
      <4> HIDE DEF A
      <4>3. A(i + 1) = A(i) BY <3>2, <4>2
      <4> QED BY <3>1, <3>3, <4>3
    <3>4. CASE ~ParentClosed(nodes, A(i))
      <4>1. up[i + 1] # NULL /\ up[i + 1] \notin A(i)
        <5> HIDE DEF A
        <5> QED BY <1>11, <3>4
      <4>2. Cardinality(A(i)) >= i BY <2>2, <3>4
      <4>3. IsFiniteSet(A(i)) BY <1>9, <3>1
      <4> HIDE DEF A
      <4>4. Cardinality(A(i + 1)) = Cardinality(A(i)) + 1 /\ Cardinality(A(i)) \in Nat
        BY <3>2, <4>1, <4>3, FS_AddElement, FS_CardinalityType
      <4> QED BY <3>1, <4>2, <4>4
    <3> QED BY <3>3, <3>4
  <2>3. \A i \in 1 .. N : i \in S
    <3> HIDE DEF S
    <3> QED BY <1>1, <2>1, <2>2, RangeInduction
  <2> QED BY <2>3
<1>13. ParentClosed(nodes, A(N))
  <2>1. N \in 1 .. N BY <1>1
  <2>2. A(N) \subseteq DOMAIN nodes /\ IsFiniteSet(A(N)) BY <1>9, <2>1
  <2> HIDE DEF A
  <2>3. CASE Cardinality(A(N)) >= N
    <3>1. Cardinality(A(N)) <= N /\ Cardinality(A(N)) \in Nat
      BY <1>1, <2>2, FS_Subset, FS_CardinalityType DEF N
    <3>2. Cardinality(A(N)) = Cardinality(DOMAIN nodes) BY <1>1, <2>3, <3>1 DEF N
    <3>3. A(N) = DOMAIN nodes BY <1>1, <2>2, <3>2, FS_Subset
    <3> QED BY <3>3 DEF NodesOK
  <2> QED BY <1>12, <2>1, <2>3
<1>14. Ancestors(n) = A(N) BY <1>3, <1>4
<1>15. n \in A(N)
  <2>1. 1 \in 1 .. N BY <1>1
  <2> QED BY <1>5, <1>6, <2>1
<1>16. A(N) \subseteq DOMAIN nodes
  <2>1. N \in 1 .. N BY <1>1
  <2> HIDE DEF A
  <2> QED BY <1>9, <2>1
<1> HIDE DEF A
<1> QED BY <1>13, <1>14, <1>15, <1>16

\* The nodes that free_tree(n) visits, level by level.
Down(n, down) ==
    down = [i \in 0 .. Cardinality(DOMAIN nodes) |->
              IF i = 0 THEN {n}
              ELSE LET S == down[i-1]
                   IN  S \cup UNION {Range(nodes[m].children) : m \in S}]

LEMMA DownExists ==
    ASSUME Shape(nodes), NEW n \in DOMAIN nodes
    PROVE  \E down : Down(n, down)
<1> DEFINE N == Cardinality(DOMAIN nodes)
           D == SUBSET DOMAIN nodes
           F == [S \in D |-> S \cup UNION {Range(nodes[m].children) : m \in S}]
<1>1. N \in Nat /\ 0 \in Nat /\ 0 <= N BY NodeCount DEF Shape
<1>2. \A S \in D : F[S] \in D
  <2> SUFFICES ASSUME NEW S \in D PROVE F[S] \in D OBVIOUS
  <2>1. ASSUME NEW m \in S PROVE Range(nodes[m].children) \subseteq DOMAIN nodes
    BY DEF Shape, LinksOK
  <2> QED BY <2>1
<1>3. PICK g : Recurs(g, 0, N, {n}, F)
  <2> HIDE DEF N, F
  <2> QED BY <1>1, RecursionExists
<1> HIDE DEF N, F
<1> DEFINE S == {i \in 0 .. N : g[i] \in D}
<1>4. \A i \in 0 .. N : g[i] = IF i = 0 THEN {n} ELSE F[g[i - 1]] BY <1>3 DEF Recurs
<1>5. 0 \in S BY <1>1, <1>4
<1>6. ASSUME NEW i \in 0 .. N - 1, i \in S PROVE i + 1 \in S
  <2>1. i + 1 \in 0 .. N /\ i + 1 # 0 /\ i + 1 - 1 = i BY <1>1
  <2>2. g[i + 1] = F[g[i]] BY <1>4, <2>1
  <2> QED BY <1>2, <1>6, <2>1, <2>2
<1>7. \A i \in 0 .. N : i \in S
  <2> HIDE DEF S
  <2> QED BY <1>1, <1>5, <1>6, RangeInduction
<1>8. \A i \in 0 .. N :
         g[i] = IF i = 0 THEN {n}
                ELSE g[i - 1] \cup UNION {Range(nodes[m].children) : m \in g[i - 1]}
  <2> SUFFICES ASSUME NEW i \in 0 .. N, i # 0
               PROVE  g[i] = g[i - 1] \cup UNION {Range(nodes[m].children) : m \in g[i - 1]}
    BY <1>4
  <2>1. i - 1 \in 0 .. N BY <1>1
  <2>2. g[i - 1] \in D BY <1>7, <2>1
  <2>3. g[i] = F[g[i - 1]] BY <1>4
  <2> HIDE DEF D
  <2> QED BY <2>2, <2>3 DEF F
<1>9. g = [i \in 0 .. N |-> g[i]] BY <1>3 DEF Recurs
<1>10. Down(n, g) BY <1>8, <1>9 DEF Down, N
<1> QED BY <1>10

\* S is a set of nodes that hang together below n.
Below(n, S) ==
    /\ n \in S /\ S \subseteq DOMAIN nodes
    /\ \A x \in S : x = n \/ nodes[x].parent \in S

\* Subtree(n) is everything below n, n included.
NextLevel(S) == S \cup UNION {Range(nodes[m].children) : m \in S}

LEMMA SubtreeClosed ==
    ASSUME Shape(nodes), NEW n \in DOMAIN nodes
    PROVE  Below(n, Subtree(n)) /\ ChildClosed(nodes, Subtree(n))
<1> DEFINE N == Cardinality(DOMAIN nodes)
           down == CHOOSE g : Down(n, g)
<1>1. N \in Nat /\ 1 <= N /\ IsFiniteSet(DOMAIN nodes) BY NodeCount DEF Shape
<1>2. Down(n, down) BY DownExists
<1>3. Subtree(n) = down[N] BY DEF Subtree, Down
<1> HIDE DEF down, N
<1>4. \A i \in 0 .. N :
         down[i] = IF i = 0 THEN {n}
                   ELSE NextLevel(down[i - 1])
  BY <1>2 DEF Down, N, NextLevel
<1>5. \A i \in 0 .. N - 1 : down[i + 1] = NextLevel(down[i])
  <2> SUFFICES ASSUME NEW i \in 0 .. N - 1 PROVE down[i + 1] = NextLevel(down[i])
    OBVIOUS
  <2>1. i + 1 \in 0 .. N /\ i + 1 # 0 /\ i + 1 - 1 = i BY <1>1
  <2> QED BY <1>4, <2>1
<1>6. down[0] = {n} BY <1>1, <1>4
<1> DEFINE S == {i \in 0 .. N : /\ Below(n, down[i])
                               /\ \/ ChildClosed(nodes, down[i])
                                  \/ Cardinality(down[i]) >= i + 1}
<1>7. 0 \in S
  <2>1. Below(n, down[0]) BY <1>6 DEF Below
  <2>2. Cardinality(down[0]) = 1 BY <1>6, FS_Singleton
  <2> QED BY <1>1, <2>1, <2>2
<1>8. ASSUME NEW i \in 0 .. N - 1, i \in S PROVE i + 1 \in S
  <2>1. i + 1 \in 0 .. N /\ i \in Nat BY <1>1
  <2>2. Below(n, down[i]) BY <1>8
  <2>3. ASSUME NEW m \in down[i], NEW x \in Range(nodes[m].children)
        PROVE  x \in DOMAIN nodes /\ nodes[x].parent = m
    BY <2>2, <2>3 DEF Below, Shape, LinksOK
  <2>4. Below(n, down[i + 1])
    <3>1. down[i + 1] = down[i] \cup UNION {Range(nodes[m].children) : m \in down[i]}
      BY <1>5 DEF NextLevel
    <3>2. n \in down[i + 1] BY <2>2, <3>1 DEF Below
    <3>3. ASSUME NEW x \in down[i + 1]
          PROVE  x \in DOMAIN nodes /\ (x = n \/ nodes[x].parent \in down[i + 1])
      <4>1. CASE x \in down[i] BY <2>2, <3>1, <4>1 DEF Below
      <4>2. CASE x \notin down[i]
        <5>1. PICK m \in down[i] : x \in Range(nodes[m].children) BY <3>1, <4>2
        <5> QED BY <2>3, <3>1, <5>1
      <4> QED BY <4>1, <4>2
    <3> QED BY <3>2, <3>3 DEF Below
  <2>5. CASE ChildClosed(nodes, down[i])
    <3>1. NextLevel(down[i]) = down[i] BY <2>5 DEF ChildClosed, NextLevel
    <3>2. down[i + 1] = down[i] BY <1>5, <3>1
    <3> QED BY <2>1, <2>4, <2>5, <3>2
  <2>6. CASE ~ChildClosed(nodes, down[i])
    <3>1. Cardinality(down[i]) >= i + 1 BY <1>8, <2>6
    <3>2. PICK m \in down[i] : \E y \in Range(nodes[m].children) : y \notin down[i]
      BY <2>6 DEF ChildClosed
    <3>9. PICK y \in Range(nodes[m].children) : y \notin down[i] BY <3>2
    <3>3. down[i] \cup {y} \subseteq down[i + 1] BY <1>5 DEF NextLevel
    <3>4. IsFiniteSet(down[i + 1]) BY <1>1, <2>4, FS_Subset DEF Below
    <3>5. IsFiniteSet(down[i]) BY <3>3, <3>4, FS_Subset
    <3>6. Cardinality(down[i] \cup {y}) = Cardinality(down[i]) + 1 /\ Cardinality(down[i]) \in Nat
      BY <3>9, <3>5, FS_AddElement, FS_CardinalityType
    <3>7. Cardinality(down[i] \cup {y}) <= Cardinality(down[i + 1])
          /\ Cardinality(down[i + 1]) \in Nat
      BY <3>3, <3>4, FS_Subset, FS_CardinalityType
    <3>8. Cardinality(down[i + 1]) >= i + 1 + 1 BY <2>1, <3>1, <3>6, <3>7
    <3> QED BY <2>1, <2>4, <3>8
  <2> QED BY <2>5, <2>6
<1>9. \A i \in 0 .. N : i \in S
  <2> HIDE DEF S
  <2> QED BY <1>1, <1>7, <1>8, RangeInduction
<1>10. N \in S BY <1>1, <1>9
<1>11. Below(n, down[N]) BY <1>10
<1>12. Cardinality(down[N]) <= N /\ Cardinality(down[N]) \in Nat
  BY <1>1, <1>11, FS_Subset, FS_CardinalityType DEF Below, N
<1>13. ChildClosed(nodes, down[N]) BY <1>1, <1>10, <1>12
<1> QED BY <1>3, <1>11, <1>13

-----------------------------------------------------------------------------
(* Walking a path.                                                         *)

\* The walk along the components s from start, as the fold computes it.
Walks(start, s, g) ==
    g = [t \in SUBSET DOMAIN s |->
           IF t = {} THEN start ELSE WalkStep(g[t \ {Max(t)}], s[Max(t)])]

\* find_child() finds a node or nothing.
LEMMA FindChild ==
    ASSUME Shape(nodes), NEW dir \in DOMAIN nodes, NEW name
    PROVE  find_child(dir, name) \in DOMAIN nodes \cup {NULL}
<1> DEFINE s == nodes[dir].children
           i == SelectInSeq(s, LAMBDA c : nodes[c].name = name)
<1>1. s \in Seq(Ptrs) /\ Range(s) \subseteq DOMAIN nodes
  BY DEF Shape, NodesOK, LinksOK, Node
<1>2. i \in DOMAIN s \cup {0}
  <2> DEFINE I == {j \in 1 .. Len(s) : nodes[s[j]].name = name}
  <2>1. i = IF I = {} THEN 0 ELSE Min(I) BY DEF SelectInSeq
  <2>2. DOMAIN s = 1 .. Len(s) /\ Len(s) \in Nat BY <1>1
  <2>3. I \in SUBSET Nat /\ I \subseteq DOMAIN s BY <2>2
  <2> HIDE DEF I
  <2>4. CASE I = {} BY <2>1, <2>4
  <2>5. CASE I # {}
    <3>1. PICK m \in I : \A k \in I : m <= k BY <2>3, <2>5, LeastExists
    <3>2. Min(I) \in I BY <3>1 DEF Min
    <3> QED BY <2>1, <2>3, <2>5, <3>2
  <2> QED BY <2>4, <2>5
<1>3. find_child(dir, name) = IF i = 0 THEN NULL ELSE s[i] BY DEF find_child
<1> HIDE DEF i, s
<1> QED BY <1>1, <1>2, <1>3 DEF Range

\* It finds nothing only if there is no such child.
NoChild(dir, name) == \A m \in DOMAIN nodes : nodes[m].parent = dir => nodes[m].name # name

LEMMA FindChildIs ==
    ASSUME Shape(nodes), NEW dir \in DOMAIN nodes, NEW name
    PROVE  LET c == find_child(dir, name)
           IN  IF c = NULL THEN NoChild(dir, name)
               ELSE c \in DOMAIN nodes /\ nodes[c].parent = dir /\ nodes[c].name = name
<1> DEFINE s == nodes[dir].children
           i == SelectInSeq(s, LAMBDA c : nodes[c].name = name)
           I == {j \in 1 .. Len(s) : nodes[s[j]].name = name}
<1>1. /\ s \in Seq(Ptrs) /\ Range(s) = {m \in DOMAIN nodes : nodes[m].parent = dir}
      /\ NULL \notin DOMAIN nodes
  BY RamfsAssumption DEF Shape, NodesOK, LinksOK, Node
<1>2. find_child(dir, name) = IF i = 0 THEN NULL ELSE s[i] BY DEF find_child
<1>3. i = IF I = {} THEN 0 ELSE Min(I) BY DEF SelectInSeq
<1>4. DOMAIN s = 1 .. Len(s) /\ Len(s) \in Nat BY <1>1
<1>5. I \in SUBSET Nat BY <1>4
<1>6. CASE I = {}
  <2>1. find_child(dir, name) = NULL BY <1>2, <1>3, <1>6
  <2>2. NoChild(dir, name)
    <3> SUFFICES ASSUME NEW m \in DOMAIN nodes, nodes[m].parent = dir, nodes[m].name = name
                 PROVE  FALSE
      BY DEF NoChild
    <3>1. m \in Range(s) BY <1>1
    <3>2. PICK j \in DOMAIN s : m = s[j] BY <3>1 DEF Range
    <3> QED BY <1>4, <1>6, <3>2
  <2> QED BY <2>1, <2>2
<1>7. CASE I # {}
  <2>1. Min(I) \in I
    <3> HIDE DEF I
    <3>1. PICK m \in I : \A k \in I : m <= k BY <1>5, <1>7, LeastExists
    <3> QED BY <3>1 DEF Min
  <2>2. i \in I BY <1>3, <1>7, <2>1
  <2>3. i \in DOMAIN s /\ i # 0 /\ nodes[s[i]].name = name BY <1>4, <2>2
  <2> HIDE DEF i, s
  <2>4. s[i] \in Range(s) BY <2>3 DEF Range
  <2>5. s[i] \in DOMAIN nodes /\ nodes[s[i]].parent = dir BY <1>1, <2>4
  <2>6. find_child(dir, name) = s[i] /\ s[i] # NULL BY <1>1, <1>2, <2>3, <2>5
  <2> QED BY <2>3, <2>5, <2>6
<1> QED BY <1>6, <1>7

\* So does a step of walk(): the result is always alive.
LEMMA WalkStepType ==
    ASSUME Shape(nodes), NEW m \in DOMAIN nodes \cup {NULL}, NEW c
    PROVE  WalkStep(m, c) \in DOMAIN nodes \cup {NULL}
<1>1. CASE m = NULL BY <1>1 DEF WalkStep
<1>2. CASE m # NULL
  <2>1. nodes[m].parent \in DOMAIN nodes \cup {NULL} BY <1>2 DEF Shape, NodesOK, ParentClosed
  <2>2. find_child(m, c) \in DOMAIN nodes \cup {NULL} BY <1>2, FindChild
  <2> QED BY <1>2, <2>1, <2>2 DEF WalkStep
<1> QED BY <1>1, <1>2

\* The fold is well defined and stays among the live nodes.
LEMMA WalksExists ==
    ASSUME Shape(nodes), NEW start \in DOMAIN nodes, NEW X, NEW s \in Seq(X)
    PROVE  /\ \E g : Walks(start, s, g)
           /\ \A g : Walks(start, s, g) =>
                \A t \in SUBSET DOMAIN s : g[t] \in DOMAIN nodes \cup {NULL}
<1> DEFINE D == DOMAIN nodes \cup {NULL}
           n == Len(s)
           F == [tm \in (SUBSET (1 .. n)) \X D |-> WalkStep(tm[2], s[Max(tm[1])])]
           P == [t \in SUBSET (1 .. n) |-> D]
<1>1. n \in Nat /\ DOMAIN s = 1 .. n OBVIOUS
<1> HIDE DEF n
<1>2. ASSUME NEW t \in SUBSET (1 .. n), NEW m \in D
      PROVE  F[<<t, m>>] = WalkStep(m, s[Max(t)]) /\ F[<<t, m>>] \in D
  BY WalkStepType
<1>3. PICK g : Folds(g, n, start, F)
  <2> HIDE DEF F
  <2> QED BY <1>1, FoldExists
<1>4. \A t \in SUBSET (1 .. n) : g[t] = IF t = {} THEN start ELSE F[<<t, g[t \ {Max(t)}]>>]
  BY <1>3 DEF Folds
<1> HIDE DEF F
<1>5. \A t \in SUBSET (1 .. n) : g[t] \in D
  <2>1. g[{}] \in P[{}] BY <1>4
  <2>2. ASSUME NEW t \in SUBSET (1 .. n), t # {}, g[t \ {Max(t)}] \in P[t \ {Max(t)}]
        PROVE  g[t] \in P[t]
    <3>1. t \ {Max(t)} \in SUBSET (1 .. n) OBVIOUS
    <3>2. g[t \ {Max(t)}] \in D BY <2>2, <3>1
    <3>3. g[t] \in D BY <1>2, <1>4, <2>2, <3>2
    <3> QED BY <3>3
  <2>3. \A t \in SUBSET (1 .. n) : g[t] \in P[t]
    <3> HIDE DEF P
    <3> QED BY <1>1, <2>1, <2>2, FoldStays
  <2> QED BY <2>3
<1>6. ASSUME NEW t \in SUBSET (1 .. n), t # {}
      PROVE  g[t] = WalkStep(g[t \ {Max(t)}], s[Max(t)])
  <2>1. t \ {Max(t)} \in SUBSET (1 .. n) OBVIOUS
  <2>2. g[t \ {Max(t)}] \in D BY <1>5, <2>1
  <2> QED BY <1>2, <1>4, <1>6, <2>2
<1>7. g = [t \in SUBSET (1 .. n) |-> g[t]] BY <1>3 DEF Folds
<1>8. Walks(start, s, g) BY <1>1, <1>4, <1>6, <1>7 DEF Walks
<1>9. ASSUME NEW h, Walks(start, s, h)
      PROVE  \A t \in SUBSET (1 .. n) : h[t] \in D
  <2>1. \A t \in SUBSET (1 .. n) :
           h[t] = IF t = {} THEN start ELSE WalkStep(h[t \ {Max(t)}], s[Max(t)])
    BY <1>1, <1>9 DEF Walks
  <2>2. h[{}] \in P[{}] BY <2>1
  <2>3. ASSUME NEW t \in SUBSET (1 .. n), t # {}, h[t \ {Max(t)}] \in P[t \ {Max(t)}]
        PROVE  h[t] \in P[t]
    <3>1. t \ {Max(t)} \in SUBSET (1 .. n) OBVIOUS
    <3>2. h[t \ {Max(t)}] \in D BY <2>3, <3>1
    <3>3. h[t] \in D BY <2>1, <2>3, <3>2, WalkStepType
    <3> QED BY <3>3
  <2>4. \A t \in SUBSET (1 .. n) : h[t] \in P[t]
    <3> HIDE DEF P
    <3> QED BY <1>1, <2>2, <2>3, FoldStays
  <2> QED BY <2>4
<1>10. \A h : Walks(start, s, h) => \A t \in SUBSET DOMAIN s : h[t] \in D BY <1>1, <1>9
<1> QED BY <1>8, <1>10

LEMMA FoldIsWalk ==
    ASSUME NEW start, NEW s
    PROVE  FoldLeft(WalkStep, start, s) = (CHOOSE g : Walks(start, s, g))[DOMAIN s]
BY DEF Walks, FoldLeft, MapThenFoldSet

LEMMA FrontIs ==
    ASSUME NEW X, NEW s \in Seq(X), s # <<>>
    PROVE  /\ Front(s) \in Seq(X) /\ Len(s) - 1 \in Nat /\ DOMAIN Front(s) = 1 .. Len(s) - 1
           /\ \A i \in 1 .. Len(s) - 1 : Front(s)[i] = s[i]
BY SubSeqProperties DEF Front

\* walk() finds a live node or nothing, nothing more than start on an empty
\* path, and takes the last component from where the others lead.
LEMMA WalkEnds ==
    ASSUME Shape(nodes), NEW start \in DOMAIN nodes, NEW X, NEW s \in Seq(X)
    PROVE  /\ FoldLeft(WalkStep, start, s) \in DOMAIN nodes \cup {NULL}
           /\ s = <<>> => FoldLeft(WalkStep, start, s) = start
           /\ s # <<>> => FoldLeft(WalkStep, start, s)
                            = WalkStep(FoldLeft(WalkStep, start, Front(s)), Last(s))
<1> DEFINE n == Len(s)
           g == CHOOSE x : Walks(start, s, x)
           h == CHOOSE x : Walks(start, Front(s), x)
<1>1. n \in Nat /\ DOMAIN s = 1 .. n OBVIOUS
<1>2. Walks(start, s, g) BY WalksExists
<1>3. FoldLeft(WalkStep, start, s) = g[1 .. n] BY <1>1, FoldIsWalk
<1> HIDE DEF g
<1>4. \A t \in SUBSET (1 .. n) : g[t] \in DOMAIN nodes \cup {NULL} BY <1>1, <1>2, WalksExists
<1>5. \A t \in SUBSET (1 .. n) :
         g[t] = IF t = {} THEN start ELSE WalkStep(g[t \ {Max(t)}], s[Max(t)])
  BY <1>1, <1>2 DEF Walks
<1>6. ASSUME s = <<>> PROVE g[1 .. n] = start
  <2>1. 1 .. n = {} BY <1>1, <1>6
  <2> QED BY <1>5, <2>1
<1>7. ASSUME s # <<>> PROVE g[1 .. n] = WalkStep(FoldLeft(WalkStep, start, Front(s)), Last(s))
  <2>1. /\ Front(s) \in Seq(X) /\ n - 1 \in Nat /\ DOMAIN Front(s) = 1 .. n - 1
        /\ \A i \in 1 .. n - 1 : Front(s)[i] = s[i]
    BY <1>7, FrontIs
  <2>2. Walks(start, Front(s), h) BY <2>1, WalksExists
  <2>3. FoldLeft(WalkStep, start, Front(s)) = h[1 .. n - 1] BY <2>1, FoldIsWalk
  <2> HIDE DEF h
  <2> DEFINE P == [t \in SUBSET (1 .. n - 1) |-> {g[t]}]
  <2>4. \A t \in SUBSET (1 .. n - 1) :
           h[t] = IF t = {} THEN start ELSE WalkStep(h[t \ {Max(t)}], Front(s)[Max(t)])
    BY <2>1, <2>2 DEF Walks
  <2>5. SUBSET (1 .. n - 1) \subseteq SUBSET (1 .. n) BY <1>1
  <2>6. h[{}] \in P[{}] BY <1>5, <2>4
  <2>7. ASSUME NEW t \in SUBSET (1 .. n - 1), t # {}, h[t \ {Max(t)}] \in P[t \ {Max(t)}]
        PROVE  h[t] \in P[t]
    <3>1. t \ {Max(t)} \in SUBSET (1 .. n - 1) OBVIOUS
    <3>2. h[t \ {Max(t)}] = g[t \ {Max(t)}] BY <2>7, <3>1
    <3>3. Max(t) \in 1 .. n - 1 BY <2>1, <2>7, MaxIs
    <3>4. h[t] = WalkStep(h[t \ {Max(t)}], s[Max(t)]) BY <2>1, <2>4, <2>7, <3>3
    <3>5. g[t] = WalkStep(g[t \ {Max(t)}], s[Max(t)]) BY <1>5, <2>5, <2>7
    <3> QED BY <3>2, <3>4, <3>5
  <2>8. \A t \in SUBSET (1 .. n - 1) : h[t] \in P[t]
    <3> HIDE DEF P
    <3> QED BY <2>1, <2>6, <2>7, FoldStays
  <2>9. h[1 .. n - 1] = g[1 .. n - 1] BY <2>8
  <2>10. 1 .. n # {} /\ 1 .. n \in SUBSET (1 .. n) /\ n \in 1 .. n BY <1>1, <2>1
  <2>11. Max(1 .. n) = n
    <3>1. Max(1 .. n) \in 1 .. n /\ \A y \in 1 .. n : y <= Max(1 .. n)
      <4> HIDE DEF n
      <4> QED BY <1>1, <2>10, MaxIs
    <3> QED BY <1>1, <2>10, <3>1
  <2>12. (1 .. n) \ {n} = 1 .. n - 1 BY <1>1
  <2>13. g[1 .. n] = WalkStep(g[1 .. n - 1], s[n])
    <3> HIDE DEF n
    <3> QED BY <1>5, <2>10, <2>11, <2>12
  <2> QED BY <2>3, <2>9, <2>13 DEF Last
<1> QED BY <1>3, <1>4, <1>6, <1>7

AnyPath == [abs : BOOLEAN, comps : Seq(Component \cup {NoName}), slash : BOOLEAN, len : Nat]

LEMMA Resolve ==
    ASSUME Shape(nodes), cwd \in DOMAIN nodes, NEW path \in AnyPath
    PROVE  /\ ramfs_resolve(path) \in DOMAIN nodes \cup {NULL}
           /\ path.comps = <<>> => ramfs_resolve(path) # NULL
           /\ path.comps # <<>> =>
                /\ Containing(path) \in DOMAIN nodes \cup {NULL}
                /\ ramfs_resolve(path) = WalkStep(Containing(path), Last(path.comps))
<1> DEFINE start == IF path.abs THEN root ELSE cwd
           s == path.comps
<1>1. start \in DOMAIN nodes BY DEF Shape, NodesOK
<1>2. s \in Seq(Component \cup {NoName}) BY DEF AnyPath
<1>3. ramfs_resolve(path) = FoldLeft(WalkStep, start, s) BY DEF ramfs_resolve
<1>4. NULL \notin DOMAIN nodes BY RamfsAssumption DEF Shape, NodesOK
<1>5. ASSUME s # <<>>
      PROVE  /\ Front(s) \in Seq(Component \cup {NoName})
             /\ Containing(path) = FoldLeft(WalkStep, start, Front(s))
  <2>1. Front(s) \in Seq(Component \cup {NoName})
    <3> HIDE DEF s
    <3> QED BY <1>2, <1>5, FrontIs
  <2>2. [path EXCEPT !.comps = Front(path.comps)].abs = path.abs
        /\ [path EXCEPT !.comps = Front(path.comps)].comps = Front(s)
    BY DEF AnyPath
  <2> QED BY <2>1, <2>2 DEF Containing, ramfs_resolve
<1> HIDE DEF s, start
<1>6. /\ FoldLeft(WalkStep, start, s) \in DOMAIN nodes \cup {NULL}
      /\ s = <<>> => FoldLeft(WalkStep, start, s) = start
      /\ s # <<>> => FoldLeft(WalkStep, start, s)
                            = WalkStep(FoldLeft(WalkStep, start, Front(s)), Last(s))
  BY <1>1, <1>2, WalkEnds
<1>7. s # <<>> => FoldLeft(WalkStep, start, Front(s)) \in DOMAIN nodes \cup {NULL}
  BY <1>1, <1>5, WalkEnds
<1> QED BY <1>1, <1>3, <1>4, <1>5, <1>6, <1>7 DEF s

-----------------------------------------------------------------------------
(* Lists of children.                                                       *)

\* Unlinking an entry from a list leaves the others, each still once.
LEMMA RemoveFirstIs ==
    ASSUME NEW X, NEW s \in Seq(X), IsInjective(s), NEW e
    PROVE  LET r == RemoveFirst(s, e)
           IN  r \in Seq(X) /\ IsInjective(r) /\ Range(r) = Range(s) \ {e}
<1> DEFINE L == Len(s)
           I == {i \in 1 .. L : s[i] = e}
<1>1. L \in Nat /\ DOMAIN s = 1 .. L OBVIOUS
<1>2. CASE I = {}
  <2>1. ~ \E i \in 1 .. Len(s) : s[i] = e BY <1>2
  <2>2. RemoveFirst(s, e) = s BY <2>1 DEF RemoveFirst
  <2>3. e \notin Range(s) BY <1>1, <2>1 DEF Range
  <2> QED BY <2>2, <2>3
<1>3. CASE I # {}
  <2>1. PICK k \in 1 .. L : s[k] = e BY <1>3
  <2>2. I = {k} BY <1>1, <2>1 DEF IsInjective
  <2>3. Min(I) = k
    <3>1. k \in {k} /\ \A y \in {k} : k <= y BY <1>1
    <3>2. \A x \in {k} : x = k OBVIOUS
    <3> QED BY <2>2, <3>1, <3>2 DEF Min
  <2>4. SelectInSeq(s, LAMBDA v : v = e) = k BY <1>3, <2>3 DEF SelectInSeq
  <2> DEFINE a == SubSeq(s, 1, k - 1)
             b == SubSeq(s, k + 1, L)
             r == a \o b
  <2>5. RemoveFirst(s, e) = r
    <3>1. \E i \in 1 .. Len(s) : s[i] = e BY <2>1
    <3> HIDE DEF L
    <3> QED BY <2>4, <3>1 DEF RemoveFirst, RemoveAt, L
  <2>6. a \in Seq(X) /\ Len(a) = k - 1 /\ \A i \in 1 .. k - 1 : a[i] = s[i]
    BY <1>1, <2>1, SubSeqProperties
  <2>7. b \in Seq(X) /\ Len(b) = L - k /\ \A i \in 1 .. L - k : b[i] = s[k + i]
    <3>1. \A i \in k + 1 .. L : s[i] \in X BY <1>1, <2>1, ElementOfSeq
    <3>2. /\ b \in Seq(X)
          /\ Len(b) = IF k + 1 <= L THEN L - (k + 1) + 1 ELSE 0
          /\ \A i \in 1 .. L - (k + 1) + 1 : b[i] = s[k + 1 + i - 1]
      BY <1>1, <2>1, <3>1, SubSeqProperties
    <3>3. ASSUME NEW i \in 1 .. L - k PROVE b[i] = s[k + i]
      <4>1. i \in 1 .. L - (k + 1) + 1 /\ k + 1 + i - 1 = k + i BY <1>1, <2>1
      <4> QED BY <3>2, <4>1
    <3> HIDE DEF b, L
    <3>4. Len(b) = L - k BY <1>1, <2>1, <3>2
    <3> QED BY <3>2, <3>3, <3>4
  <2> HIDE DEF a, b
  <2>8. /\ r \in Seq(X) /\ DOMAIN r = 1 .. L - 1
        /\ \A i \in 1 .. L - 1 : r[i] = IF i < k THEN s[i] ELSE s[i + 1]
    <3>3. r \in Seq(X) /\ Len(r) = Len(a) + Len(b) BY <2>6, <2>7, ConcatProperties
    <3>1. r \in Seq(X) /\ Len(r) = L - 1
      <4> HIDE DEF r, L
      <4> QED BY <1>1, <2>1, <2>6, <2>7, <3>3
    <3>2. ASSUME NEW i \in 1 .. L - 1 PROVE r[i] = IF i < k THEN s[i] ELSE s[i + 1]
      <4>1. i \in 1 .. Len(a) + Len(b) BY <1>1, <2>1, <2>6, <2>7
      <4>2. r[i] = IF i <= Len(a) THEN a[i] ELSE b[i - Len(a)]
        BY <2>6, <2>7, <4>1, ConcatProperties
      <4>3. CASE i < k BY <1>1, <2>1, <2>6, <4>2, <4>3
      <4>4. CASE ~(i < k)
        <5>1. i - Len(a) \in 1 .. L - k /\ ~(i <= Len(a)) /\ k + (i - Len(a)) = i + 1
          BY <1>1, <2>1, <2>6, <4>4
        <5> QED BY <2>7, <4>2, <4>4, <5>1
      <4> QED BY <4>3, <4>4
    <3> HIDE DEF r
    <3> QED BY <1>1, <3>1, <3>2
  <2> HIDE DEF r, L
  <2>9. IsInjective(r)
    <3> SUFFICES ASSUME NEW i \in 1 .. L - 1, NEW j \in 1 .. L - 1, r[i] = r[j] PROVE i = j
      BY <2>8 DEF IsInjective
    <3> DEFINE f(x) == IF x < k THEN x ELSE x + 1
    <3>1. f(i) \in 1 .. L /\ f(j) \in 1 .. L BY <1>1, <2>1
    <3>2. r[i] = s[f(i)] /\ r[j] = s[f(j)] BY <2>8
    <3>3. f(i) = f(j)
      <4> HIDE DEF f
      <4> QED BY <1>1, <3>1, <3>2 DEF IsInjective
    <3> QED BY <1>1, <2>1, <3>3
  <2>10. ASSUME NEW x \in Range(r) PROVE x \in Range(s) \ {e}
    <3>1. PICK i \in 1 .. L - 1 : x = r[i] BY <2>8 DEF Range
    <3>2. CASE i < k
      <4>1. i \in 1 .. L /\ i # k BY <1>1, <2>1, <3>2
      <4> QED BY <1>1, <2>1, <2>8, <3>1, <3>2, <4>1 DEF Range, IsInjective
    <3>3. CASE ~(i < k)
      <4>1. i + 1 \in 1 .. L /\ i + 1 # k BY <1>1, <2>1, <3>3
      <4>2. x = s[i + 1] BY <2>8, <3>1, <3>3
      <4> QED BY <1>1, <2>1, <4>1, <4>2 DEF Range, IsInjective
    <3> QED BY <3>2, <3>3
  <2>11. ASSUME NEW x \in Range(s), x # e PROVE x \in Range(r)
    <3>1. PICK i \in 1 .. L : x = s[i] BY <1>1 DEF Range
    <3>2. i # k BY <2>1, <2>11, <3>1
    <3>3. CASE i < k
      <4>1. i \in 1 .. L - 1 BY <1>1, <2>1, <3>3
      <4>2. x = r[i] BY <2>8, <3>1, <3>3, <4>1
      <4> QED BY <2>8, <4>1, <4>2 DEF Range
    <3>4. CASE ~(i < k)
      <4>1. i - 1 \in 1 .. L - 1 /\ ~(i - 1 < k) /\ i - 1 + 1 = i BY <1>1, <2>1, <3>2, <3>4
      <4>2. x = r[i - 1] BY <2>8, <3>1, <4>1
      <4> QED BY <2>8, <4>1, <4>2 DEF Range
    <3> QED BY <3>3, <3>4
  <2>12. r \in Seq(X) BY <2>8
  <2> QED BY <2>5, <2>9, <2>10, <2>11, <2>12
<1> QED BY <1>2, <1>3

\* A new entry goes first.
LEMMA PushIs ==
    ASSUME NEW X, NEW s \in Seq(X), IsInjective(s), NEW e \in X, e \notin Range(s)
    PROVE  LET r == <<e>> \o s
           IN  r \in Seq(X) /\ IsInjective(r) /\ Range(r) = Range(s) \cup {e}
<1> DEFINE L == Len(s)
           r == <<e>> \o s
<1>1. L \in Nat /\ DOMAIN s = 1 .. L OBVIOUS
<1>2. /\ r \in Seq(X) /\ DOMAIN r = 1 .. L + 1 /\ r[1] = e
      /\ \A i \in 1 .. L : r[i + 1] = s[i]
  <2>1. r \in Seq(X) /\ Len(r) = L + 1 BY ConcatProperties
  <2>2. r[1] = e BY <1>1, ConcatProperties
  <2>3. ASSUME NEW i \in 1 .. L PROVE r[i + 1] = s[i]
    <3>1. i + 1 \in 1 .. Len(<<e>>) + Len(s) /\ ~(i + 1 <= Len(<<e>>)) /\ i + 1 - Len(<<e>>) = i
      BY <1>1
    <3>2. <<e>> \in Seq(X) OBVIOUS
    <3>3. r[i + 1] = IF i + 1 <= Len(<<e>>) THEN <<e>>[i + 1] ELSE s[i + 1 - Len(<<e>>)]
      BY <3>1, <3>2, ConcatProperties
    <3> QED BY <3>1, <3>3
  <2> HIDE DEF r
  <2> QED BY <1>1, <2>1, <2>2, <2>3
<1> HIDE DEF r, L
<1>3. ASSUME NEW i \in 1 .. L + 1
      PROVE  i = 1 \/ (i - 1 \in 1 .. L /\ r[i] = s[i - 1])
  <2>1. i = 1 \/ (i - 1 \in 1 .. L /\ i - 1 + 1 = i) BY <1>1
  <2> QED BY <1>2, <2>1
<1>4. IsInjective(r)
  <2> SUFFICES ASSUME NEW i \in 1 .. L + 1, NEW j \in 1 .. L + 1, r[i] = r[j] PROVE i = j
    BY <1>2 DEF IsInjective
  <2>1. CASE i = 1 /\ j = 1 BY <2>1
  <2>2. CASE i = 1 /\ j # 1
    <3>1. e \in Range(s) BY <1>1, <1>2, <1>3, <2>2 DEF Range
    <3> QED BY <3>1
  <2>3. CASE i # 1 /\ j = 1
    <3>1. e \in Range(s) BY <1>1, <1>2, <1>3, <2>3 DEF Range
    <3> QED BY <3>1
  <2>4. CASE i # 1 /\ j # 1
    <3>1. i - 1 = j - 1 BY <1>1, <1>3, <2>4 DEF IsInjective
    <3> QED BY <1>1, <3>1
  <2> QED BY <2>1, <2>2, <2>3, <2>4
<1>5. ASSUME NEW x \in Range(r) PROVE x \in Range(s) \cup {e}
  <2>1. PICK i \in 1 .. L + 1 : x = r[i] BY <1>2 DEF Range
  <2> QED BY <1>1, <1>2, <1>3, <2>1 DEF Range
<1>6. e \in Range(r)
  <2>1. 1 \in 1 .. L + 1 BY <1>1
  <2> QED BY <1>2, <2>1 DEF Range
<1>7. ASSUME NEW x \in Range(s) PROVE x \in Range(r)
  <2>1. PICK i \in 1 .. L : x = s[i] BY <1>1 DEF Range
  <2>2. i + 1 \in 1 .. L + 1 BY <1>1
  <2> QED BY <1>2, <2>1, <2>2 DEF Range
<1>8. r \in Seq(X) BY <1>2
<1> QED BY <1>4, <1>5, <1>6, <1>7, <1>8 DEF r

-----------------------------------------------------------------------------
(* What attach() and detach() change.                                       *)

SameFile(a, b) ==
    a.type = b.type /\ a.data = b.data /\ a.size = b.size /\ a.capacity = b.capacity

Kept(a, b) == SameFile(a, b) /\ a.name = b.name
SamePlace(a, b) == a.parent = b.parent /\ a.name = b.name

\* new differs from old in the links only.
Relinked(new, old) ==
    /\ DOMAIN new = DOMAIN old /\ new \in [DOMAIN old -> Node]
    /\ \A m \in DOMAIN old : Kept(new[m], old[m])

LEMMA AttachIs ==
    ASSUME NEW nds, nds \in [DOMAIN nds -> Node], DOMAIN nds \subseteq Ptrs,
           NEW dir \in DOMAIN nds, NEW n \in DOMAIN nds, n # dir
    PROVE  LET new == attach(nds, dir, n)
           IN  /\ Relinked(new, nds)
               /\ \A m \in DOMAIN nds :
                    /\ new[m].parent = IF m = n THEN dir ELSE nds[m].parent
                    /\ new[m].children = IF m = dir THEN <<n>> \o nds[m].children
                                         ELSE nds[m].children
<1> DEFINE new == attach(nds, dir, n)
           c == <<n>> \o nds[dir].children
<1>1. c \in Seq(Ptrs)
  <2>1. nds[dir].children \in Seq(Ptrs) BY DEF Node
  <2> QED BY <2>1, ConcatProperties
<1>2. /\ DOMAIN new = DOMAIN nds
      /\ new = [m \in DOMAIN nds |-> new[m]]
      /\ new[n] = [nds[n] EXCEPT !.parent = dir]
      /\ new[dir] = [nds[dir] EXCEPT !.children = c]
      /\ \A m \in DOMAIN nds : m # n /\ m # dir => new[m] = nds[m]
  <2> HIDE DEF c
  <2>1. c = <<n>> \o nds[dir].children BY DEF c
  <2> QED BY <2>1 DEF attach
<1> HIDE DEF new, c
<1>3. /\ new[n] \in Node /\ Kept(new[n], nds[n])
      /\ new[n].parent = dir /\ new[n].children = nds[n].children
  <2> DEFINE e == new[n]
             r == nds[n]
  <2>1. r \in Node /\ dir \in Ptrs \cup {NULL} OBVIOUS
  <2>2. e = [r EXCEPT !.parent = dir] BY <1>2
  <2> HIDE DEF e, r
  <2>3. e \in Node BY <1>1, <2>1, <2>2 DEF Node
  <2>4. /\ Kept(e, r)
        /\ e.parent = dir /\ e.children = r.children
    BY <2>1, <2>2 DEF Node, SameFile, Kept
  <2> QED BY <2>3, <2>4 DEF e, r
<1>4. /\ new[dir] \in Node /\ Kept(new[dir], nds[dir])
      /\ new[dir].parent = nds[dir].parent /\ new[dir].children = c
  <2> DEFINE e == new[dir]
             r == nds[dir]
  <2>1. r \in Node /\ dir \in Ptrs \cup {NULL} OBVIOUS
  <2>2. e = [r EXCEPT !.children = c] BY <1>2
  <2> HIDE DEF e, r
  <2>3. e \in Node BY <1>1, <2>1, <2>2 DEF Node
  <2>4. /\ Kept(e, r)
        /\ e.parent = r.parent /\ e.children = c
    BY <2>1, <2>2 DEF Node, SameFile, Kept
  <2> QED BY <2>3, <2>4 DEF e, r
<1>5. ASSUME NEW m \in DOMAIN nds
      PROVE  /\ new[m] \in Node /\ Kept(new[m], nds[m])
             /\ new[m].parent = IF m = n THEN dir ELSE nds[m].parent
             /\ new[m].children = IF m = dir THEN <<n>> \o nds[m].children
                                  ELSE nds[m].children
  <2>1. CASE m = n BY <1>3, <2>1
  <2>2. CASE m = dir BY <1>4, <2>2 DEF c
  <2>3. CASE m # n /\ m # dir BY <1>2, <2>3 DEF SameFile, Kept
  <2> QED BY <2>1, <2>2, <2>3
<1> QED BY <1>2, <1>5 DEF Relinked, new

LEMMA DetachIs ==
    ASSUME NEW nds, nds \in [DOMAIN nds -> Node], DOMAIN nds \subseteq Ptrs,
           NEW n \in DOMAIN nds, nds[n].parent \in DOMAIN nds, nds[n].parent # n,
           IsInjective(nds[nds[n].parent].children)
    PROVE  LET new == detach(nds, n)
           IN  /\ Relinked(new, nds)
               /\ \A m \in DOMAIN nds :
                    /\ new[m].parent = IF m = n THEN NULL ELSE nds[m].parent
                    /\ new[m].children = IF m = nds[n].parent
                                         THEN RemoveFirst(nds[m].children, n)
                                         ELSE nds[m].children
<1> DEFINE new == detach(nds, n)
           p == nds[n].parent
           c == RemoveFirst(nds[p].children, n)
<1>1. c \in Seq(Ptrs)
  <2>1. nds[p].children \in Seq(Ptrs) BY DEF Node
  <2> QED BY <2>1, RemoveFirstIs
<1>2. /\ DOMAIN new = DOMAIN nds
      /\ new = [m \in DOMAIN nds |-> new[m]]
      /\ new[n] = [nds[n] EXCEPT !.parent = NULL]
      /\ new[p] = [nds[p] EXCEPT !.children = c]
      /\ \A m \in DOMAIN nds : m # n /\ m # p => new[m] = nds[m]
  <2> HIDE DEF c
  <2>1. c = RemoveFirst(nds[p].children, n) BY DEF c
  <2> QED BY <2>1 DEF detach
<1> HIDE DEF new, c
<1>3. /\ new[n] \in Node /\ Kept(new[n], nds[n])
      /\ new[n].parent = NULL /\ new[n].children = nds[n].children
  <2> DEFINE e == new[n]
             r == nds[n]
  <2>1. r \in Node /\ NULL \in Ptrs \cup {NULL} OBVIOUS
  <2>2. e = [r EXCEPT !.parent = NULL] BY <1>2
  <2> HIDE DEF e, r
  <2>3. e \in Node BY <1>1, <2>1, <2>2 DEF Node
  <2>4. /\ Kept(e, r)
        /\ e.parent = NULL /\ e.children = r.children
    BY <2>1, <2>2 DEF Node, SameFile, Kept
  <2> QED BY <2>3, <2>4 DEF e, r
<1>4. /\ new[p] \in Node /\ Kept(new[p], nds[p])
      /\ new[p].parent = nds[p].parent /\ new[p].children = c
  <2> DEFINE e == new[p]
             r == nds[p]
  <2>1. r \in Node /\ NULL \in Ptrs \cup {NULL} OBVIOUS
  <2>2. e = [r EXCEPT !.children = c] BY <1>2
  <2> HIDE DEF e, r
  <2>3. e \in Node BY <1>1, <2>1, <2>2 DEF Node
  <2>4. /\ Kept(e, r)
        /\ e.parent = r.parent /\ e.children = c
    BY <2>1, <2>2 DEF Node, SameFile, Kept
  <2> QED BY <2>3, <2>4 DEF e, r
<1>5. ASSUME NEW m \in DOMAIN nds
      PROVE  /\ new[m] \in Node /\ Kept(new[m], nds[m])
             /\ new[m].parent = IF m = n THEN NULL ELSE nds[m].parent
             /\ new[m].children = IF m = p THEN RemoveFirst(nds[m].children, n)
                                  ELSE nds[m].children
  <2>1. CASE m = n BY <1>3, <2>1
  <2>2. CASE m = p BY <1>4, <2>2 DEF c
  <2>3. CASE m # n /\ m # p BY <1>2, <2>3 DEF SameFile, Kept
  <2> QED BY <2>1, <2>2, <2>3
<1> QED BY <1>2, <1>5 DEF Relinked, new

\* A node outside the root has a parent other than itself, which lists it.
LEMMA HasParent ==
    ASSUME NEW nds, Shape(nds), NEW n \in DOMAIN nds, n # root
    PROVE  nds[n].parent \in DOMAIN nds /\ nds[n].parent # n /\ nds[n].parent # NULL
<1>1. ASSUME nds[n].parent = NULL \/ nds[n].parent = n PROVE FALSE
  <2>1. ParentClosed(nds, {n}) BY <1>1 DEF ParentClosed
  <2>2. {n} \in SUBSET DOMAIN nds /\ {n} # {} OBVIOUS
  <2>3. root \in {n} BY <2>1, <2>2 DEF Shape, Rooted
  <2> QED BY <2>3
<1> QED BY <1>1 DEF Shape, NodesOK, ParentClosed

-----------------------------------------------------------------------------
(* Making, deleting and moving keep the tree.                               *)

\* new has one more node, p, an empty one, and the old files as they were.
Created(new, old, p, type) ==
    /\ DOMAIN new = DOMAIN old \cup {p}
    /\ \A m \in DOMAIN old : SameFile(new[m], old[m])
    /\ new[p].type = type /\ new[p].data = NULL /\ new[p].size = 0 /\ new[p].capacity = 0

\* p hangs below dir under that name; nobody else has moved.
Hung(new, old, p, dir, name) ==
    /\ new[p].parent = dir /\ new[p].name = name
    /\ \A m \in DOMAIN old : SamePlace(new[m], old[m])

LEMMA CreateShape ==
    ASSUME NEW nds, Shape(nds), NEW p \in Ptrs \ DOMAIN nds, NEW dir \in DOMAIN nds,
           nds[dir].type = "dir", NEW name \in Names, NEW type \in {"file", "dir"},
           NEW new, new = attach(With(nds, p, node_new(name, type)), dir, p)
    PROVE  Shape(new) /\ Created(new, nds, p, type) /\ Hung(new, nds, p, dir, name)
<1> DEFINE w == With(nds, p, node_new(name, type))
<1>1. /\ DOMAIN w = DOMAIN nds \cup {p} /\ w = [m \in DOMAIN nds \cup {p} |-> w[m]]
      /\ w[p] = node_new(name, type)
      /\ \A m \in DOMAIN nds : w[m] = nds[m]
  BY DEF With
<1>2. /\ node_new(name, type) \in Node /\ w[p].parent = NULL /\ w[p].children = <<>>
      /\ w[p].name = name /\ w[p].type = type /\ w[p].data = NULL /\ w[p].size = 0 /\ w[p].capacity = 0
  <2> DEFINE r == node_new(name, type)
  <2>1. <<>> \in Seq(Ptrs) BY EmptySeq
  <2>2. r \in Node BY <2>1 DEF node_new, Node
  <2>3. /\ r.parent = NULL /\ r.children = <<>> /\ r.type = type /\ r.data = NULL
        /\ r.name = name /\ r.size = 0 /\ r.capacity = 0
    BY DEF node_new
  <2> HIDE DEF r
  <2>4. w[p] = r BY <1>1 DEF r
  <2> HIDE DEF w
  <2> QED BY <2>2, <2>3, <2>4 DEF r
<1>3. new = attach(w, dir, p) OBVIOUS
<1> HIDE DEF w
<1>4. DOMAIN nds \subseteq Ptrs /\ nds \in [DOMAIN nds -> Node] /\ root \in DOMAIN nds
  BY DEF Shape, NodesOK
<1>5. DOMAIN w \subseteq Ptrs /\ w \in [DOMAIN w -> Node] BY <1>1, <1>2, <1>4
<1>6. /\ Relinked(new, w)
      /\ \A m \in DOMAIN w :
           /\ new[m].parent = IF m = p THEN dir ELSE w[m].parent
           /\ new[m].children = IF m = dir THEN <<p>> \o w[m].children ELSE w[m].children
  BY <1>1, <1>3, <1>5, AttachIs
<1>7. \A m \in DOMAIN nds : /\ new[m].parent = nds[m].parent
                            /\ new[m].children = IF m = dir THEN <<p>> \o nds[m].children
                                                 ELSE nds[m].children
                            /\ SameFile(new[m], nds[m]) /\ new[m].name = nds[m].name
  BY <1>1, <1>6 DEF Relinked, Kept
<1>8. new[p].parent = dir /\ new[p].children = <<>> /\ SameFile(new[p], w[p])
      /\ new[p].name = name
  BY <1>1, <1>2, <1>6 DEF Relinked, Kept
<1>9. DOMAIN new = DOMAIN nds \cup {p} /\ new \in [DOMAIN new -> Node]
  BY <1>1, <1>5, <1>6 DEF Relinked
<1>10. Created(new, nds, p, type) BY <1>2, <1>7, <1>8, <1>9 DEF Created, SameFile
<1>11. NULL \notin Ptrs /\ p # NULL BY RamfsAssumption
<1>12. \A m \in DOMAIN nds : nds[m].parent \in DOMAIN nds \cup {NULL}
  BY DEF Shape, NodesOK, ParentClosed
<1>13. NodesOK(new)
  <2>1. ParentClosed(new, DOMAIN new) BY <1>7, <1>8, <1>9, <1>12 DEF ParentClosed
  <2>2. new[root].parent = NULL BY <1>4, <1>7 DEF Shape, NodesOK
  <2> QED BY <1>4, <1>9, <2>1, <2>2 DEF NodesOK
<1>14. ASSUME NEW m \in DOMAIN new PROVE LinksOK(new, m)
  <2>1. CASE m = p
    <3>1. Range(new[m].children) = {} /\ IsInjective(new[m].children)
      BY <1>8, <2>1 DEF Range, IsInjective
    <3>2. \A x \in DOMAIN new : new[x].parent # p BY <1>7, <1>8, <1>9, <1>11, <1>12
    <3>3. new[m].type = "dir" => new[m].data = NULL BY <1>10, <2>1 DEF Created
    <3> QED BY <1>8, <2>1, <3>1, <3>2, <3>3 DEF LinksOK
  <2>2. CASE m = dir
    <3> DEFINE c == nds[dir].children
    <3>1. c \in Seq(Ptrs) /\ IsInjective(c) BY <1>4 DEF Shape, LinksOK, Node
    <3>2. Range(c) = {x \in DOMAIN nds : nds[x].parent = dir} BY DEF Shape, LinksOK
    <3> HIDE DEF c
    <3>3. p \notin Range(c) BY <3>2
    <3>4. /\ <<p>> \o c \in Seq(Ptrs) /\ IsInjective(<<p>> \o c)
          /\ Range(<<p>> \o c) = Range(c) \cup {p}
      BY <3>1, <3>3, PushIs
    <3>5. new[m].children = <<p>> \o c BY <1>7, <2>2 DEF c
    <3>6. {x \in DOMAIN new : new[x].parent = dir} = Range(c) \cup {p}
      BY <1>7, <1>8, <1>9, <3>2
    <3>7. new[m].type = "dir" /\ new[m].data = NULL
      BY <1>7, <2>2 DEF SameFile, Shape, LinksOK
    <3> HIDE DEF Range
    <3> QED BY <2>2, <3>4, <3>5, <3>6, <3>7 DEF LinksOK
  <2>3. CASE m # p /\ m # dir
    <3>1. m \in DOMAIN nds /\ LinksOK(nds, m) BY <1>9, <2>3 DEF Shape
    <3>2. new[m].children = nds[m].children /\ SameFile(new[m], nds[m]) BY <1>7, <2>3, <3>1
    <3>3. {x \in DOMAIN new : new[x].parent = m} = {x \in DOMAIN nds : nds[x].parent = m}
      BY <1>7, <1>8, <1>9, <2>3
    <3> QED BY <3>1, <3>2, <3>3 DEF LinksOK, SameFile
  <2> QED BY <2>1, <2>2, <2>3
<1>15. Rooted(new)
  <2> SUFFICES ASSUME NEW S \in SUBSET DOMAIN new, S # {}, ParentClosed(new, S)
               PROVE  root \in S
    BY DEF Rooted
  <2> DEFINE T == S \ {p}
  <2>1. T \in SUBSET DOMAIN nds BY <1>9
  <2>2. T # {}
    <3>1. CASE p \in S
      <4>1. dir \in S BY <1>4, <1>8, <1>11, <3>1 DEF ParentClosed
      <4> QED BY <4>1
    <3>2. CASE p \notin S BY <3>2
    <3> QED BY <3>1, <3>2
  <2>3. ParentClosed(nds, T)
    <3> SUFFICES ASSUME NEW m \in T, nds[m].parent # NULL PROVE nds[m].parent \in T
      BY DEF ParentClosed
    <3>1. new[m].parent = nds[m].parent BY <1>7, <2>1
    <3>2. nds[m].parent \in S BY <3>1 DEF ParentClosed
    <3> QED BY <1>12, <2>1, <3>2
  <2> HIDE DEF T
  <2>4. root \in T BY <2>1, <2>2, <2>3 DEF Shape, Rooted
  <2> QED BY <2>4 DEF T
<1>16. Hung(new, nds, p, dir, name) BY <1>7, <1>8 DEF Hung, SamePlace
<1> QED BY <1>10, <1>13, <1>14, <1>15, <1>16 DEF Shape

LEMMA DeleteShape ==
    ASSUME Shape(nodes), NEW n \in DOMAIN nodes, n # root,
           NEW new, new = Without(detach(nodes, n), Subtree(n))
    PROVE  /\ Shape(new) /\ DOMAIN new = DOMAIN nodes \ Subtree(n)
           /\ \A m \in DOMAIN new : SameFile(new[m], nodes[m]) /\ SamePlace(new[m], nodes[m])
<1> DEFINE G == Subtree(n)
           d == detach(nodes, n)
           up == nodes[n].parent
<1>1. Below(n, G) /\ ChildClosed(nodes, G) BY SubtreeClosed
<1>2. new = Without(d, G) OBVIOUS
<1>3. /\ DOMAIN nodes \subseteq Ptrs /\ nodes \in [DOMAIN nodes -> Node] /\ root \in DOMAIN nodes
      /\ nodes[root].parent = NULL /\ NULL \notin DOMAIN nodes
  BY RamfsAssumption DEF Shape, NodesOK
<1>4. up \in DOMAIN nodes /\ up # n /\ up # NULL BY HasParent
<1>5. IsInjective(nodes[up].children) BY <1>4 DEF Shape, LinksOK
<1>6. /\ Relinked(d, nodes)
      /\ \A m \in DOMAIN nodes :
           /\ d[m].parent = IF m = n THEN NULL ELSE nodes[m].parent
           /\ d[m].children = IF m = up THEN RemoveFirst(nodes[m].children, n)
                              ELSE nodes[m].children
  BY <1>3, <1>4, <1>5, DetachIs
<1> HIDE DEF d, G
<1>7. /\ DOMAIN new = DOMAIN nodes \ G
      /\ \A m \in DOMAIN new : new[m] = d[m]
      /\ new = [m \in DOMAIN new |-> new[m]]
  BY <1>2, <1>6 DEF Without, Relinked
<1>8. n \in G /\ G \subseteq DOMAIN nodes /\ (\A x \in G : x = n \/ nodes[x].parent \in G)
  BY <1>1 DEF Below
<1>9. root \notin G BY <1>3, <1>8
<1>10. \A m \in DOMAIN new : /\ m \in DOMAIN nodes /\ m # n
                             /\ new[m].parent = nodes[m].parent
                             /\ new[m].children = IF m = up THEN RemoveFirst(nodes[m].children, n)
                                                  ELSE nodes[m].children
                             /\ SameFile(new[m], nodes[m]) /\ SamePlace(new[m], nodes[m])
                             /\ new[m] \in Node
  BY <1>6, <1>7, <1>8 DEF Relinked, Kept, SamePlace
\* Nobody outside hangs below a node that goes.
<1>11. ASSUME NEW m \in DOMAIN new, nodes[m].parent # NULL PROVE nodes[m].parent \in DOMAIN new
  <2>1. nodes[m].parent \in DOMAIN nodes BY <1>10, <1>11 DEF Shape, NodesOK, ParentClosed
  <2>2. m \in Range(nodes[nodes[m].parent].children) BY <1>10, <2>1 DEF Shape, LinksOK
  <2>3. nodes[m].parent \notin G BY <1>1, <1>7, <2>2 DEF ChildClosed
  <2> QED BY <1>7, <2>1, <2>3
<1>12. NodesOK(new)
  <2>1. ParentClosed(new, DOMAIN new) BY <1>10, <1>11 DEF ParentClosed
  <2>2. root \in DOMAIN new /\ new[root].parent = NULL BY <1>3, <1>7, <1>9, <1>10
  <2>3. new \in [DOMAIN new -> Node] BY <1>7, <1>10
  <2> QED BY <1>3, <1>7, <2>1, <2>2, <2>3 DEF NodesOK
<1>13. ASSUME NEW m \in DOMAIN new PROVE LinksOK(new, m)
  <2>1. LinksOK(nodes, m) BY <1>10 DEF Shape
  <2> DEFINE c == nodes[m].children
  <2>2. c \in Seq(Ptrs) BY <1>3, <1>10 DEF Node
  <2>3. IsInjective(c) /\ Range(c) = {x \in DOMAIN nodes : nodes[x].parent = m}
    BY <2>1 DEF LinksOK
  <2> HIDE DEF c
  <2>4. IsInjective(new[m].children) /\ Range(new[m].children) = Range(c) \ {n}
    <3>1. CASE m = up
      <4>1. new[m].children = RemoveFirst(c, n) BY <1>10, <3>1 DEF c
      <4>2. LET r == RemoveFirst(c, n)
            IN  r \in Seq(Ptrs) /\ IsInjective(r) /\ Range(r) = Range(c) \ {n}
        BY <2>2, <2>3, RemoveFirstIs
      <4> QED BY <4>1, <4>2
    <3>2. CASE m # up
      <4>1. new[m].children = c BY <1>10, <3>2 DEF c
      <4>2. n \notin Range(c) BY <2>3, <3>2
      <4> QED BY <2>3, <4>1, <4>2
    <3> QED BY <3>1, <3>2
  <2>5. Range(c) \ {n} = {x \in DOMAIN new : new[x].parent = m}
    <3>1. ASSUME NEW x \in DOMAIN nodes, nodes[x].parent = m, x # n PROVE x \in DOMAIN new
      BY <1>7, <1>8, <3>1
    <3> QED BY <1>7, <1>10, <2>3, <3>1
  <2>6. new[m].type = nodes[m].type /\ new[m].data = nodes[m].data BY <1>10 DEF SameFile
  <2>7. nodes[m].type = "file" => new[m].children = <<>>
    <3> SUFFICES ASSUME nodes[m].type = "file" PROVE new[m].children = <<>> OBVIOUS
    <3>1. c = <<>> BY <2>1 DEF LinksOK, c
    <3>2. m # up
      <4>1. n \in {x \in DOMAIN nodes : nodes[x].parent = up} OBVIOUS
      <4>2. Range(c) = {} BY <3>1 DEF Range
      <4> QED BY <2>3, <4>1, <4>2
    <3> QED BY <1>10, <3>1, <3>2 DEF c
  <2> QED BY <2>1, <2>4, <2>5, <2>6, <2>7 DEF LinksOK
<1>14. Rooted(new)
  <2> SUFFICES ASSUME NEW S \in SUBSET DOMAIN new, S # {}, ParentClosed(new, S)
               PROVE  root \in S
    BY DEF Rooted
  <2>1. S \in SUBSET DOMAIN nodes /\ ParentClosed(nodes, S) BY <1>7, <1>10 DEF ParentClosed
  <2> QED BY <2>1 DEF Shape, Rooted
<1> QED BY <1>7, <1>10, <1>12, <1>13, <1>14 DEF Shape, G

NodeName == Names \cup {NoName}

Renamed(nds, n, name) == [nds EXCEPT ![n].name = name]

\* ramfs_move() refuses a destination at or below the node: what would loop
\* is the chain of ancestors of the destination.
LEMMA MoveShape ==
    ASSUME Shape(nodes), NEW n \in DOMAIN nodes, n # root, NEW dir \in DOMAIN nodes,
           nodes[dir].type = "dir", n \notin Ancestors(dir), NEW cut \in NodeName,
           NEW new, new = attach(Renamed(detach(nodes, n), n, cut), dir, n)
    PROVE  /\ Shape(new) /\ DOMAIN new = DOMAIN nodes
           /\ \A m \in DOMAIN new : SameFile(new[m], nodes[m])
           /\ Hung(new, [m \in DOMAIN nodes \ {n} |-> nodes[m]], n, dir, cut)
<1> DEFINE d == detach(nodes, n)
           e == Renamed(d, n, cut)
           up == nodes[n].parent
<1>1. /\ DOMAIN nodes \subseteq Ptrs /\ nodes \in [DOMAIN nodes -> Node] /\ root \in DOMAIN nodes
      /\ nodes[root].parent = NULL /\ NULL \notin DOMAIN nodes
  BY RamfsAssumption DEF Shape, NodesOK
<1>2. /\ dir \in Ancestors(dir) /\ Ancestors(dir) \subseteq DOMAIN nodes
      /\ ParentClosed(nodes, Ancestors(dir))
  BY AncestorsClosed DEF Shape
<1>3. n # dir BY <1>2
<1>4. up \in DOMAIN nodes /\ up # n /\ up # NULL BY HasParent
<1>5. IsInjective(nodes[up].children) BY <1>4 DEF Shape, LinksOK
<1>6. /\ Relinked(d, nodes)
      /\ \A m \in DOMAIN nodes :
           /\ d[m].parent = IF m = n THEN NULL ELSE nodes[m].parent
           /\ d[m].children = IF m = up THEN RemoveFirst(nodes[m].children, n)
                              ELSE nodes[m].children
  BY <1>1, <1>4, <1>5, DetachIs
<1>7. new = attach(e, dir, n) OBVIOUS
<1> HIDE DEF d
<1>8. /\ DOMAIN e = DOMAIN nodes /\ e = [m \in DOMAIN nodes |-> e[m]]
      /\ e[n] = [d[n] EXCEPT !.name = cut] /\ \A m \in DOMAIN nodes : m # n => e[m] = d[m]
  BY <1>6 DEF Relinked, Renamed
<1> HIDE DEF e
<1>9. e[n] \in Node /\ e[n].name = cut /\ SameFile(e[n], d[n]) /\ e[n].children = d[n].children
  <2> DEFINE r == d[n]
             q == e[n]
  <2>1. r \in Node BY <1>6 DEF Relinked
  <2>2. q = [r EXCEPT !.name = cut] BY <1>8
  <2> HIDE DEF r, q
  <2>3. q \in Node BY <2>1, <2>2 DEF Node, NodeName
  <2>4. q.name = cut /\ SameFile(q, r) /\ q.children = r.children BY <2>1, <2>2 DEF Node, SameFile
  <2> QED BY <2>3, <2>4 DEF q, r
<1>10. e \in [DOMAIN e -> Node] /\ DOMAIN e \subseteq Ptrs
  BY <1>1, <1>6, <1>8, <1>9 DEF Relinked
<1>11. \A m \in DOMAIN nodes :
         /\ SameFile(e[m], nodes[m]) /\ e[m].children = d[m].children
         /\ m # n => SamePlace(e[m], nodes[m])
  <2> SUFFICES ASSUME NEW m \in DOMAIN nodes
               PROVE  /\ SameFile(e[m], nodes[m]) /\ e[m].children = d[m].children
                      /\ m # n => SamePlace(e[m], nodes[m])
    OBVIOUS
  <2>1. SameFile(d[m], nodes[m]) /\ (m # n => SamePlace(d[m], nodes[m]))
    BY <1>6 DEF Relinked, Kept, SamePlace
  <2>2. SameFile(e[m], d[m]) /\ e[m].children = d[m].children /\ (m # n => e[m] = d[m])
    BY <1>8, <1>9 DEF SameFile
  <2> QED BY <2>1, <2>2 DEF SameFile
<1>12. /\ Relinked(new, e)
       /\ \A m \in DOMAIN e :
            /\ new[m].parent = IF m = n THEN dir ELSE e[m].parent
            /\ new[m].children = IF m = dir THEN <<n>> \o e[m].children ELSE e[m].children
  <2>1. dir \in DOMAIN e /\ n \in DOMAIN e BY <1>8
  <2>2. LET a == attach(e, dir, n)
        IN  /\ Relinked(a, e)
            /\ \A m \in DOMAIN e :
                 /\ a[m].parent = IF m = n THEN dir ELSE e[m].parent
                 /\ a[m].children = IF m = dir THEN <<n>> \o e[m].children ELSE e[m].children
    BY <1>3, <1>10, <2>1, AttachIs
  <2> QED BY <1>7, <2>2
<1>13. DOMAIN new = DOMAIN nodes /\ new \in [DOMAIN nodes -> Node]
  BY <1>8, <1>12 DEF Relinked
<1>14. \A m \in DOMAIN nodes :
         /\ SameFile(new[m], nodes[m])
         /\ new[m].parent = IF m = n THEN dir ELSE nodes[m].parent
         /\ new[m].name = IF m = n THEN cut ELSE nodes[m].name
         /\ new[m].children = IF m = dir THEN <<n>> \o d[m].children ELSE d[m].children
  <2> SUFFICES ASSUME NEW m \in DOMAIN nodes
               PROVE  /\ SameFile(new[m], nodes[m])
                      /\ new[m].parent = IF m = n THEN dir ELSE nodes[m].parent
                      /\ new[m].name = IF m = n THEN cut ELSE nodes[m].name
                      /\ new[m].children = IF m = dir THEN <<n>> \o d[m].children ELSE d[m].children
    OBVIOUS
  <2>1. Kept(new[m], e[m]) BY <1>8, <1>12 DEF Relinked
  <2>2. SameFile(new[m], nodes[m]) BY <1>11, <2>1 DEF SameFile, Kept
  <2>3. new[m].name = IF m = n THEN cut ELSE nodes[m].name BY <1>9, <1>11, <2>1 DEF Kept, SamePlace
  <2> QED BY <1>8, <1>11, <1>12, <2>2, <2>3 DEF SamePlace
<1>15. NodesOK(new)
  <2>1. ParentClosed(new, DOMAIN new) BY <1>13, <1>14 DEF ParentClosed, Shape, NodesOK
  <2>2. new[root].parent = NULL BY <1>1, <1>14
  <2> QED BY <1>1, <1>13, <2>1, <2>2 DEF NodesOK
<1>16. ASSUME NEW m \in DOMAIN nodes
       PROVE  /\ d[m].children \in Seq(Ptrs) /\ IsInjective(d[m].children)
              /\ Range(d[m].children) = {x \in DOMAIN nodes : nodes[x].parent = m} \ {n}
  <2> DEFINE c == nodes[m].children
  <2>1. c \in Seq(Ptrs) BY <1>1 DEF Node
  <2>2. IsInjective(c) /\ Range(c) = {x \in DOMAIN nodes : nodes[x].parent = m}
    BY DEF Shape, LinksOK
  <2>3. d[m].children = IF m = up THEN RemoveFirst(c, n) ELSE c BY <1>6
  <2> HIDE DEF c
  <2>4. LET r == RemoveFirst(c, n)
        IN  r \in Seq(Ptrs) /\ IsInjective(r) /\ Range(r) = Range(c) \ {n}
    BY <2>1, <2>2, RemoveFirstIs
  <2>5. m # up => n \notin Range(c) BY <2>2
  <2> QED BY <2>1, <2>2, <2>3, <2>4, <2>5
<1>17. ASSUME NEW m \in DOMAIN new PROVE LinksOK(new, m)
  <2> DEFINE c == d[m].children
  <2>0. m \in DOMAIN nodes /\ LinksOK(nodes, m) BY <1>13 DEF Shape
  <2>1. /\ c \in Seq(Ptrs) /\ IsInjective(c)
        /\ Range(c) = {x \in DOMAIN nodes : nodes[x].parent = m} \ {n}
    BY <1>16, <2>0
  <2> HIDE DEF c
  <2>2. new[m].children = IF m = dir THEN <<n>> \o c ELSE c BY <1>14, <2>0 DEF c
  <2>3. n \notin Range(c) /\ n \in Ptrs /\ c \in Seq(Ptrs) /\ IsInjective(c) BY <1>1, <2>1
  <2>4. /\ <<n>> \o c \in Seq(Ptrs) /\ IsInjective(<<n>> \o c)
        /\ Range(<<n>> \o c) = Range(c) \cup {n}
    BY <2>3, PushIs
  <2>5. IsInjective(new[m].children) BY <2>1, <2>2, <2>4
  <2>6. Range(new[m].children) = {x \in DOMAIN new : new[x].parent = m}
    <3>1. CASE m = dir
      <4>1. Range(new[m].children) = Range(c) \cup {n} BY <2>2, <2>4, <3>1
      <4> QED BY <1>13, <1>14, <2>1, <3>1, <4>1
    <3>2. CASE m # dir
      <4>1. Range(new[m].children) = Range(c) BY <2>2, <3>2
      <4> QED BY <1>13, <1>14, <2>1, <3>2, <4>1
    <3> QED BY <3>1, <3>2
  <2>7. new[m].type = nodes[m].type /\ new[m].data = nodes[m].data BY <1>14, <2>0 DEF SameFile
  <2>8. nodes[m].type = "file" => new[m].children = <<>>
    <3> SUFFICES ASSUME nodes[m].type = "file" PROVE new[m].children = <<>> OBVIOUS
    <3>1. nodes[m].children = <<>> BY <2>0 DEF LinksOK
    <3>2. m # up
      <4>1. n \in {x \in DOMAIN nodes : nodes[x].parent = up} OBVIOUS
      <4>3. Range(<<>>) = {} BY DEF Range
      <4>2. Range(nodes[m].children) = {} BY <3>1, <4>3
      <4> QED BY <2>0, <4>1, <4>2 DEF LinksOK
    <3>3. c = <<>>
      <4>1. d[m].children = nodes[m].children BY <1>6, <2>0, <3>2
      <4> QED BY <3>1, <4>1 DEF c
    <3>4. m # dir OBVIOUS
    <3> QED BY <2>2, <3>3, <3>4
  <2> QED BY <2>0, <2>5, <2>6, <2>7, <2>8 DEF LinksOK
<1>18. Rooted(new)
  <2> SUFFICES ASSUME NEW S \in SUBSET DOMAIN new, S # {}, ParentClosed(new, S)
               PROVE  root \in S
    BY DEF Rooted
  <2>1. S \in SUBSET DOMAIN nodes BY <1>13
  <2>2. CASE n \notin S
    <3>1. ParentClosed(nodes, S) BY <1>14, <2>1, <2>2 DEF ParentClosed
    <3> QED BY <2>1, <3>1 DEF Shape, Rooted
  <2>3. CASE n \in S
    <3> DEFINE T == S \cap Ancestors(dir)
    <3>1. dir \in S
      <4>1. new[n].parent = dir /\ dir # NULL BY <1>1, <1>14
      <4> QED BY <2>3, <4>1 DEF ParentClosed
    <3>2. T \in SUBSET DOMAIN nodes /\ T # {} BY <1>2, <2>1, <3>1
    <3>3. ParentClosed(nodes, T)
      <4> SUFFICES ASSUME NEW m \in T, nodes[m].parent # NULL PROVE nodes[m].parent \in T
        BY DEF ParentClosed
      <4>1. m # n /\ m \in DOMAIN nodes BY <2>1
      <4>2. new[m].parent = nodes[m].parent BY <1>14, <4>1
      <4>3. nodes[m].parent \in S BY <4>2 DEF ParentClosed
      <4>4. nodes[m].parent \in Ancestors(dir) BY <1>2 DEF ParentClosed
      <4> QED BY <4>3, <4>4
    <3> HIDE DEF T
    <3>4. root \in T BY <3>2, <3>3 DEF Shape, Rooted
    <3> QED BY <3>4 DEF T
  <2> QED BY <2>2, <2>3
<1>19. Hung(new, [m \in DOMAIN nodes \ {n} |-> nodes[m]], n, dir, cut)
  BY <1>14 DEF Hung, SamePlace
<1> QED BY <1>13, <1>14, <1>15, <1>17, <1>18, <1>19 DEF Shape

-----------------------------------------------------------------------------
(* The capacity of a buffer.                                                *)

Grows(needed, g) == g = [c \in Nat |-> IF c >= needed THEN c ELSE g[2 * c]]

\* h satisfies the recursion from k on.
GrowsFrom(needed, k, h) ==
    /\ h = [c \in Nat |-> h[c]]
    /\ \A c \in Nat : c >= k => h[c] = IF c >= needed THEN c ELSE h[2 * c]

LEMMA GrowsExists ==
    ASSUME NEW needed \in Nat
    PROVE  \E g : Grows(needed, g)
<1> DEFINE S == {i \in 0 .. needed : \E h : GrowsFrom(needed, needed - i, h)}
<1>1. 0 \in S
  <2> DEFINE h == [c \in Nat |-> c]
  <2>1. GrowsFrom(needed, needed - 0, h) BY DEF GrowsFrom
  <2> HIDE DEF h
  <2> QED BY <2>1
<1>2. ASSUME NEW i \in 0 .. needed - 1, i \in S PROVE i + 1 \in S
  <2> DEFINE k == needed - i
             j == k - 1
  <2>1. PICK h : GrowsFrom(needed, k, h) BY <1>2
  <2> DEFINE f == [c \in Nat |-> IF c = j THEN h[2 * j] ELSE h[c]]
  <2>2. j \in Nat /\ k \in Nat /\ k = j + 1 /\ j < needed /\ needed - (i + 1) = j
        /\ i + 1 \in 0 .. needed
    OBVIOUS
  <2> HIDE DEF j, k
  <2>3. \A c \in Nat : c >= k => h[c] = IF c >= needed THEN c ELSE h[2 * c]
    BY <2>1 DEF GrowsFrom
  <2>4. ASSUME NEW c \in Nat, c >= j PROVE f[c] = IF c >= needed THEN c ELSE f[2 * c]
    <3>1. 2 * c \in Nat OBVIOUS
    <3>2. CASE c = j
      <4>1. f[c] = h[2 * j] BY <3>2
      <4>2. f[2 * c] = h[2 * j]
        <5>1. f[2 * c] = IF 2 * c = j THEN h[2 * j] ELSE h[2 * c] BY <3>1
        <5> QED BY <3>2, <5>1
      <4> QED BY <2>2, <3>2, <4>1, <4>2
    <3>3. CASE c # j
      <4>1. c >= k /\ 2 * c # j BY <2>2, <2>4, <3>3
      <4>2. f[c] = h[c] /\ f[2 * c] = h[2 * c] BY <3>1, <3>3, <4>1
      <4> HIDE DEF f
      <4> QED BY <2>3, <4>1, <4>2
    <3> QED BY <3>2, <3>3
  <2>5. f = [c \in Nat |-> f[c]] OBVIOUS
  <2> HIDE DEF f
  <2>6. GrowsFrom(needed, needed - (i + 1), f) BY <2>2, <2>4, <2>5 DEF GrowsFrom
  <2> QED BY <2>2, <2>6
<1>3. \A i \in 0 .. needed : i \in S
  <2> HIDE DEF S
  <2> QED BY <1>1, <1>2, RangeInduction
<1>4. PICK g : GrowsFrom(needed, 0, g)
  <2>1. needed \in 0 .. needed /\ needed - needed = 0 OBVIOUS
  <2>2. needed \in S BY <1>3, <2>1
  <2> QED BY <2>1, <2>2
<1>5. Grows(needed, g)
  <2>1. ASSUME NEW c \in Nat PROVE g[c] = IF c >= needed THEN c ELSE g[2 * c]
    <3>1. c >= 0 OBVIOUS
    <3> QED BY <1>4, <3>1 DEF GrowsFrom
  <2>2. g = [c \in Nat |-> g[c]] BY <1>4 DEF GrowsFrom
  <2>3. [c \in Nat |-> g[c]] = [c \in Nat |-> IF c >= needed THEN c ELSE g[2 * c]] BY <2>1
  <2> QED BY <2>2, <2>3 DEF Grows
<1> QED BY <1>5

\* Doubling reaches what is needed, and never stops at zero.
LEMMA GrownIs ==
    ASSUME NEW capacity \in Nat, NEW needed \in Nat
    PROVE  /\ Grown(capacity, needed) \in Nat \ {0}
           /\ Grown(capacity, needed) >= needed
<1> DEFINE g == CHOOSE x : Grows(needed, x)
           start == IF capacity = 0 THEN FirstCapacity ELSE capacity
<1>1. Grows(needed, g) BY GrowsExists
<1>2. Grown(capacity, needed) = g[start] BY DEF Grown, Grows
<1>3. start \in Nat \ {0} BY RamfsAssumption
<1> HIDE DEF g, start
<1>4. \A c \in Nat : g[c] = IF c >= needed THEN c ELSE g[2 * c] BY <1>1 DEF Grows
<1> DEFINE B == {d \in Nat : \E c \in Nat \ {0} :
                   d >= needed - c /\ ~(g[c] \in Nat \ {0} /\ g[c] >= needed)}
<1>5. B = {}
  <2> SUFFICES ASSUME B # {} PROVE FALSE OBVIOUS
  <2>1. B \in SUBSET Nat OBVIOUS
  <2>2. PICK d \in B : \A e \in B : d <= e
    <3> HIDE DEF B
    <3> QED BY <2>1, LeastExists
  <2>3. PICK c \in Nat \ {0} : d >= needed - c /\ ~(g[c] \in Nat \ {0} /\ g[c] >= needed)
    OBVIOUS
  <2>4. d \in Nat OBVIOUS
  <2>5. c < needed /\ g[c] = g[2 * c] BY <1>4, <2>3
  <2>6. 2 * c \in Nat \ {0} /\ d - 1 \in Nat /\ d - 1 >= needed - 2 * c BY <2>3, <2>4, <2>5
  <2>7. d - 1 \in B BY <2>3, <2>5, <2>6
  <2> HIDE DEF B
  <2> QED BY <2>2, <2>4, <2>7
<1>6. g[start] \in Nat \ {0} /\ g[start] >= needed
  <2> SUFFICES ASSUME ~(g[start] \in Nat \ {0} /\ g[start] >= needed) PROVE FALSE OBVIOUS
  <2>1. needed \in B BY <1>3
  <2> QED BY <1>5, <2>1
<1> QED BY <1>2, <1>6

-----------------------------------------------------------------------------
(* The buffers.                                                             *)

Byte == Data \cup {Garbage}
Files(nds) == {n \in DOMAIN nds : nds[n].data # NULL}
Held(c) == IF c = NULL THEN {} ELSE {c.buf}

\* The size and the capacity of n describe its buffer, and what lies within
\* the size was written.
BufOK(nds, bfs, n) ==
    /\ nds[n].size <= nds[n].capacity
    /\ (nds[n].data = NULL) = (nds[n].capacity = 0)
    /\ nds[n].data # NULL =>
         /\ nds[n].data \in DOMAIN bfs
         /\ Len(bfs[nds[n].data]) = nds[n].capacity
         /\ \A i \in 1 .. nds[n].size : bfs[nds[n].data][i] \in Data

\* Every buffer has one owner: a file, or the redirection that holds held.
OwnedBy(nds, bfs, held) ==
    /\ DOMAIN bfs = {nds[n].data : n \in Files(nds)} \cup held
    /\ \A m, n \in Files(nds) : nds[m].data = nds[n].data => m = n
    /\ \A n \in Files(nds) : nds[n].data \notin held

Store(nds, bfs, held) ==
    /\ DOMAIN bfs \subseteq Ptrs \ DOMAIN nds
    /\ \A b \in DOMAIN bfs : bfs[b] \in Seq(Byte)
    /\ \A n \in DOMAIN nds : BufOK(nds, bfs, n)
    /\ OwnedBy(nds, bfs, held)

\* Links, names and empty nodes do not matter to the buffers.
LEMMA StoreRelinked ==
    ASSUME NEW nds, NEW bfs, NEW held, Store(nds, bfs, held), NEW new,
           DOMAIN bfs \cap DOMAIN new = {},
           \A m \in DOMAIN nds : m \in DOMAIN new /\ SameFile(new[m], nds[m]),
           \A m \in DOMAIN new \ DOMAIN nds :
              new[m].data = NULL /\ new[m].size = 0 /\ new[m].capacity = 0
    PROVE  Store(new, bfs, held)
<1>1. ASSUME NEW n \in DOMAIN new PROVE BufOK(new, bfs, n)
  <2>1. CASE n \in DOMAIN nds
    <3>1. BufOK(nds, bfs, n) /\ SameFile(new[n], nds[n]) BY <2>1 DEF Store
    <3> QED BY <3>1 DEF BufOK, SameFile
  <2>2. CASE n \notin DOMAIN nds BY <2>2 DEF BufOK
  <2> QED BY <2>1, <2>2
<1>2. \A n \in Files(new) : n \in Files(nds) /\ new[n].data = nds[n].data
  BY DEF Files, SameFile
<1>3. \A n \in Files(nds) : n \in Files(new) /\ new[n].data = nds[n].data
  BY DEF Files, SameFile
<1>4. OwnedBy(nds, bfs, held) BY DEF Store
<1>5. {new[n].data : n \in Files(new)} = {nds[n].data : n \in Files(nds)} BY <1>2, <1>3
<1>6. OwnedBy(new, bfs, held) BY <1>2, <1>4, <1>5 DEF OwnedBy
<1>7. /\ DOMAIN bfs \subseteq Ptrs \ DOMAIN new
      /\ \A b \in DOMAIN bfs : bfs[b] \in Seq(Byte)
  BY DEF Store
<1> QED BY <1>1, <1>6, <1>7 DEF Store

\* free_tree() frees the buffers of the files that go, and no other.
LEMMA StoreFreed ==
    ASSUME NEW nds, NEW bfs, NEW held, Store(nds, bfs, held), NEW gone, NEW new,
           DOMAIN new = DOMAIN nds \ gone,
           \A m \in DOMAIN new : SameFile(new[m], nds[m]),
           gone \subseteq DOMAIN nds, NULL \notin Ptrs
    PROVE  Store(new, Without(bfs, {nds[m].data : m \in gone}), held)
<1> DEFINE F == {nds[m].data : m \in gone}
           nb == Without(bfs, F)
<1>1. DOMAIN nb = DOMAIN bfs \ F /\ \A b \in DOMAIN nb : nb[b] = bfs[b] BY DEF Without
<1>2. OwnedBy(nds, bfs, held) BY DEF Store
<1>3. \A n \in Files(new) : n \in Files(nds) /\ new[n].data = nds[n].data /\ n \notin gone
  BY DEF Files, SameFile
<1>4. \A n \in Files(new) : new[n].data \in DOMAIN bfs \ F
  <2> SUFFICES ASSUME NEW n \in Files(new) PROVE nds[n].data \in DOMAIN bfs \ F BY <1>3
  <2>1. n \in Files(nds) /\ n \notin gone BY <1>3
  <2>2. nds[n].data \in DOMAIN bfs BY <1>2, <2>1 DEF OwnedBy
  <2>3. ASSUME NEW m \in gone, nds[m].data = nds[n].data PROVE FALSE
    <3>1. m \in Files(nds) BY <2>1, <2>3 DEF Files
    <3>2. m = n BY <1>2, <2>1, <2>3, <3>1 DEF OwnedBy
    <3> QED BY <2>1, <3>2
  <2> QED BY <2>2, <2>3
<1> HIDE DEF nb
<1>5. ASSUME NEW n \in DOMAIN new PROVE BufOK(new, nb, n)
  <2>1. BufOK(nds, bfs, n) /\ SameFile(new[n], nds[n]) BY DEF Store
  <2>2. new[n].data # NULL => new[n].data \in DOMAIN nb /\ nb[new[n].data] = bfs[new[n].data]
    <3> HIDE DEF F
    <3> QED BY <1>1, <1>4 DEF Files
  <2> HIDE DEF F
  <2> QED BY <2>1, <2>2 DEF BufOK, SameFile
<1>6. held \cap F = {}
  <2> SUFFICES ASSUME NEW m \in gone, nds[m].data \in held PROVE FALSE OBVIOUS
  <2>1. nds[m].data \in DOMAIN bfs BY <1>2 DEF OwnedBy
  <2>2. m \in Files(nds) BY <2>1 DEF Files, Store
  <2> QED BY <1>2, <2>2 DEF OwnedBy
<1>7. DOMAIN nb = {new[n].data : n \in Files(new)} \cup held
  <2>1. ASSUME NEW b \in DOMAIN nb, b \notin held PROVE \E n \in Files(new) : b = new[n].data
    <3>1. b \in DOMAIN bfs /\ b \notin F BY <1>1
    <3>2. PICK n \in Files(nds) : b = nds[n].data BY <1>2, <2>1, <3>1 DEF OwnedBy
    <3>3. n \in DOMAIN new BY <3>1, <3>2 DEF Files
    <3>4. n \in Files(new) /\ new[n].data = b BY <3>2, <3>3 DEF Files, SameFile
    <3> QED BY <3>4
  <2>2. held \subseteq DOMAIN bfs BY <1>2 DEF OwnedBy
  <2> HIDE DEF F
  <2> QED BY <1>1, <1>4, <1>6, <2>1, <2>2
<1>8. OwnedBy(new, nb, held) BY <1>2, <1>3, <1>7 DEF OwnedBy
<1>9. /\ DOMAIN nb \subseteq Ptrs \ DOMAIN new
      /\ \A b \in DOMAIN nb : nb[b] \in Seq(Byte)
  BY <1>1 DEF Store
<1>10. Store(new, nb, held) BY <1>5, <1>8, <1>9 DEF Store
<1> QED BY <1>10 DEF nb

\* The capture buffer comes and goes.
LEMMA StoreHeld ==
    ASSUME NEW nds, NEW bfs, Store(nds, bfs, {}), NEW p \in Ptrs,
           p \notin DOMAIN nds, p \notin DOMAIN bfs, p # NULL
    PROVE  Store(nds, With(bfs, p, <<>>), {p})
<1> DEFINE nb == With(bfs, p, <<>>)
<1>1. /\ DOMAIN nb = DOMAIN bfs \cup {p} /\ nb[p] = <<>>
      /\ \A b \in DOMAIN bfs : nb[b] = bfs[b]
  BY DEF With
<1> HIDE DEF nb
<1>2. ASSUME NEW n \in DOMAIN nds PROVE BufOK(nds, nb, n)
  <2>1. BufOK(nds, bfs, n) BY DEF Store
  <2> QED BY <1>1, <2>1 DEF BufOK
<1>3. OwnedBy(nds, bfs, {}) BY DEF Store
<1>4. \A n \in Files(nds) : nds[n].data # p BY <1>3 DEF OwnedBy
<1>5. OwnedBy(nds, nb, {p}) BY <1>1, <1>3, <1>4 DEF OwnedBy
<1>6. <<>> \in Seq(Byte) BY EmptySeq
<1>7. /\ DOMAIN nb \subseteq Ptrs \ DOMAIN nds
      /\ \A b \in DOMAIN nb : nb[b] \in Seq(Byte)
  BY <1>1, <1>6 DEF Store
<1>8. Store(nds, nb, {p}) BY <1>2, <1>5, <1>7 DEF Store
<1> QED BY <1>8 DEF nb

LEMMA StoreReleased ==
    ASSUME NEW nds, NEW bfs, NEW p, Store(nds, bfs, {p})
    PROVE  /\ Store(nds, Without(bfs, {p}), {})
           /\ \A n \in Files(nds) : Without(bfs, {p})[nds[n].data] = bfs[nds[n].data]
<1> DEFINE nb == Without(bfs, {p})
<1>1. DOMAIN nb = DOMAIN bfs \ {p} /\ \A b \in DOMAIN nb : nb[b] = bfs[b] BY DEF Without
<1> HIDE DEF nb
<1>2. OwnedBy(nds, bfs, {p}) BY DEF Store
<1>3. \A n \in Files(nds) : nds[n].data \in DOMAIN bfs /\ nds[n].data # p BY <1>2 DEF OwnedBy
<1>4. ASSUME NEW n \in DOMAIN nds PROVE BufOK(nds, nb, n)
  <2>1. BufOK(nds, bfs, n) BY DEF Store
  <2> QED BY <1>1, <1>3, <2>1 DEF BufOK, Files
<1>5. OwnedBy(nds, nb, {}) BY <1>1, <1>2, <1>3 DEF OwnedBy
<1>6. /\ DOMAIN nb \subseteq Ptrs \ DOMAIN nds
      /\ \A b \in DOMAIN nb : nb[b] \in Seq(Byte)
  BY <1>1 DEF Store
<1>7. Store(nds, nb, {}) BY <1>4, <1>5, <1>6 DEF Store
<1> QED BY <1>1, <1>3, <1>7 DEF nb

-----------------------------------------------------------------------------
(* ramfs_write().                                                           *)

ContentsOf(nds, bfs, n) ==
    IF nds[n].data = NULL THEN <<>> ELSE SubSeq(bfs[nds[n].data], 1, nds[n].size)

\* Only the file f was written: its buffer may be a new one, the rest is kept.
OnlyFile(nds, bfs, f, new, nb) ==
    /\ DOMAIN new = DOMAIN nds
    /\ \A m \in DOMAIN nds : m # f => SameFile(new[m], nds[m])
    /\ \/ new[f].data = nds[f].data
       \/ new[f].data \in Ptrs \ (DOMAIN nds \cup DOMAIN bfs)
    /\ DOMAIN nb = (DOMAIN bfs \ {nds[f].data}) \cup ({new[f].data} \ {NULL})
    /\ \A b \in DOMAIN bfs \ {nds[f].data} : nb[b] = bfs[b]

LEMMA StoreUpdate ==
    ASSUME NEW nds, NEW bfs, NEW held, Store(nds, bfs, held), NULL \notin Ptrs,
           NEW f \in DOMAIN nds, NEW new, NEW nb, OnlyFile(nds, bfs, f, new, nb),
           BufOK(new, nb, f), new[f].data # NULL => nb[new[f].data] \in Seq(Byte)
    PROVE  /\ Store(new, nb, held)
           /\ \A n \in DOMAIN nds : n # f => ContentsOf(new, nb, n) = ContentsOf(nds, bfs, n)
<1> DEFINE d == nds[f].data
           e == new[f].data
<1>1. OwnedBy(nds, bfs, held) BY DEF Store
<1>2. e = d \/ e \in Ptrs \ (DOMAIN nds \cup DOMAIN bfs) BY DEF OnlyFile
<1>3. d # NULL => d \in DOMAIN bfs /\ d \notin held BY <1>1 DEF OwnedBy, Files
<1>4. DOMAIN bfs \subseteq Ptrs \ DOMAIN nds BY DEF Store
<1>5. /\ DOMAIN new = DOMAIN nds
      /\ \A m \in DOMAIN nds : m # f => SameFile(new[m], nds[m])
      /\ DOMAIN nb = (DOMAIN bfs \ {d}) \cup ({e} \ {NULL})
      /\ \A b \in DOMAIN bfs \ {d} : nb[b] = bfs[b]
  BY DEF OnlyFile
<1>6. ASSUME NEW n \in DOMAIN nds, n # f, nds[n].data # NULL
      PROVE  /\ new[n].data = nds[n].data /\ nds[n].data \in DOMAIN bfs \ {d}
             /\ nds[n].data \notin held /\ nds[n].data # e
             /\ nb[nds[n].data] = bfs[nds[n].data] /\ nds[n].data \in DOMAIN nb
  <2>1. n \in Files(nds) BY <1>6 DEF Files
  <2>2. nds[n].data \in DOMAIN bfs /\ nds[n].data \notin held BY <1>1, <2>1 DEF OwnedBy
  <2>3. nds[n].data # d
    <3> SUFFICES ASSUME nds[n].data = d PROVE FALSE OBVIOUS
    <3>1. f \in Files(nds) BY <1>6 DEF Files
    <3> QED BY <1>1, <1>6, <2>1, <3>1 DEF OwnedBy
  <2>4. new[n].data = nds[n].data BY <1>5, <1>6 DEF SameFile
  <2> QED BY <1>2, <1>5, <2>2, <2>3, <2>4
<1>7. ASSUME NEW n \in DOMAIN nds PROVE BufOK(new, nb, n)
  <2>1. CASE n = f BY <2>1
  <2>2. CASE n # f
    <3>1. BufOK(nds, bfs, n) /\ SameFile(new[n], nds[n]) BY <1>5, <2>2 DEF Store
    <3> QED BY <1>6, <2>2, <3>1 DEF BufOK, SameFile
  <2> QED BY <2>1, <2>2
<1>8. OwnedBy(new, nb, held)
  <2>1. e \notin held
    <3>1. held \subseteq DOMAIN bfs BY <1>1 DEF OwnedBy
    <3> QED BY <1>2, <1>3, <1>4, <3>1
  <2>2. \A n \in Files(new) : n \in DOMAIN nds /\ (n # f => nds[n].data # NULL)
    BY <1>5 DEF Files, SameFile
  <2>3. \A n \in Files(new) : new[n].data \notin held BY <1>6, <2>1, <2>2
  <2>4. ASSUME NEW m \in Files(new), NEW n \in Files(new), new[m].data = new[n].data
        PROVE  m = n
    <3>1. CASE m # f /\ n # f
      <4>1. m \in Files(nds) /\ n \in Files(nds) BY <2>2, <3>1 DEF Files
      <4>2. nds[m].data = nds[n].data BY <1>6, <2>2, <2>4, <3>1
      <4> QED BY <1>1, <4>1, <4>2 DEF OwnedBy
    <3>2. CASE m = f \/ n = f BY <1>6, <2>2, <2>4, <3>2
    <3> QED BY <3>1, <3>2
  <2>5. DOMAIN nb = {new[n].data : n \in Files(new)} \cup held
    <3>1. ASSUME NEW b \in DOMAIN nb, b \notin held PROVE \E n \in Files(new) : b = new[n].data
      <4>1. CASE b = e
        <5>1. b # NULL
          <6>1. b \in (DOMAIN bfs \ {d}) \cup ({e} \ {NULL}) BY <1>5
          <6> QED BY <1>4, <6>1
        <5>2. f \in Files(new) BY <1>5, <4>1, <5>1 DEF Files
        <5> QED BY <4>1, <5>2
      <4>2. CASE b # e
        <5>1. b \in DOMAIN bfs \ {d} BY <1>5, <4>2
        <5>2. PICK n \in Files(nds) : b = nds[n].data BY <1>1, <3>1, <5>1 DEF OwnedBy
        <5>3. n # f /\ n \in DOMAIN nds /\ nds[n].data # NULL BY <5>1, <5>2 DEF Files
        <5>4. n \in Files(new) /\ b = new[n].data BY <1>5, <1>6, <5>2, <5>3 DEF Files
        <5> QED BY <5>4
      <4> QED BY <4>1, <4>2
    <3>2. ASSUME NEW n \in Files(new) PROVE new[n].data \in DOMAIN nb
      <4>1. CASE n = f BY <1>5, <4>1 DEF Files
      <4>2. CASE n # f BY <1>6, <2>2, <4>2
      <4> QED BY <4>1, <4>2
    <3>3. held \subseteq DOMAIN nb
      <4>1. held \subseteq DOMAIN bfs BY <1>1 DEF OwnedBy
      <4>2. d \notin held BY <1>3, <1>4, <4>1
      <4> QED BY <1>5, <4>1, <4>2
    <3> QED BY <3>1, <3>2, <3>3
  <2> QED BY <2>3, <2>4, <2>5 DEF OwnedBy
<1>9. DOMAIN nb \subseteq Ptrs \ DOMAIN new BY <1>2, <1>3, <1>4, <1>5
<1>10. ASSUME NEW b \in DOMAIN nb PROVE nb[b] \in Seq(Byte)
  <2>1. CASE b = e /\ e # NULL BY <2>1
  <2>2. CASE b # e \/ e = NULL
    <3>1. b \in DOMAIN bfs \ {d} BY <1>5, <2>2
    <3>2. nb[b] = bfs[b] /\ bfs[b] \in Seq(Byte) BY <1>5, <3>1 DEF Store
    <3> QED BY <3>2
  <2> QED BY <2>1, <2>2
<1>11. ASSUME NEW n \in DOMAIN nds, n # f
       PROVE  ContentsOf(new, nb, n) = ContentsOf(nds, bfs, n)
  <2>1. SameFile(new[n], nds[n]) BY <1>5, <1>11
  <2> QED BY <1>6, <1>11, <2>1 DEF ContentsOf, SameFile
<1> QED BY <1>5, <1>7, <1>8, <1>9, <1>10, <1>11 DEF Store

LEMMA CopyInIs ==
    ASSUME NEW b \in Seq(Byte), NEW base \in Nat, NEW text \in Seq(Data),
           base + Len(text) <= Len(b), NEW r, r = CopyIn(b, base, text)
    PROVE  /\ r \in Seq(Byte) /\ Len(r) = Len(b)
           /\ \A i \in 1 .. base : r[i] = b[i]
           /\ \A i \in 1 .. Len(text) : r[base + i] = text[i]
<1>1. \A i \in 1 .. Len(text) : text[i] \in Byte BY ElementOfSeq DEF Byte
<1>2. \A i \in 1 .. Len(b) : b[i] \in Byte BY ElementOfSeq
<1>3. r = [i \in 1 .. Len(b) |-> IF i - base \in 1 .. Len(text) THEN text[i - base] ELSE b[i]]
  BY DEF CopyIn
<1>4. \A i \in 1 .. Len(b) : r[i] \in Byte BY <1>1, <1>2, <1>3
<1>5. Len(b) \in Nat /\ Len(text) \in Nat OBVIOUS
<1>6. r \in [1 .. Len(b) -> Byte] BY <1>3, <1>4
<1>7. r \in Seq(Byte) /\ Len(r) = Len(b) BY <1>5, <1>6, IsASeq
<1>8. ASSUME NEW i \in 1 .. base PROVE r[i] = b[i]
  <2>1. i \in 1 .. Len(b) /\ ~(i - base \in 1 .. Len(text)) BY <1>5
  <2> QED BY <1>3, <2>1
<1>9. ASSUME NEW i \in 1 .. Len(text) PROVE r[base + i] = text[i]
  <2>1. base + i \in 1 .. Len(b) /\ base + i - base = i BY <1>5
  <2> QED BY <1>3, <2>1
<1> QED BY <1>7, <1>8, <1>9

LEMMA MovedIs ==
    ASSUME NEW old \in Seq(Byte), NEW base \in Nat, base <= Len(old),
           NEW newcap \in Nat, base <= newcap, NEW r, r = Moved(old, base, newcap)
    PROVE  /\ r \in Seq(Byte) /\ Len(r) = newcap
           /\ \A i \in 1 .. base : r[i] = old[i]
<1>1. Len(old) \in Nat /\ Garbage \in Byte BY DEF Byte
<1>2. \A i \in 1 .. Len(old) : old[i] \in Byte BY ElementOfSeq
<1> HIDE DEF Garbage
<1>3. r = [i \in 1 .. newcap |-> IF i <= base THEN old[i] ELSE Garbage] BY DEF Moved
<1>4. \A i \in 1 .. newcap : r[i] \in Byte BY <1>1, <1>2, <1>3
<1>5. r \in [1 .. newcap -> Byte] BY <1>3, <1>4
<1>6. r \in Seq(Byte) /\ Len(r) = newcap BY <1>5, IsASeq
<1>7. \A i \in 1 .. base : r[i] = old[i] BY <1>3
<1> QED BY <1>6, <1>7

\* Text is made of written bytes.
LEMMA DataIsByte ==
    ASSUME NEW s \in Seq(Data)
    PROVE  s \in Seq(Byte)
<1>1. s \in [1 .. Len(s) -> Data] /\ Len(s) \in Nat OBVIOUS
<1>2. s \in [1 .. Len(s) -> Byte] BY <1>1 DEF Byte
<1> QED BY <1>1, <1>2, IsASeq

\* What a buffer starts with, from its two parts.
LEMMA PrefixIs ==
    ASSUME NEW r \in Seq(Byte), NEW kept \in Seq(Byte), NEW text \in Seq(Data),
           Len(kept) + Len(text) <= Len(r),
           \A i \in 1 .. Len(kept) : r[i] = kept[i],
           \A i \in 1 .. Len(text) : r[Len(kept) + i] = text[i]
    PROVE  SubSeq(r, 1, Len(kept) + Len(text)) = kept \o text
<1> DEFINE k == Len(kept)
           n == k + Len(text)
           a == SubSeq(r, 1, n)
           b == kept \o text
<1>1. k \in Nat /\ n \in Nat /\ Len(text) \in Nat OBVIOUS
<1>2. text \in Seq(Byte) BY DataIsByte
<1>3. b \in Seq(Byte) /\ Len(b) = n
      /\ \A i \in 1 .. n : b[i] = IF i <= k THEN kept[i] ELSE text[i - k]
  BY <1>2, ConcatProperties
<1>4. a \in Seq(Byte) /\ Len(a) = n /\ \A i \in 1 .. n : a[i] = r[i]
  <2>1. \A i \in 1 .. n : r[i] \in Byte
    <3>1. 1 .. n \subseteq 1 .. Len(r) BY <1>1
    <3> QED BY <3>1, ElementOfSeq
  <2>2. /\ a \in Seq(Byte) /\ Len(a) = IF 1 <= n THEN n - 1 + 1 ELSE 0
        /\ \A i \in 1 .. n - 1 + 1 : a[i] = r[1 + i - 1]
    <3> HIDE DEF n
    <3> QED BY <1>1, <2>1, SubSeqProperties
  <2>3. ASSUME NEW i \in 1 .. n PROVE a[i] = r[i]
    <3>1. i \in 1 .. n - 1 + 1 /\ 1 + i - 1 = i BY <1>1
    <3> HIDE DEF a
    <3> QED BY <2>2, <3>1
  <2> HIDE DEF a, n
  <2> QED BY <1>1, <2>2, <2>3
<1> HIDE DEF a, b
<1>5. ASSUME NEW i \in 1 .. n PROVE a[i] = b[i]
  <2>1. CASE i <= k
    <3>1. i \in 1 .. Len(kept) BY <1>1, <2>1
    <3> QED BY <1>3, <1>4, <2>1, <3>1
  <2>2. CASE ~(i <= k)
    <3>1. i - k \in 1 .. Len(text) /\ Len(kept) + (i - k) = i BY <1>1, <2>2
    <3>2. b[i] = text[i - k] BY <1>3, <2>2
    <3>3. r[i] = text[i - k] BY <3>1
    <3> QED BY <1>4, <3>2, <3>3
  <2> QED BY <2>1, <2>2
<1>6. a = b
  <2> HIDE DEF n
  <2> QED BY <1>3, <1>4, <1>5, SeqEqual
<1> QED BY <1>6 DEF a, b

\* The links and types are those of nds; a file may have another buffer.
SameLinks(new, nds) ==
    /\ DOMAIN new = DOMAIN nds /\ new \in [DOMAIN nds -> Node]
    /\ \A m \in DOMAIN nds : /\ new[m].type = nds[m].type /\ SamePlace(new[m], nds[m])
                             /\ new[m].children = nds[m].children
                             /\ nds[m].type = "dir" => new[m].data = nds[m].data

LEMMA ShapeKept ==
    ASSUME NEW nds, Shape(nds), NEW new, SameLinks(new, nds)
    PROVE  Shape(new)
<1>1. /\ DOMAIN new = DOMAIN nds /\ new \in [DOMAIN nds -> Node]
      /\ \A m \in DOMAIN nds : /\ new[m].type = nds[m].type /\ new[m].parent = nds[m].parent
                               /\ new[m].children = nds[m].children
                               /\ nds[m].type = "dir" => new[m].data = nds[m].data
  BY DEF SameLinks, SamePlace
<1>2. NodesOK(new) BY <1>1 DEF Shape, NodesOK, ParentClosed
<1>3. ASSUME NEW n \in DOMAIN new PROVE LinksOK(new, n)
  <2>1. LinksOK(nds, n) /\ n \in DOMAIN nds BY <1>1 DEF Shape
  <2>2. {m \in DOMAIN new : new[m].parent = n} = {m \in DOMAIN nds : nds[m].parent = n} BY <1>1
  <2> QED BY <1>1, <2>1, <2>2 DEF LinksOK
<1>4. Rooted(new) BY <1>1 DEF Shape, Rooted, ParentClosed
<1> QED BY <1>2, <1>3, <1>4 DEF Shape

\* What a write promises: kept is what stays of the file's contents.
Wrote(nds, bfs, held, f, kept, text, new, nb) ==
    /\ SameLinks(new, nds) /\ Store(new, nb, held)
    /\ ContentsOf(new, nb, f) = kept \o text
    /\ \A n \in DOMAIN nds : n # f => ContentsOf(new, nb, n) = ContentsOf(nds, bfs, n)

OldBuffer(nds, bfs, f) == IF nds[f].data = NULL THEN <<>> ELSE bfs[nds[f].data]

\* The file that is written: its buffer, and the bytes that stay.
LEMMA OldBufferIs ==
    ASSUME NEW nds, nds \in [DOMAIN nds -> Node], NEW bfs, NEW held, Store(nds, bfs, held),
           NEW f \in DOMAIN nds, NEW append \in BOOLEAN
    PROVE  LET old  == OldBuffer(nds, bfs, f)
               base == IF append THEN nds[f].size ELSE 0
               kept == IF append THEN ContentsOf(nds, bfs, f) ELSE <<>>
           IN  /\ nds[f] \in Node /\ nds[f].capacity \in Nat /\ base \in Nat
               /\ old \in Seq(Byte) /\ Len(old) = nds[f].capacity
               /\ base <= nds[f].size /\ nds[f].size <= nds[f].capacity
               /\ kept \in Seq(Byte) /\ Len(kept) = base
               /\ \A i \in 1 .. base : old[i] = kept[i]
               /\ \A i \in 1 .. base : old[i] \in Data
<1> DEFINE old  == OldBuffer(nds, bfs, f)
           base == IF append THEN nds[f].size ELSE 0
           kept == IF append THEN ContentsOf(nds, bfs, f) ELSE <<>>
<1>1. nds[f] \in Node OBVIOUS
<1>2. nds[f].capacity \in Nat /\ nds[f].size \in Nat BY <1>1 DEF Node
<1>3. BufOK(nds, bfs, f) BY DEF Store
<1>4. base \in Nat /\ base <= nds[f].size /\ nds[f].size <= nds[f].capacity
  BY <1>2, <1>3 DEF BufOK
<1>5. <<>> \in Seq(Byte) /\ Len(<<>>) = 0 BY EmptySeq
<1>6. old \in Seq(Byte) /\ Len(old) = nds[f].capacity
      /\ (nds[f].data = NULL => base = 0)
  <2>1. CASE nds[f].data = NULL
    <3>1. nds[f].capacity = 0 BY <1>3, <2>1 DEF BufOK
    <3>2. old = <<>> BY <2>1 DEF OldBuffer
    <3> QED BY <1>2, <1>4, <1>5, <3>1, <3>2
  <2>2. CASE nds[f].data # NULL
    <3>1. old = bfs[nds[f].data] BY <2>2 DEF OldBuffer
    <3> QED BY <1>3, <2>2, <3>1 DEF BufOK, Store
  <2> QED BY <2>1, <2>2
<1>7. \A i \in 1 .. base : old[i] \in Data
  <2>1. CASE nds[f].data = NULL BY <1>6, <2>1
  <2>2. CASE nds[f].data # NULL
    <3>1. old = bfs[nds[f].data] BY <2>2 DEF OldBuffer
    <3>2. \A i \in 1 .. nds[f].size : old[i] \in Data BY <1>3, <2>2, <3>1 DEF BufOK
    <3> HIDE DEF old
    <3> QED BY <1>2, <1>4, <3>2
  <2> QED BY <2>1, <2>2
<1>8. kept \in Seq(Byte) /\ Len(kept) = base /\ \A i \in 1 .. base : old[i] = kept[i]
  <2>1. CASE append /\ nds[f].data # NULL
    <3>1. kept = SubSeq(old, 1, base) BY <2>1 DEF ContentsOf, OldBuffer
    <3> HIDE DEF kept, old, base
    <3>2. \A i \in 1 .. base : old[i] \in Byte BY <1>7 DEF Byte
    <3>3. /\ kept \in Seq(Byte) /\ Len(kept) = IF 1 <= base THEN base - 1 + 1 ELSE 0
          /\ \A i \in 1 .. base - 1 + 1 : kept[i] = old[1 + i - 1]
      BY <1>4, <3>1, <3>2, SubSeqProperties
    <3>4. ASSUME NEW i \in 1 .. base PROVE old[i] = kept[i]
      <4>1. i \in 1 .. base - 1 + 1 /\ 1 + i - 1 = i BY <1>4
      <4> QED BY <3>3, <4>1
    <3> QED BY <1>4, <3>3, <3>4
  <2>2. CASE ~(append /\ nds[f].data # NULL)
    <3>1. kept = <<>> BY <2>2 DEF ContentsOf
    <3>2. base = 0 BY <1>6, <2>2
    <3> HIDE DEF kept, old, base
    <3> QED BY <1>5, <3>1, <3>2
  <2> QED BY <2>1, <2>2
<1> HIDE DEF old, kept, base
<1>9. /\ nds[f] \in Node /\ nds[f].capacity \in Nat /\ base \in Nat
      /\ old \in Seq(Byte) /\ Len(old) = nds[f].capacity
      /\ base <= nds[f].size /\ nds[f].size <= nds[f].capacity
      /\ kept \in Seq(Byte) /\ Len(kept) = base
      /\ \A i \in 1 .. base : old[i] = kept[i]
      /\ \A i \in 1 .. base : old[i] \in Data
  BY <1>1, <1>2, <1>4, <1>6, <1>7, <1>8
<1> QED BY <1>9 DEF old, kept, base

\* A write of text behind kept, into a buffer that starts with kept.
LEMMA WriteIs ==
    ASSUME NEW nds, nds \in [DOMAIN nds -> Node], NEW bfs, NEW held, Store(nds, bfs, held),
           NEW f \in DOMAIN nds, nds[f].type = "file", NULL \notin Ptrs,
           NEW kept \in Seq(Byte), NEW text \in Seq(Data),
           \A i \in 1 .. Len(kept) : kept[i] \in Data,
           NEW new, SameLinks(new, nds), NEW nb, OnlyFile(nds, bfs, f, new, nb),
           new[f].size = Len(kept) + Len(text),
           new[f].size <= new[f].capacity,
           (new[f].data = NULL) = (new[f].capacity = 0),
           NEW x \in Seq(Byte), Len(x) = new[f].capacity,
           \A i \in 1 .. Len(kept) : x[i] = kept[i],
           new[f].data # NULL => nb[new[f].data] = CopyIn(x, Len(kept), text)
    PROVE  Wrote(nds, bfs, held, f, kept, text, new, nb)
<1> DEFINE k == Len(kept)
           n == k + Len(text)
           r == CopyIn(x, k, text)
           d == new[f].data
<1>1. k \in Nat /\ Len(text) \in Nat /\ n \in Nat OBVIOUS
<1>2. /\ r \in Seq(Byte) /\ Len(r) = Len(x)
      /\ \A i \in 1 .. k : r[i] = x[i]
      /\ \A i \in 1 .. Len(text) : r[k + i] = text[i]
  <2> HIDE DEF k
  <2>1. k + Len(text) <= Len(x) BY DEF k
  <2> QED BY <1>1, <2>1, CopyInIs
<1> HIDE DEF r
<1>3. \A i \in 1 .. k : r[i] = kept[i] BY <1>2
<1>4. \A i \in 1 .. n : r[i] \in Data
  <2> SUFFICES ASSUME NEW i \in 1 .. n PROVE r[i] \in Data OBVIOUS
  <2>1. CASE i <= k
    <3>1. i \in 1 .. k BY <1>1, <2>1
    <3> QED BY <1>3, <3>1
  <2>2. CASE ~(i <= k)
    <3>1. i - k \in 1 .. Len(text) /\ k + (i - k) = i BY <1>1, <2>2
    <3>2. r[i] = text[i - k] BY <1>2, <3>1
    <3>3. text[i - k] \in Data BY <3>1, ElementOfSeq
    <3> QED BY <3>2, <3>3
  <2> QED BY <2>1, <2>2
<1>5. d # NULL => nb[d] = r BY DEF r
<1>6. n <= Len(r) BY <1>2
<1>7. SubSeq(r, 1, n) = kept \o text
  BY <1>1, <1>2, <1>3, <1>6, PrefixIs
<1>8. BufOK(new, nb, f)
  <2>1. d # NULL => d \in DOMAIN nb BY DEF OnlyFile
  <2>2. d # NULL => Len(nb[d]) = new[f].capacity /\ \A i \in 1 .. new[f].size : nb[d][i] \in Data
    BY <1>2, <1>4, <1>5
  <2> QED BY <2>1, <2>2 DEF BufOK
<1>9. d # NULL => nb[d] \in Seq(Byte) BY <1>2, <1>5
<1>10. /\ Store(new, nb, held)
       /\ \A m \in DOMAIN nds : m # f => ContentsOf(new, nb, m) = ContentsOf(nds, bfs, m)
  BY <1>8, <1>9, StoreUpdate
<1>11. ContentsOf(new, nb, f) = kept \o text
  <2>1. CASE d # NULL BY <1>5, <1>7, <2>1 DEF ContentsOf
  <2>2. CASE d = NULL
    <3>1. ContentsOf(new, nb, f) = <<>> BY <2>2 DEF ContentsOf
    <3>2. n <= 0 BY <2>2
    <3>3. k = 0 /\ Len(text) = 0 BY <1>1, <3>2
    <3>4. kept = <<>> /\ text = <<>> BY <3>3, EmptySeq
    <3>5. kept \o text = <<>> BY <3>4, ConcatEmptySeq, EmptySeq
    <3> QED BY <3>1, <3>5
  <2> QED BY <2>1, <2>2
<1> QED BY <1>10, <1>11 DEF Wrote

\* The text fits the buffer there is.
LEMMA WriteFits ==
    ASSUME NEW nds, nds \in [DOMAIN nds -> Node], NEW bfs, NEW held, Store(nds, bfs, held),
           NULL \notin Ptrs, NEW f \in DOMAIN nds, nds[f].type = "file",
           NEW append \in BOOLEAN, NEW text \in Seq(Data), NEW base, NEW kept, NEW needed,
           base = IF append THEN nds[f].size ELSE 0,
           kept = IF append THEN ContentsOf(nds, bfs, f) ELSE <<>>,
           needed = base + Len(text), needed <= nds[f].capacity,
           NEW new, new = [nds EXCEPT ![f].size = needed],
           NEW nb, nb = IF nds[f].data = NULL THEN bfs
                        ELSE [bfs EXCEPT ![nds[f].data] =
                                CopyIn(OldBuffer(nds, bfs, f), base, text)]
    PROVE  Wrote(nds, bfs, held, f, kept, text, new, nb)
<1> DEFINE old == OldBuffer(nds, bfs, f)
           d == nds[f].data
<1>1. /\ nds[f] \in Node /\ nds[f].capacity \in Nat /\ base \in Nat
      /\ old \in Seq(Byte) /\ Len(old) = nds[f].capacity
      /\ base <= nds[f].size /\ nds[f].size <= nds[f].capacity
      /\ kept \in Seq(Byte) /\ Len(kept) = base
      /\ \A i \in 1 .. base : old[i] = kept[i]
      /\ \A i \in 1 .. base : old[i] \in Data
  BY OldBufferIs
<1>2. needed \in Nat /\ Len(text) \in Nat BY <1>1
<1>3. /\ DOMAIN new = DOMAIN nds /\ new = [m \in DOMAIN nds |-> new[m]]
      /\ new[f] = [nds[f] EXCEPT !.size = needed]
      /\ \A m \in DOMAIN nds : m # f => new[m] = nds[m]
  OBVIOUS
<1>4. /\ new[f] \in Node /\ new[f].type = nds[f].type /\ SamePlace(new[f], nds[f])
      /\ new[f].children = nds[f].children /\ new[f].data = d /\ new[f].size = needed
      /\ new[f].capacity = nds[f].capacity
  <2> DEFINE r == nds[f]
             e == new[f]
  <2>1. r \in Node /\ e = [r EXCEPT !.size = needed] BY <1>1, <1>3
  <2> HIDE DEF r, e
  <2>2. e \in Node BY <1>2, <2>1 DEF Node
  <2>3. /\ e.type = r.type /\ SamePlace(e, r) /\ e.children = r.children
        /\ e.data = r.data /\ e.size = needed /\ e.capacity = r.capacity
    BY <2>1 DEF Node, SamePlace
  <2> QED BY <2>2, <2>3 DEF r, e
<1> HIDE DEF old
<1>5. new \in [DOMAIN nds -> Node] BY <1>3, <1>4
<1>6. SameLinks(new, nds) BY <1>3, <1>4, <1>5 DEF SameLinks, SamePlace
<1>7. BufOK(nds, bfs, f) BY DEF Store
<1>8. DOMAIN nb = DOMAIN bfs /\ (d # NULL => d \in DOMAIN bfs) BY <1>7 DEF BufOK
<1>9. \A b \in DOMAIN bfs \ {d} : nb[b] = bfs[b] OBVIOUS
<1>10. d # NULL => nb[d] = CopyIn(old, base, text) BY <1>8 DEF old
<1>11. NULL \notin DOMAIN bfs BY DEF Store
<1>12. OnlyFile(nds, bfs, f, new, nb)
  <2>1. \A m \in DOMAIN nds : m # f => SameFile(new[m], nds[m]) BY <1>3 DEF SameFile
  <2>2. DOMAIN nb = (DOMAIN bfs \ {d}) \cup ({new[f].data} \ {NULL}) BY <1>4, <1>8, <1>11
  <2> QED BY <1>3, <1>4, <1>9, <2>1, <2>2 DEF OnlyFile
<1>13. \A i \in 1 .. Len(kept) : kept[i] \in Data /\ old[i] = kept[i] BY <1>1
<1>14. /\ new[f].size = Len(kept) + Len(text) /\ new[f].size <= new[f].capacity
       /\ (new[f].data = NULL) = (new[f].capacity = 0) /\ Len(old) = new[f].capacity
       /\ new[f].data # NULL => nb[new[f].data] = CopyIn(old, Len(kept), text)
  BY <1>1, <1>4, <1>7, <1>10 DEF BufOK
<1>15. kept \in Seq(Byte) /\ old \in Seq(Byte) BY <1>1
<1> QED BY <1>6, <1>12, <1>13, <1>14, <1>15, WriteIs, ZenonT(60)

Resized(nds, f, p, size, capacity) ==
    [nds EXCEPT ![f].data = p, ![f].size = size, ![f].capacity = capacity]

\* The buffer is replaced by a larger one.
LEMMA WriteGrows ==
    ASSUME NEW nds, nds \in [DOMAIN nds -> Node], NEW bfs, NEW held, Store(nds, bfs, held),
           NULL \notin Ptrs, NEW f \in DOMAIN nds, nds[f].type = "file",
           NEW append \in BOOLEAN, NEW text \in Seq(Data), NEW base, NEW kept, NEW needed,
           base = IF append THEN nds[f].size ELSE 0,
           kept = IF append THEN ContentsOf(nds, bfs, f) ELSE <<>>,
           needed = base + Len(text),
           NEW newcap \in Nat \ {0}, needed <= newcap,
           NEW p \in Ptrs, p \notin DOMAIN nds, p \notin DOMAIN bfs,
           NEW new, new = Resized(nds, f, p, needed, newcap),
           NEW nb, nb = With(Without(bfs, {nds[f].data}), p,
                             CopyIn(Moved(OldBuffer(nds, bfs, f), base, newcap), base, text))
    PROVE  Wrote(nds, bfs, held, f, kept, text, new, nb)
<1> DEFINE old == OldBuffer(nds, bfs, f)
           d == nds[f].data
           x == Moved(old, base, newcap)
           c == CopyIn(x, base, text)
<1>1. /\ nds[f] \in Node /\ nds[f].capacity \in Nat /\ base \in Nat
      /\ old \in Seq(Byte) /\ Len(old) = nds[f].capacity
      /\ base <= nds[f].size /\ nds[f].size <= nds[f].capacity
      /\ kept \in Seq(Byte) /\ Len(kept) = base
      /\ \A i \in 1 .. base : old[i] = kept[i]
      /\ \A i \in 1 .. base : old[i] \in Data
  BY OldBufferIs
<1>15. nds[f].size \in Nat BY <1>1 DEF Node
<1>2. needed \in Nat /\ Len(text) \in Nat /\ newcap \in Nat BY <1>1
<1>3. /\ DOMAIN new = DOMAIN nds /\ new = [m \in DOMAIN nds |-> new[m]]
      /\ new[f] = [nds[f] EXCEPT !.data = p, !.size = needed, !.capacity = newcap]
      /\ \A m \in DOMAIN nds : m # f => new[m] = nds[m]
  BY DEF Resized
<1>4. /\ new[f] \in Node /\ new[f].type = nds[f].type /\ SamePlace(new[f], nds[f])
      /\ new[f].children = nds[f].children /\ new[f].data = p /\ new[f].size = needed
      /\ new[f].capacity = newcap
  <2> DEFINE r == nds[f]
             e == new[f]
  <2>1. r \in Node /\ e = [r EXCEPT !.data = p, !.size = needed, !.capacity = newcap]
    BY <1>1, <1>3
  <2> HIDE DEF r, e
  <2>2. e \in Node BY <1>2, <2>1 DEF Node
  <2>3. /\ e.type = r.type /\ SamePlace(e, r) /\ e.children = r.children
        /\ e.data = p /\ e.size = needed /\ e.capacity = newcap
    BY <2>1 DEF Node, SamePlace
  <2> QED BY <2>2, <2>3 DEF r, e
<1> HIDE DEF old
<1>5. x \in Seq(Byte) /\ Len(x) = newcap /\ \A i \in 1 .. base : x[i] = old[i]
  <2>1. base <= Len(old) /\ base <= newcap BY <1>1, <1>2, <1>15
  <2>2. x = Moved(old, base, newcap) OBVIOUS
  <2>3. old \in Seq(Byte) /\ base \in Nat /\ newcap \in Nat BY <1>1, <1>2
  <2> HIDE DEF x, d, c
  <2> QED BY <2>1, <2>2, <2>3, MovedIs
<1>6. new \in [DOMAIN nds -> Node] BY <1>3, <1>4
<1>7. SameLinks(new, nds) BY <1>3, <1>4, <1>6 DEF SameLinks, SamePlace
<1>8. nb = With(Without(bfs, {d}), p, c) BY DEF old
<1> HIDE DEF x, c
<1>9. /\ DOMAIN nb = (DOMAIN bfs \ {d}) \cup {p} /\ nb[p] = c
      /\ \A b \in DOMAIN bfs \ {d} : nb[b] = bfs[b]
  BY <1>8 DEF With, Without
<1>10. p # NULL OBVIOUS
<1>11. OnlyFile(nds, bfs, f, new, nb)
  <2>1. \A m \in DOMAIN nds : m # f => SameFile(new[m], nds[m]) BY <1>3 DEF SameFile
  <2>2. DOMAIN nb = (DOMAIN bfs \ {d}) \cup ({new[f].data} \ {NULL}) BY <1>4, <1>9, <1>10
  <2> QED BY <1>3, <1>4, <1>9, <2>1, <2>2 DEF OnlyFile
<1>12. /\ \A i \in 1 .. Len(kept) : kept[i] \in Data
       /\ \A i \in 1 .. Len(kept) : x[i] = kept[i]
  BY <1>1, <1>5
<1>13. /\ new[f].size = Len(kept) + Len(text) /\ new[f].size <= new[f].capacity
       /\ (new[f].data = NULL) = (new[f].capacity = 0) /\ Len(x) = new[f].capacity
       /\ new[f].data # NULL => nb[new[f].data] = CopyIn(x, Len(kept), text)
  BY <1>1, <1>4, <1>5, <1>9, <1>10 DEF c
<1>14. kept \in Seq(Byte) /\ x \in Seq(Byte) BY <1>1, <1>5
<1> HIDE DEF d
<1> QED BY <1>7, <1>11, <1>12, <1>13, <1>14, WriteIs

-----------------------------------------------------------------------------
(* The initial tree.                                                        *)

\* Nodes without contents.
Bare(nds) ==
    \A m \in DOMAIN nds : nds[m].data = NULL /\ nds[m].size = 0 /\ nds[m].capacity = 0

RootOnly == [p \in {root} |-> node_new(NoName, "dir")]

\* ramfs_init() makes the directories of t, the last of them last.
Makes(f, s, g) ==
    g = [t \in SUBSET DOMAIN s |->
           IF t = {} THEN RootOnly
           ELSE attach(With(g[t \ {Max(t)}], f[s[Max(t)]],
                            node_new(PreDirs[s[Max(t)]], "dir")), root, f[s[Max(t)]])]

Indices(f) == [i \in DOMAIN f |-> i]

\* The i-th directory made, for i in t, is f[i], below the root under its name.
Planted(nds, f, t) ==
    /\ DOMAIN nds = {root} \cup {f[i] : i \in t} /\ \A m \in DOMAIN nds : nds[m].type = "dir"
    /\ \A i \in t : nds[f[i]].parent = root /\ nds[f[i]].name = PreDirs[i]

LEMMA RootShape == Shape(RootOnly) /\ Bare(RootOnly) /\ DOMAIN RootOnly = {root}
<1> DEFINE r == node_new(NoName, "dir")
           nds == RootOnly
<1>1. r \in Node BY EmptySeq DEF node_new, Node
<1>2. /\ r.parent = NULL /\ r.children = <<>> /\ r.type = "dir" /\ r.data = NULL
      /\ r.size = 0 /\ r.capacity = 0
  BY DEF node_new
<1>3. DOMAIN nds = {root} /\ nds[root] = r /\ nds \in [{root} -> {r}] BY DEF RootOnly
<1>4. NULL \notin Ptrs /\ root \in Ptrs BY RamfsAssumption
<1> HIDE DEF r, nds
<1>5. ParentClosed(nds, {root}) BY <1>2, <1>3 DEF ParentClosed
<1>6. nds \in [DOMAIN nds -> Node] BY <1>1, <1>3
<1>7. NodesOK(nds) BY <1>2, <1>3, <1>4, <1>5, <1>6 DEF NodesOK
<1>8. LinksOK(nds, root)
  <2>1. IsInjective(<<>>) /\ Range(<<>>) = {} BY DEF IsInjective, Range
  <2>2. {m \in DOMAIN nds : nds[m].parent = root} = {} BY <1>2, <1>3, <1>4
  <2>3. nds[root].children = <<>> /\ nds[root].type = "dir" /\ nds[root].data = NULL
    BY <1>2, <1>3
  <2> QED BY <2>1, <2>2, <2>3 DEF LinksOK
<1>9. Rooted(nds) BY <1>3 DEF Rooted
<1>10. Shape(nds) BY <1>3, <1>7, <1>8, <1>9 DEF Shape
<1>11. Bare(nds) BY <1>2, <1>3 DEF Bare
<1> QED BY <1>3, <1>10, <1>11 DEF nds

LEMMA InitShape ==
    ASSUME NEW f \in [1 .. Len(PreDirs) -> Ptrs \ {root}], IsInjective(f),
           NEW nds, nds = (CHOOSE g : Makes(f, Indices(f), g))[DOMAIN Indices(f)]
    PROVE  Shape(nds) /\ Bare(nds) /\ Planted(nds, f, 1 .. Len(PreDirs))
<1> DEFINE n == Len(PreDirs)
           s == Indices(f)
           D == UNION {[S -> Node] : S \in SUBSET Ptrs}
           Add(x, i) == attach(With(x, f[i], node_new(PreDirs[i], "dir")), root, f[i])
           Q(t) == {x \in D : Shape(x) /\ Bare(x) /\ Planted(x, f, t)}
           F == [tx \in (SUBSET (1 .. n)) \X D |-> Add(tx[2], Max(tx[1]))]
           P == [t \in SUBSET (1 .. n) |-> Q(t)]
           h == CHOOSE g : Makes(f, s, g)
<1>1. n \in Nat /\ PreDirs \in Seq(Names) BY RamfsAssumption
<1>2. DOMAIN f = 1 .. n /\ DOMAIN s = 1 .. n /\ \A i \in 1 .. n : s[i] = i BY DEF Indices
<1>3. nds = h[1 .. n] BY <1>2
<1>4. RootOnly \in Q({})
  <2>1. Planted(RootOnly, f, {}) BY DEF RootOnly, node_new, Planted
  <2>2. RootOnly \in [DOMAIN RootOnly -> Node] /\ DOMAIN RootOnly \subseteq Ptrs
    BY RootShape DEF Shape, NodesOK
  <2>3. RootOnly \in D BY <2>2
  <2> HIDE DEF D
  <2> QED BY <2>1, <2>3, RootShape
<1>5. ASSUME NEW t \in SUBSET (1 .. n), NEW k \in t, NEW x \in Q(t \ {k})
      PROVE  Add(x, k) \in Q(t)
  <2> DEFINE y == Add(x, k)
             p == f[k]
  <2>0. Shape(x) /\ Bare(x) /\ Planted(x, f, t \ {k})
    <3> HIDE DEF D
    <3> QED OBVIOUS
  <2>1. /\ DOMAIN x = {root} \cup {f[i] : i \in t \ {k}} /\ \A m \in DOMAIN x : x[m].type = "dir"
        /\ \A i \in t \ {k} : x[f[i]].parent = root /\ x[f[i]].name = PreDirs[i]
    BY <2>0 DEF Planted
  <2>2. k \in 1 .. n /\ p \in Ptrs /\ p # root OBVIOUS
  <2>3. p \notin DOMAIN x BY <1>2, <2>1, <2>2 DEF IsInjective
  <2>4. PreDirs[k] \in Names BY <1>1, <2>2, ElementOfSeq
  <2>5. root \in DOMAIN x BY <2>1
  <2>6. Shape(y) /\ Created(y, x, p, "dir") /\ Hung(y, x, p, root, PreDirs[k])
    <3>1. y = attach(With(x, p, node_new(PreDirs[k], "dir")), root, p) OBVIOUS
    <3> HIDE DEF y, p, D
    <3> QED BY <2>0, <2>1, <2>2, <2>3, <2>4, <2>5, <3>1, CreateShape
  <2> HIDE DEF y
  <2>7. DOMAIN y = {root} \cup {f[i] : i \in t}
    <3>1. {f[i] : i \in t} = {f[i] : i \in t \ {k}} \cup {p} OBVIOUS
    <3> HIDE DEF p, D
    <3> QED BY <2>1, <2>6, <3>1 DEF Created
  <2>8. Bare(y) /\ \A m \in DOMAIN y : y[m].type = "dir"
    <3> HIDE DEF p, D
    <3> QED BY <2>0, <2>1, <2>6 DEF Bare, Created, SameFile
  <2>11. ASSUME NEW i \in t PROVE y[f[i]].parent = root /\ y[f[i]].name = PreDirs[i]
    <3>1. CASE i = k BY <2>6, <3>1 DEF Hung
    <3>2. CASE i # k
      <4>1. i \in t \ {k} /\ f[i] \in DOMAIN x BY <2>1, <3>2
      <4> HIDE DEF p, D
      <4> QED BY <2>1, <2>6, <4>1 DEF Hung, SamePlace
    <3> QED BY <3>1, <3>2
  <2>12. Planted(y, f, t) BY <2>7, <2>8, <2>11 DEF Planted
  <2>9. y \in D
    <3>1. y \in [DOMAIN y -> Node] /\ DOMAIN y \subseteq Ptrs BY <2>6 DEF Shape, NodesOK
    <3> QED BY <3>1
  <2> HIDE DEF D
  <2>10. y \in Q(t) BY <2>6, <2>8, <2>9, <2>12
  <2> QED BY <2>10 DEF y
<1>6. ASSUME NEW t \in SUBSET (1 .. n), t # {}
      PROVE  Max(t) \in t /\ Max(t) \in 1 .. n /\ t \ {Max(t)} \in SUBSET (1 .. n)
  <2>1. Max(t) \in t /\ Max(t) \in 1 .. n
    <3> HIDE DEF n
    <3> QED BY <1>1, <1>6, MaxIs
  <2> QED BY <2>1
<1>7. \A t \in SUBSET (1 .. n) : Q(t) \subseteq D OBVIOUS
<1> HIDE DEF D, Q, Add, n, s
\* The recursion has a solution.
<1>8. PICK g : Folds(g, n, RootOnly, F)
  <2> HIDE DEF F
  <2> QED BY <1>1, FoldExists
<1>9. \A t \in SUBSET (1 .. n) : g[t] = IF t = {} THEN RootOnly ELSE F[<<t, g[t \ {Max(t)}]>>]
  BY <1>8 DEF Folds
<1>10. ASSUME NEW t \in SUBSET (1 .. n), NEW x \in D PROVE F[<<t, x>>] = Add(x, Max(t))
  OBVIOUS
<1> HIDE DEF F
<1>11. \A t \in SUBSET (1 .. n) : g[t] \in Q(t)
  <2>1. g[{}] \in P[{}] BY <1>4, <1>9
  <2>2. ASSUME NEW t \in SUBSET (1 .. n), t # {}, g[t \ {Max(t)}] \in P[t \ {Max(t)}]
        PROVE  g[t] \in P[t]
    <3>1. Max(t) \in t /\ t \ {Max(t)} \in SUBSET (1 .. n) BY <1>6, <2>2
    <3>2. g[t \ {Max(t)}] \in Q(t \ {Max(t)}) BY <2>2, <3>1
    <3>3. g[t] = Add(g[t \ {Max(t)}], Max(t)) BY <1>7, <1>9, <1>10, <2>2, <3>1, <3>2
    <3>4. g[t] \in Q(t) BY <1>5, <3>1, <3>2, <3>3
    <3> QED BY <3>4
  <2>3. \A t \in SUBSET (1 .. n) : g[t] \in P[t]
    <3> HIDE DEF P
    <3> QED BY <1>1, <2>1, <2>2, FoldStays
  <2> QED BY <2>3
<1>12. \A t \in SUBSET (1 .. n) :
         g[t] = IF t = {} THEN RootOnly ELSE Add(g[t \ {Max(t)}], s[Max(t)])
  <2> SUFFICES ASSUME NEW t \in SUBSET (1 .. n), t # {}
               PROVE  g[t] = Add(g[t \ {Max(t)}], s[Max(t)])
    BY <1>9
  <2>1. t \ {Max(t)} \in SUBSET (1 .. n) /\ s[Max(t)] = Max(t) BY <1>2, <1>6
  <2>2. g[t \ {Max(t)}] \in D BY <1>7, <1>11, <2>1
  <2> QED BY <1>9, <1>10, <2>1, <2>2
<1>13. g = [t \in SUBSET (1 .. n) |-> g[t]] BY <1>8 DEF Folds
<1>14. Makes(f, s, g) BY <1>2, <1>12, <1>13 DEF Makes, Add
<1>15. Makes(f, s, h) BY <1>14
<1> HIDE DEF h
<1>16. \A t \in SUBSET (1 .. n) :
         h[t] = IF t = {} THEN RootOnly ELSE Add(h[t \ {Max(t)}], s[Max(t)])
  BY <1>2, <1>15 DEF Makes, Add
<1>17. \A t \in SUBSET (1 .. n) : h[t] \in Q(t)
  <2>1. h[{}] \in P[{}] BY <1>4, <1>16
  <2>2. ASSUME NEW t \in SUBSET (1 .. n), t # {}, h[t \ {Max(t)}] \in P[t \ {Max(t)}]
        PROVE  h[t] \in P[t]
    <3>1. Max(t) \in t /\ t \ {Max(t)} \in SUBSET (1 .. n) /\ s[Max(t)] = Max(t)
      BY <1>2, <1>6, <2>2
    <3>2. h[t \ {Max(t)}] \in Q(t \ {Max(t)}) BY <2>2, <3>1
    <3>3. h[t] = Add(h[t \ {Max(t)}], Max(t)) BY <1>16, <2>2, <3>1
    <3>4. h[t] \in Q(t) BY <1>5, <3>1, <3>2, <3>3
    <3> QED BY <3>4
  <2>3. \A t \in SUBSET (1 .. n) : h[t] \in P[t]
    <3> HIDE DEF P
    <3> QED BY <1>1, <2>1, <2>2, FoldStays
  <2> QED BY <2>3
<1>18. nds \in Q(1 .. n) BY <1>3, <1>17
<1> QED BY <1>18 DEF Q, n

LEMMA InitMakes ==
    Init => \E f \in [1 .. Len(PreDirs) -> Ptrs \ {root}] :
              /\ IsInjective(f)
              /\ nodes = (CHOOSE g : Makes(f, Indices(f), g))[DOMAIN Indices(f)]
BY DEF Init, Makes, RootOnly, Indices, FoldLeft, MapThenFoldSet

-----------------------------------------------------------------------------
(* The inductive invariant.                                                 *)

\* The shell is at the prompt, or a redirection is under way.
ShellOK(c, q) ==
    /\ q \in {"prompt", "run", "redirect"} /\ (c = NULL) = (q = "prompt")
    /\ c # NULL => c \in Capture

\* A write that is about to be made is to a live file.
Job(nds) == [file : DOMAIN nds, text : Seq(Data), append : BOOLEAN]
JobOK(j, nds) == j # NULL => j \in Job(nds) /\ nds[j.file].type = "file"

IInv ==
    /\ Shape(nodes) /\ Store(nodes, bufs, Held(cap))
    /\ ShellOK(cap, pc) /\ JobOK(job, nodes) /\ cwd \in Ptrs

\* Nothing but written bytes is ever read.
LEMMA ContentsData ==
    ASSUME Shape(nodes), NEW held, Store(nodes, bufs, held), NEW n \in DOMAIN nodes
    PROVE  Contents(n) \in Seq(Data)
<1>1. CASE nodes[n].data = NULL
  <2>1. Contents(n) = <<>> BY <1>1 DEF Contents
  <2> QED BY <2>1, EmptySeq
<1>2. CASE nodes[n].data # NULL
  <2> DEFINE b == bufs[nodes[n].data]
             k == nodes[n].size
  <2>1. Contents(n) = SubSeq(b, 1, k) BY <1>2 DEF Contents
  <2>2. BufOK(nodes, bufs, n) BY DEF Store
  <2>3. \A i \in 1 .. k : b[i] \in Data BY <1>2, <2>2 DEF BufOK
  <2>4. k \in Nat
    <3>1. nodes[n] \in Node BY DEF Shape, NodesOK
    <3> QED BY <3>1 DEF Node
  <2> HIDE DEF b, k
  <2>5. SubSeq(b, 1, k) \in Seq(Data) BY <2>3, <2>4, SubSeqProperties
  <2> QED BY <2>1, <2>5
<1> QED BY <1>1, <1>2

\* What is printed goes to the capture as far as it fits.
LEMMA ReturnIs ==
    ASSUME ShellOK(cap, pc), NEW text \in Seq(Data), Return(text)
    PROVE  ShellOK(cap', pc') /\ Held(cap') = Held(cap)
<1>1. Emit(text) /\ pc' = IF cap = NULL THEN "prompt" ELSE "redirect" BY DEF Return
<1>2. CASE cap = NULL BY <1>1, <1>2 DEF Emit, ShellOK
<1>3. CASE cap # NULL
  <2> DEFINE t == cap.text \o text
             k == Min({Len(t), CAPTURE_MAX})
             u == SubSeq(t, 1, k)
  <2>1. cap' = [cap EXCEPT !.text = u] BY <1>1, <1>3 DEF Emit
  <2>2. cap \in Capture BY <1>3 DEF ShellOK
  <2>3. cap.text \in Seq(Data) BY <2>2 DEF Capture
  <2>4. t \in Seq(Data) BY <2>3, ConcatProperties
  <2> HIDE DEF t
  <2>5. Len(t) \in Nat /\ CAPTURE_MAX \in Nat BY <2>4, RamfsAssumption
  <2>6. k \in Nat /\ k <= Len(t)
    <3> DEFINE a == Len(t)
               b == CAPTURE_MAX
    <3>1. a \in Nat /\ b \in Nat BY <2>5
    <3> HIDE DEF a, b
    <3>2. \E x \in {a, b} : \A y \in {a, b} : x <= y BY <3>1
    <3>3. Min({a, b}) \in {a, b} /\ \A y \in {a, b} : Min({a, b}) <= y BY <3>2 DEF Min
    <3>4. k = Min({a, b}) BY DEF a, b
    <3> HIDE DEF k
    <3> QED BY <3>1, <3>3, <3>4 DEF a
  <2> HIDE DEF k
  <2>7. u \in Seq(Data)
    <3>1. \A i \in 1 .. k : i \in 1 .. Len(t) BY <2>5, <2>6
    <3>2. \A i \in 1 .. k : t[i] \in Data BY <2>4, <3>1, ElementOfSeq
    <3> QED BY <2>6, <3>2, SubSeqProperties
  <2> HIDE DEF u
  <2>8. cap' \in Capture /\ cap'.buf = cap.buf BY <2>1, <2>2, <2>7 DEF Capture
  <2>9. cap' # NULL BY <2>8, RamfsAssumption
  <2>10. pc' = "redirect" BY <1>1, <1>3
  <2> QED BY <1>3, <2>8, <2>9, <2>10 DEF ShellOK, Held
<1> QED BY <1>2, <1>3

\* A command that only prints.
LEMMA Prints ==
    ASSUME IInv, NEW text \in Seq(Data), Return(text), UNCHANGED <<nodes, bufs, job>>,
           cwd' \in Ptrs
    PROVE  IInv'
<1>1. ShellOK(cap', pc') /\ Held(cap') = Held(cap) BY ReturnIs DEF IInv
<1>2. Shape(nodes') /\ Store(nodes', bufs', Held(cap')) /\ JobOK(job', nodes')
  BY <1>1 DEF IInv
<1> QED BY <1>1, <1>2 DEF IInv

LEMMA ErrIsData == <<ErrMsg, NL>> \in Seq(Data) /\ <<>> \in Seq(Data)
<1>1. ErrMsg \in Data /\ NL \in Data BY DEF Data
<1> QED BY <1>1, EmptySeq

LEMMA Fails ==
    ASSUME IInv, Fail
    PROVE  IInv'
<1>1. Return(<<ErrMsg, NL>>) /\ UNCHANGED <<nodes, bufs, job>> /\ cwd' \in Ptrs
  BY DEF Fail, IInv
<1> QED BY <1>1, ErrIsData, Prints

LEMMA PathsAre ==
    ASSUME NEW path \in Paths
    PROVE  path \in AnyPath
<1>1. path \in Path BY RamfsAssumption
<1>2. path.comps \in Seq(Component) BY <1>1 DEF Path
<1>3. path.comps \in Seq(Component \cup {NoName})
  <2> DEFINE s == path.comps
             X == Component \cup {NoName}
  <2>1. s \in [1 .. Len(s) -> Component] /\ Len(s) \in Nat BY <1>2
  <2>2. Component \subseteq X OBVIOUS
  <2> HIDE DEF s, X
  <2>3. s \in [1 .. Len(s) -> X] BY <2>1, <2>2
  <2>4. s \in Seq(X) BY <2>1, <2>3, IsASeq
  <2> QED BY <2>4 DEF s, X
<1> QED BY <1>1, <1>3 DEF Path, AnyPath

\* kmalloc() hands out memory nobody uses.
LEMMA FreshPtr ==
    ASSUME NEW size, NEW p \in kmalloc(size), p # NULL
    PROVE  p \in Ptrs /\ p \notin DOMAIN nodes /\ p \notin DOMAIN bufs
BY DEF kmalloc, Allocated

LEMMA CreateStep ==
    ASSUME IInv, cwd \in DOMAIN nodes, NEW path \in AnyPath, Creatable(path),
           NEW p \in kmalloc(1), p # NULL, NEW type \in {"file", "dir"},
           ramfs_create(path, type, p)
    PROVE  /\ Shape(nodes') /\ Created(nodes', nodes, p, type)
           /\ Store(nodes', bufs, Held(cap)) /\ Containing(path) \in DOMAIN nodes
           /\ Hung(nodes', nodes, p, Containing(path), Last(path.comps))
<1> DEFINE dir == Containing(path)
           name == Last(path.comps)
<1>1. p \in Ptrs /\ p \notin DOMAIN nodes /\ p \notin DOMAIN bufs BY FreshPtr
<1>2. /\ path.comps # <<>> /\ name \in Names /\ dir # NULL /\ nodes[dir].type = "dir"
  BY DEF Creatable
<1>3. dir \in DOMAIN nodes
  <2>1. Shape(nodes) BY DEF IInv
  <2>2. dir \in DOMAIN nodes \cup {NULL} BY <1>2, <2>1, Resolve
  <2> QED BY <1>2, <2>2
<1>4. nodes' = attach(With(nodes, p, node_new(name, type)), dir, p) BY DEF ramfs_create
<1> HIDE DEF dir, name
<1>5. /\ Shape(nodes') /\ Created(nodes', nodes, p, type)
      /\ Hung(nodes', nodes, p, dir, name)
  <2>1. Shape(nodes) BY DEF IInv
  <2> QED BY <1>1, <1>2, <1>3, <1>4, <2>1, CreateShape
<1>6. Store(nodes', bufs, Held(cap))
  <2>1. Store(nodes, bufs, Held(cap)) BY DEF IInv
  <2>2. DOMAIN bufs \cap DOMAIN nodes' = {} BY <1>1, <1>5, <2>1 DEF Created, Store
  <2>3. \A m \in DOMAIN nodes : m \in DOMAIN nodes' /\ SameFile(nodes'[m], nodes[m])
    BY <1>5 DEF Created
  <2>4. \A m \in DOMAIN nodes' \ DOMAIN nodes :
           nodes'[m].data = NULL /\ nodes'[m].size = 0 /\ nodes'[m].capacity = 0
    BY <1>5 DEF Created
  <2> QED BY <2>1, <2>2, <2>3, <2>4, StoreRelinked
<1> QED BY <1>3, <1>5, <1>6 DEF dir, name

\* mkdir and touch.
LEMMA MakeStep ==
    ASSUME IInv, Running, NEW path \in Paths, NEW type \in {"file", "dir"}, Make(path, type)
    PROVE  IInv'
<1>1. PICK p \in kmalloc(1) :
        IF Creatable(path) /\ p # NULL
        THEN ramfs_create(path, type, p) /\ Done /\ UNCHANGED <<bufs, cwd, job>>
        ELSE Fail
  BY DEF Make
<1>2. CASE ~(Creatable(path) /\ p # NULL) BY <1>1, <1>2, Fails
<1>3. CASE Creatable(path) /\ p # NULL
  <2>1. ramfs_create(path, type, p) /\ Return(<<>>) /\ UNCHANGED <<bufs, cwd, job>>
    BY <1>1, <1>3 DEF Done
  <2>2. job = NULL /\ cwd \in DOMAIN nodes /\ path \in AnyPath BY PathsAre DEF Running
  <2>3. Shape(nodes') /\ Store(nodes', bufs, Held(cap)) BY <1>3, <2>1, <2>2, CreateStep
  <2>4. ShellOK(cap', pc') /\ Held(cap') = Held(cap) BY <2>1, ErrIsData, ReturnIs DEF IInv
  <2>5. JobOK(job', nodes') BY <2>1, <2>2 DEF JobOK
  <2>6. Store(nodes', bufs', Held(cap')) /\ cwd' \in Ptrs BY <2>1, <2>3, <2>4 DEF IInv
  <2> QED BY <2>3, <2>4, <2>5, <2>6 DEF IInv
<1> QED BY <1>2, <1>3

LEMMA RmStep ==
    ASSUME IInv, NEW path \in Paths, NEW recursive, cmd_rm(path, recursive)
    PROVE  IInv'
<1> DEFINE n == ramfs_resolve(path)
<1>1. Running BY DEF cmd_rm
<1>2. job = NULL /\ cwd \in DOMAIN nodes /\ path \in AnyPath BY <1>1, PathsAre DEF Running
<1>3. n \in DOMAIN nodes \cup {NULL} BY <1>2, Resolve DEF IInv
<1>4. CASE Fail BY <1>4, Fails
<1>5. CASE /\ n \notin {NULL, cwd, root} /\ ramfs_delete(n) /\ Done /\ UNCHANGED <<cwd, job>>
  <2> DEFINE G == Subtree(n)
  <2>1. n \in DOMAIN nodes /\ n # root BY <1>3, <1>5
  <2>2. /\ nodes' = Without(detach(nodes, n), G)
        /\ bufs' = Without(bufs, {nodes[m].data : m \in G})
    BY <1>5 DEF ramfs_delete
  <2>3. Shape(nodes) /\ Store(nodes, bufs, Held(cap)) /\ NULL \notin Ptrs
    BY RamfsAssumption DEF IInv
  <2>4. G \subseteq DOMAIN nodes BY <2>1, <2>3, SubtreeClosed DEF Below
  <2> HIDE DEF n
  <2>5. /\ Shape(nodes') /\ DOMAIN nodes' = DOMAIN nodes \ G
        /\ \A m \in DOMAIN nodes' : SameFile(nodes'[m], nodes[m])
    BY <2>1, <2>2, <2>3, DeleteShape
  <2> HIDE DEF G
  <2>6. Store(nodes', bufs', Held(cap)) BY <2>2, <2>3, <2>4, <2>5, StoreFreed
  <2>7. Return(<<>>) /\ UNCHANGED <<cwd, job>> BY <1>5 DEF Done
  <2>8. ShellOK(cap', pc') /\ Held(cap') = Held(cap) BY <2>7, ErrIsData, ReturnIs DEF IInv
  <2>9. JobOK(job', nodes') /\ cwd' \in Ptrs BY <1>2, <2>7 DEF JobOK, IInv
  <2> QED BY <2>5, <2>6, <2>8, <2>9 DEF IInv
<1> QED BY <1>4, <1>5 DEF cmd_rm

LEMMA MinOf ==
    ASSUME NEW a \in Int, NEW b \in Int
    PROVE  Min({a, b}) = IF a <= b THEN a ELSE b
<1> DEFINE m == IF a <= b THEN a ELSE b
<1>1. m \in {a, b} /\ \A y \in {a, b} : m <= y OBVIOUS
<1>2. \A x \in {a, b} : (\A y \in {a, b} : x <= y) => x = m OBVIOUS
<1> HIDE DEF m
<1>3. Min({a, b}) = m BY <1>1, <1>2 DEF Min
<1> QED BY <1>3 DEF m

\* How a name is spelled.
LEMMA SpellingIs ==
    ASSUME NEW name \in Names \cup Long
    PROVE  /\ Spelled[name] \in Seq(Component) /\ Len(Spelled[name]) \in Nat \ {0} /\ name # NoName
           /\ \A k \in 1 .. Len(Spelled[name]) : Spelled[name][k] = name <=> k = Len(Spelled[name])
<1>1. Spelled[name] \in Seq(Component) BY SpellingAssumption
<1>2. Len(Spelled[name]) \in Nat BY <1>1
<1>3. Len(Spelled[name]) > 0 BY SpellingAssumption
<1>4. name # NoName
  <2> SUFFICES ASSUME name = NoName PROVE FALSE OBVIOUS
  <2>1. Len(Spelled[name]) = 0 BY SpellingAssumption
  <2> QED BY <1>3, <2>1
<1>5. \A k \in 1 .. Len(Spelled[name]) : Spelled[name][k] = name <=> k = Len(Spelled[name])
  BY SpellingAssumption
<1> QED BY <1>1, <1>2, <1>3, <1>4, <1>5

\* A node's name is cut to a name that fits, and one that fits is not cut.
LEMMA NameCut ==
    ASSUME NEW name \in Names \cup Long \cup {NoName}
    PROVE  /\ strlcpy(name, RAMFS_NAME_MAX) \in NodeName
           /\ name \in Names => strlcpy(name, RAMFS_NAME_MAX) = name
<1> DEFINE w == Len(Spelled[name])
           m == RAMFS_NAME_MAX - 1
<1>1. CASE name = NoName
  <2>1. name \in Names => FALSE BY <1>1, SpellingIs
  <2> QED BY <1>1, <2>1 DEF strlcpy, NodeName
<1>2. CASE name # NoName
  <2>1. name \in Names \cup Long BY <1>2
  <2>2. w \in Nat \ {0} /\ \A k \in 1 .. w : Spelled[name][k] = name <=> k = w BY <2>1, SpellingIs
  <2>3. m \in Int /\ RAMFS_NAME_MAX \in Nat /\ m < RAMFS_NAME_MAX /\ w \in Int BY <2>2, RoomAssumption
  <2>4. strlcpy(name, RAMFS_NAME_MAX) = Spelled[name][Min({w, m})] BY <1>2 DEF strlcpy
  <2>5. name \in Names => w < RAMFS_NAME_MAX BY RoomAssumption
  <2>6. name \in Long => w >= RAMFS_NAME_MAX /\ Spelled[name][m] \in Names BY RoomAssumption
  <2>7. RAMFS_NAME_MAX = m + 1 BY <2>3
  <2> HIDE DEF w, m
  <2>8. Min({w, m}) = IF w <= m THEN w ELSE m BY <2>3, MinOf
  <2>9. name \in Names => Min({w, m}) = w BY <2>2, <2>3, <2>5, <2>7, <2>8
  <2>10. name \in Long => Min({w, m}) = m BY <2>2, <2>3, <2>6, <2>7, <2>8
  <2>11. Spelled[name][w] = name BY <2>2
  <2> QED BY <2>1, <2>4, <2>6, <2>9, <2>10, <2>11 DEF NodeName
<1> QED BY <1>1, <1>2

\* Where mv puts the node, and under which name.
MvDir(to) == IF ramfs_resolve(to) # NULL THEN ramfs_resolve(to) ELSE split_parent(to)
MvName(from, to) ==
    IF ramfs_resolve(to) # NULL THEN nodes[ramfs_resolve(from)].name ELSE Last(to.comps)

\* Where there is nothing, the last component is a name.
LEMMA MvTarget ==
    ASSUME IInv, cwd \in DOMAIN nodes, NEW from \in Paths, NEW to \in Paths,
           ramfs_resolve(from) # NULL, MvDir(to) # NULL
    PROVE  /\ ramfs_resolve(from) \in DOMAIN nodes /\ MvDir(to) \in DOMAIN nodes
           /\ \/ MvName(from, to) = nodes[ramfs_resolve(from)].name
              \/ /\ MvName(from, to) \in Names \cup Long
                 /\ to.comps # <<>> /\ MvName(from, to) = Last(to.comps)
<1> DEFINE dst == ramfs_resolve(to)
           c == Containing(to)
           name == Last(to.comps)
<1>1. Shape(nodes) /\ from \in AnyPath /\ to \in AnyPath BY PathsAre DEF IInv
<1>2. ramfs_resolve(from) \in DOMAIN nodes /\ dst \in DOMAIN nodes \cup {NULL}
  BY <1>1, Resolve
<1>3. CASE dst # NULL BY <1>2, <1>3 DEF MvDir, MvName
<1>4. CASE dst = NULL
  <2>1. MvDir(to) = c /\ MvName(from, to) = name BY <1>4 DEF MvDir, MvName, split_parent
  <2>2. to.comps # <<>> BY <1>1, <1>4, Resolve
  <2>3. c \in DOMAIN nodes \cup {NULL} /\ dst = WalkStep(c, name) BY <1>1, <2>2, Resolve
  <2>4. c \in DOMAIN nodes BY <2>1, <2>3
  <2>5. name # "." /\ name # ".."
    <3>1. NULL \notin DOMAIN nodes /\ "." \notin Long /\ ".." \notin Long
      BY <1>1, RamfsAssumption DEF Shape, NodesOK
    <3>2. nodes[c].parent \in DOMAIN nodes \cup {NULL}
      BY <1>1, <2>4 DEF Shape, NodesOK, ParentClosed
    <3>3. WalkStep(c, ".") = c BY <2>4, <3>1 DEF WalkStep
    <3>4. WalkStep(c, "..") # NULL BY <2>4, <3>1, <3>2 DEF WalkStep
    <3> HIDE DEF c, name, dst
    <3> QED BY <1>4, <2>3, <2>4, <3>1, <3>3, <3>4
  <2>6. name \in Component
    <3>1. to.comps \in Seq(Component) BY RamfsAssumption DEF Path
    <3>2. Len(to.comps) \in 1 .. Len(to.comps) BY <2>2, <3>1, EmptySeq
    <3>3. to.comps[Len(to.comps)] \in Component BY <3>1, <3>2, ElementOfSeq
    <3> QED BY <3>3 DEF Last
  <2>7. name \in Names \cup Long BY <2>5, <2>6 DEF Component
  <2> QED BY <1>2, <2>1, <2>2, <2>4, <2>7
<1> QED BY <1>3, <1>4

LEMMA MvStep ==
    ASSUME IInv, NEW from \in Paths, NEW to \in Paths, cmd_mv(from, to)
    PROVE  IInv'
<1> DEFINE src  == ramfs_resolve(from)
           dst  == ramfs_resolve(to)
           dir  == IF dst # NULL THEN dst ELSE split_parent(to)
           name == IF dst # NULL THEN nodes[src].name ELSE Last(to.comps)
           cut  == strlcpy(name, RAMFS_NAME_MAX)
<1>1. Running BY DEF cmd_mv
<1>2. job = NULL /\ cwd \in DOMAIN nodes /\ from \in AnyPath /\ to \in AnyPath
  BY <1>1, PathsAre DEF Running
<1>3. Shape(nodes) BY DEF IInv
<1>4. src \in DOMAIN nodes \cup {NULL} /\ dst \in DOMAIN nodes \cup {NULL} BY <1>2, <1>3, Resolve
<1>5. CASE Fail BY <1>5, Fails
<1>6. CASE /\ src # NULL /\ dir # NULL /\ Movable(src, dir, name)
           /\ ramfs_move(src, dir, name) /\ Done /\ UNCHANGED <<bufs, cwd, job>>
  <2>1. src \in DOMAIN nodes BY <1>4, <1>6
  <2>2. dir \in DOMAIN nodes /\ cut \in NodeName
    <3>1. /\ dir \in DOMAIN nodes
          /\ \/ name = nodes[src].name
             \/ name \in Names \cup Long /\ to.comps # <<>> /\ name = Last(to.comps)
      BY <1>2, <1>6, MvTarget DEF MvDir, MvName
    <3>2. nodes[src] \in Node BY <1>3, <2>1 DEF Shape, NodesOK
    <3>3. nodes[src].name \in NodeName BY <3>2 DEF Node, NodeName
    <3>4. name \in Names \cup Long \cup {NoName}
      <4> HIDE DEF name, src, dir
      <4> QED BY <3>1, <3>3 DEF NodeName
    <3> HIDE DEF name, src, dir
    <3> QED BY <3>1, <3>4, NameCut
  <2>3. src # root /\ nodes[dir].type = "dir" /\ src \notin Ancestors(dir)
    BY <1>6 DEF Movable
  <2>4. nodes' = attach(Renamed(detach(nodes, src), src, cut), dir, src)
    BY <1>6 DEF ramfs_move, Renamed
  <2> HIDE DEF src, dst, dir, name, cut
  <2>5. /\ Shape(nodes') /\ DOMAIN nodes' = DOMAIN nodes
        /\ \A m \in DOMAIN nodes' : SameFile(nodes'[m], nodes[m])
    BY <1>3, <2>1, <2>2, <2>3, <2>4, MoveShape
  <2>6. Store(nodes', bufs, Held(cap))
    <3>1. Store(nodes, bufs, Held(cap)) BY DEF IInv
    <3>2. DOMAIN bufs \cap DOMAIN nodes' = {} BY <2>5, <3>1 DEF Store
    <3> QED BY <2>5, <3>1, <3>2, StoreRelinked
  <2>7. Return(<<>>) /\ UNCHANGED <<bufs, cwd, job>> BY <1>6 DEF Done
  <2>8. ShellOK(cap', pc') /\ Held(cap') = Held(cap) BY <2>7, ErrIsData, ReturnIs DEF IInv
  <2>9. JobOK(job', nodes') /\ cwd' \in Ptrs BY <1>2, <2>7 DEF JobOK, IInv
  <2>10. Store(nodes', bufs', Held(cap')) BY <2>6, <2>7, <2>8
  <2> QED BY <2>5, <2>8, <2>9, <2>10 DEF IInv
<1> QED BY <1>5, <1>6 DEF cmd_mv

\* OpenAndWrite() when it does not fail.
Opened(path, text, append) ==
    \/ /\ IsFile(ramfs_resolve(path))
       /\ job' = [file |-> ramfs_resolve(path), text |-> text, append |-> append]
       /\ UNCHANGED <<nodes, bufs, cwd, cap, pc>>
    \/ \E p \in kmalloc(1) :
         /\ Creatable(path) /\ p # NULL /\ ramfs_create(path, "file", p)
         /\ job' = [file |-> p, text |-> text, append |-> append]
         /\ UNCHANGED <<bufs, cwd, cap, pc>>

LEMMA OpenStep ==
    ASSUME IInv, cwd \in DOMAIN nodes, NEW path \in AnyPath, NEW text \in Seq(Data),
           NEW append \in BOOLEAN, Opened(path, text, append)
    PROVE  IInv'
<1>1. CASE /\ IsFile(ramfs_resolve(path))
           /\ job' = [file |-> ramfs_resolve(path), text |-> text, append |-> append]
           /\ UNCHANGED <<nodes, bufs, cwd, cap, pc>>
  <2> DEFINE f == ramfs_resolve(path)
  <2>1. f \in DOMAIN nodes \cup {NULL} BY Resolve DEF IInv
  <2>2. f \in DOMAIN nodes /\ nodes[f].type = "file" BY <1>1, <2>1 DEF IsFile
  <2>3. job' = [file |-> f, text |-> text, append |-> append] BY <1>1
  <2> HIDE DEF f
  <2>4. job' \in Job(nodes) /\ job'.file = f BY <2>2, <2>3 DEF Job
  <2>5. JobOK(job', nodes') BY <1>1, <2>2, <2>4 DEF JobOK
  <2> QED BY <1>1, <2>5 DEF IInv
<1>2. ASSUME NEW p \in kmalloc(1), Creatable(path), p # NULL, ramfs_create(path, "file", p),
             job' = [file |-> p, text |-> text, append |-> append],
             UNCHANGED <<bufs, cwd, cap, pc>>
      PROVE  IInv'
  <2>1. /\ Shape(nodes') /\ Created(nodes', nodes, p, "file")
        /\ Store(nodes', bufs, Held(cap))
    BY <1>2, CreateStep
  <2>2. p \in DOMAIN nodes' /\ nodes'[p].type = "file" BY <2>1 DEF Created
  <2>3. job' \in Job(nodes') /\ job'.file = p BY <1>2, <2>2 DEF Job
  <2>4. JobOK(job', nodes') BY <2>2, <2>3 DEF JobOK
  <2> QED BY <1>2, <2>1, <2>4 DEF IInv
<1> QED BY <1>1, <1>2 DEF Opened

\* Where cp writes.
CpTo(from, to) ==
    IF ramfs_resolve(to) # NULL /\ ~IsFile(ramfs_resolve(to))
    THEN Extended(to, nodes[ramfs_resolve(from)].name) ELSE to

\* A path with a name behind it is a path: it fits as it is, or ends at a
\* beginning of the name that is not the name, or in front of it.
Extends(q, name, e) ==
    LET l == q.len + 1 + Len(Spelled[name]) IN
    /\ e \in AnyPath /\ e.abs = (q.abs \/ q.len = 0)
    /\ l < RAMFS_PATH_MAX => e.comps = Append(q.comps, name) /\ e.len = l
    /\ l >= RAMFS_PATH_MAX => /\ e.len = RAMFS_PATH_MAX - 1
                             /\ \/ e.comps = q.comps
                                \/ \E x \in Component \ {name} : e.comps = Append(q.comps, x)

LEMMA ExtendedIsPath ==
    ASSUME NEW q \in AnyPath, NEW name \in NodeName
    PROVE  /\ Extended(q, name) \in AnyPath
           /\ name \in Names /\ q.len < RAMFS_PATH_MAX => Extends(q, name, Extended(q, name))
<1> DEFINE w == Len(Spelled[name])
           l == q.len
           c == q.comps
           room == RAMFS_PATH_MAX - 1 - l
           kept == Min({w, room - 1})
           x == Spelled[name][kept]
           a == q.abs \/ q.len = 0
           b == q.slash \/ room > 0
           i == Min({l + 1, RAMFS_PATH_MAX - 1})
           X == Component \cup {NoName}
           M == RAMFS_PATH_MAX
<1>1. l \in Nat /\ c \in Seq(X) /\ a \in BOOLEAN /\ b \in BOOLEAN /\ M \in Nat /\ M >= 2
  BY RoomAssumption DEF AnyPath
<1>2. Spelled[name] \in Seq(Component) /\ w \in Nat
  <2>1. name \in Names \cup Long \cup {NoName} BY DEF NodeName
  <2>2. Spelled[name] \in Seq(Component) BY <2>1, SpellingAssumption
  <2> QED BY <2>2
<1>3. room \in Int /\ room = M - 1 - l BY <1>1
<1> HIDE DEF M, room
<1>4. kept = IF w <= room - 1 THEN w ELSE room - 1
  <2>1. w \in Int /\ room - 1 \in Int BY <1>2, <1>3
  <2> HIDE DEF w
  <2> QED BY <2>1, MinOf
<1>5. i \in Nat /\ i = IF l + 1 <= M - 1 THEN l + 1 ELSE M - 1
  <2>1. l + 1 \in Int /\ RAMFS_PATH_MAX - 1 \in Int /\ M = RAMFS_PATH_MAX BY <1>1 DEF M
  <2> HIDE DEF l
  <2>2. i = IF l + 1 <= RAMFS_PATH_MAX - 1 THEN l + 1 ELSE RAMFS_PATH_MAX - 1 BY <2>1, MinOf
  <2> QED BY <1>1, <2>1, <2>2
<1>6. Extended(q, name) = IF kept > 0
                          THEN [abs |-> a, comps |-> Append(c, strlcpy(name, room)), slash |-> FALSE,
                                len |-> l + 1 + kept]
                          ELSE [abs |-> a, comps |-> c, slash |-> b, len |-> i]
  BY DEF Extended, room
<1> HIDE DEF l, c, kept, a, b, i, w
<1>7. CASE kept > 0
  <2>1. kept \in 1 .. w /\ name # NoName
    <3>1. kept \in 1 .. w BY <1>2, <1>3, <1>4, <1>7
    <3>2. name = NoName => w = 0 BY SpellingAssumption DEF w
    <3> QED BY <1>2, <3>1, <3>2
  <2>2. strlcpy(name, room) = x BY <2>1 DEF strlcpy, w, kept
  <2>3. x \in Component BY <1>2, <2>1, ElementOfSeq DEF w
  <2> DEFINE d == Append(c, x)
             e == [abs |-> a, comps |-> d, slash |-> FALSE, len |-> l + 1 + kept]
  <2>4. Extended(q, name) = e BY <1>6, <1>7, <2>2
  <2>5. d \in Seq(X)
    <3>1. x \in X BY <2>3
    <3> HIDE DEF x, X
    <3> QED BY <1>1, <3>1, AppendProperties
  <2>6. l + 1 + kept \in Nat BY <1>1, <1>2, <2>1
  <2> HIDE DEF d, x
  <2>7. e \in AnyPath BY <1>1, <2>5, <2>6 DEF AnyPath
  <2>8. ASSUME name \in Names, l < M PROVE Extends(q, name, e)
    <3>1. \A k \in 1 .. w : Spelled[name][k] = name <=> k = w BY <2>8, SpellingIs DEF w
    <3>2. x = name <=> kept = w BY <2>1, <3>1 DEF x
    <3>3. l + 1 + w < M <=> kept = w BY <1>1, <1>2, <1>3, <1>4, <2>1
    <3>4. kept # w => l + 1 + kept = M - 1 BY <1>1, <1>2, <1>3, <1>4
    <3>5. e.abs = a /\ e.comps = Append(c, x) /\ e.len = l + 1 + kept BY DEF d
    <3> HIDE DEF e
    <3>6. l + 1 + w < M => e.comps = Append(c, name) /\ e.len = l + 1 + w BY <3>2, <3>3, <3>5
    <3>7. l + 1 + w >= M => e.len = M - 1 /\ x \in Component \ {name} /\ e.comps = Append(c, x)
      <4>1. l + 1 + w >= M => kept # w BY <1>1, <1>2, <3>3
      <4> QED BY <2>3, <3>2, <3>4, <3>5, <4>1
    <3> QED BY <2>7, <3>5, <3>6, <3>7 DEF Extends, w, l, c, a, M
  <2> HIDE DEF e
  <2> QED BY <2>4, <2>7, <2>8 DEF l, M
<1>8. CASE ~(kept > 0)
  <2> DEFINE e == [abs |-> a, comps |-> c, slash |-> b, len |-> i]
  <2>1. Extended(q, name) = e BY <1>6, <1>8
  <2>2. e \in AnyPath BY <1>1, <1>5 DEF AnyPath
  <2>3. ASSUME name \in Names, l < M PROVE Extends(q, name, e)
    <3>1. w > 0
      <4>1. w \in Nat \ {0} BY <2>3, SpellingIs DEF w
      <4> QED BY <4>1
    <3>2. l + 1 + w >= M /\ i = M - 1 BY <1>1, <1>2, <1>3, <1>4, <1>5, <1>8, <2>3, <3>1
    <3>3. ~(l + 1 + w < M) BY <1>1, <1>2, <3>2
    <3>4. e.abs = a /\ e.comps = c /\ e.len = i OBVIOUS
    <3> HIDE DEF e
    <3> QED BY <2>2, <3>2, <3>3, <3>4 DEF Extends, w, l, c, a, M
  <2> HIDE DEF e
  <2> QED BY <2>1, <2>2, <2>3 DEF l, M
<1> QED BY <1>7, <1>8

LEMMA CpPath ==
    ASSUME Shape(nodes), NEW from, NEW to \in AnyPath, ramfs_resolve(from) \in DOMAIN nodes
    PROVE  CpTo(from, to) \in AnyPath
<1> DEFINE name == nodes[ramfs_resolve(from)].name
<1>1. nodes[ramfs_resolve(from)] \in Node BY DEF Shape, NodesOK
<1>2. name \in NodeName BY <1>1 DEF Node, NodeName
<1>3. Extended(to, name) \in AnyPath
  <2> HIDE DEF name
  <2> QED BY <1>2, ExtendedIsPath
<1> QED BY <1>3 DEF CpTo

LEMMA CpStep ==
    ASSUME IInv, NEW from \in Paths, NEW to \in Paths, cmd_cp(from, to)
    PROVE  IInv'
<1> DEFINE src  == ramfs_resolve(from)
           dst  == ramfs_resolve(to)
           path == IF dst # NULL /\ ~IsFile(dst)
                   THEN Extended(to, nodes[src].name) ELSE to
<1>1. Running BY DEF cmd_cp
<1>2. cwd \in DOMAIN nodes /\ from \in AnyPath /\ to \in AnyPath BY <1>1, PathsAre DEF Running
<1>3. Shape(nodes) BY DEF IInv
<1>4. CASE Fail BY <1>4, Fails
<1>5. CASE IsFile(src) /\ OpenAndWrite(path, Contents(src), FALSE, Fail)
  <2>1. src \in DOMAIN nodes
    <3>1. src \in DOMAIN nodes \cup {NULL} BY <1>2, <1>3, Resolve
    <3> QED BY <1>5, <3>1 DEF IsFile
  <2>2. path \in AnyPath BY <1>2, <1>3, <2>1, CpPath DEF CpTo
  <2>3. Contents(src) \in Seq(Data) BY <1>3, <2>1, ContentsData DEF IInv
  <2> HIDE DEF src, dst, path
  <2>4. CASE Opened(path, Contents(src), FALSE) BY <1>2, <2>2, <2>3, <2>4, OpenStep
  <2>5. CASE Fail BY <2>5, Fails
  <2> QED BY <1>5, <2>4, <2>5 DEF OpenAndWrite, Opened
<1> QED BY <1>4, <1>5 DEF cmd_cp

LEMMA ReleaseStep ==
    ASSUME ShellOK(cap, pc), pc # "prompt", NEW nds, NEW bfs, Store(nds, bfs, Held(cap))
    PROVE  /\ Store(nds, Without(bfs, {cap.buf}), Held(NULL)) /\ ShellOK(NULL, "prompt")
           /\ \A n \in DOMAIN nds : ContentsOf(nds, Without(bfs, {cap.buf}), n)
                                      = ContentsOf(nds, bfs, n)
<1>1. Held(cap) = {cap.buf} /\ Held(NULL) = {} BY DEF ShellOK, Held
<1> DEFINE p == cap.buf
           nb == Without(bfs, {p})
<1>2. /\ Store(nds, nb, {})
      /\ \A n \in Files(nds) : nb[nds[n].data] = bfs[nds[n].data]
  BY <1>1, StoreReleased
<1> HIDE DEF nb
<1>3. \A n \in DOMAIN nds : ContentsOf(nds, nb, n) = ContentsOf(nds, bfs, n)
  BY <1>2 DEF ContentsOf, Files
<1>4. ShellOK(NULL, "prompt") BY DEF ShellOK
<1> QED BY <1>1, <1>2, <1>3, <1>4 DEF nb

LEMMA RedirectStep ==
    ASSUME IInv, redirect_to_file
    PROVE  IInv'
<1>1. pc = "redirect" /\ job = NULL /\ cwd \in DOMAIN nodes
      /\ OpenAndWrite(cap.path, cap.text, cap.append, NoTarget)
  BY DEF redirect_to_file
<1>2. cap # NULL /\ cap \in Capture BY <1>1 DEF IInv, ShellOK
<1>3. cap.path \in AnyPath /\ cap.text \in Seq(Data) /\ cap.append \in BOOLEAN
  BY <1>2, PathsAre DEF Capture
<1>4. CASE Opened(cap.path, cap.text, cap.append) BY <1>1, <1>3, <1>4, OpenStep
<1>5. CASE NoTarget
  <2>1. /\ bufs' = Without(bufs, {cap.buf}) /\ cap' = NULL /\ pc' = "prompt"
        /\ UNCHANGED <<nodes, cwd, job>>
    BY <1>5 DEF NoTarget
  <2>2. Store(nodes, bufs', Held(NULL)) /\ ShellOK(NULL, "prompt")
    BY <1>1, <2>1, ReleaseStep DEF IInv
  <2> QED BY <2>1, <2>2 DEF IInv
<1> QED BY <1>1, <1>4, <1>5 DEF OpenAndWrite, Opened

LEMMA ExecuteStep ==
    ASSUME IInv, NEW path \in Paths, NEW append \in BOOLEAN, execute(path, append)
    PROVE  IInv'
<1>1. CASE UNCHANGED vars BY <1>1 DEF vars, IInv
<1>2. ASSUME NEW p \in kmalloc(CAPTURE_MAX), p # NULL, pc = "prompt",
             bufs' = With(bufs, p, <<>>),
             cap' = [buf |-> p, path |-> path, append |-> append, text |-> <<>>],
             pc' = "run", UNCHANGED <<nodes, cwd, job>>
      PROVE  IInv'
  <2>1. p \in Ptrs /\ p \notin DOMAIN nodes /\ p \notin DOMAIN bufs BY <1>2, FreshPtr
  <2>2. Held(cap) = {} BY <1>2 DEF IInv, ShellOK, Held
  <2>3. Store(nodes, bufs', {p}) BY <1>2, <2>1, <2>2, StoreHeld DEF IInv
  <2>4. cap' \in Capture /\ cap'.buf = p
    <3>1. <<>> \in Seq(Data) BY ErrIsData
    <3> QED BY <1>2, <2>1, <3>1 DEF Capture
  <2>5. cap' # NULL BY <2>4, RamfsAssumption
  <2>6. Held(cap') = {p} /\ ShellOK(cap', pc') BY <1>2, <2>4, <2>5 DEF Held, ShellOK
  <2> QED BY <1>2, <2>3, <2>6 DEF IInv
<1> QED BY <1>1, <1>2 DEF execute

\* After the write: back in the command, or the end of the redirection.
LEMMA WrittenStep ==
    ASSUME ShellOK(cap, pc), cwd \in Ptrs, NEW nds, NEW bfs, Shape(nds),
           Store(nds, bfs, Held(cap)), NEW text \in Seq(Data), Written(nds, bfs, text)
    PROVE  /\ IInv' /\ nodes' = nds
           /\ \A n \in DOMAIN nds : ContentsOf(nodes', bufs', n) = ContentsOf(nds, bfs, n)
<1>1. nodes' = nds /\ job' = NULL /\ cwd' = cwd BY DEF Written
<1>2. JobOK(job', nodes') BY <1>1 DEF JobOK
<1>3. CASE pc = "redirect"
  <2>1. bufs' = Without(bfs, {cap.buf}) /\ cap' = NULL /\ pc' = "prompt" BY <1>3 DEF Written
  <2>2. /\ Store(nds, bufs', Held(NULL)) /\ ShellOK(NULL, "prompt")
        /\ \A n \in DOMAIN nds : ContentsOf(nds, bufs', n) = ContentsOf(nds, bfs, n)
    BY <1>3, <2>1, ReleaseStep
  <2> QED BY <1>1, <1>2, <2>1, <2>2 DEF IInv
<1>4. CASE pc # "redirect"
  <2>1. bufs' = bfs /\ Return(text) BY <1>4 DEF Written
  <2>2. ShellOK(cap', pc') /\ Held(cap') = Held(cap) BY <2>1, ReturnIs
  <2> QED BY <1>1, <1>2, <2>1, <2>2 DEF IInv
<1> QED BY <1>3, <1>4

\* What the write did to the contents of n.
WriteEffect(n) ==
    LET kept == IF job.append THEN Contents(n) ELSE <<>>
    IN  \/ n = job.file /\ Contents(n)' = kept \o job.text
        \/ n = job.file /\ Len(kept \o job.text) > nodes[n].capacity
                        /\ Contents(n)' = Contents(n)
        \/ n # job.file /\ Contents(n)' = Contents(n)

LEMMA WriteStep ==
    ASSUME IInv, ramfs_write
    PROVE  IInv' /\ SameLinks(nodes', nodes) /\ \A n \in DOMAIN nodes : WriteEffect(n)
<1> DEFINE file   == job.file
           text   == job.text
           append == job.append
           f      == nodes[file]
           old    == IF f.data = NULL THEN <<>> ELSE bufs[f.data]
           base   == IF append THEN f.size ELSE 0
           kept   == IF append THEN ContentsOf(nodes, bufs, file) ELSE <<>>
           needed == base + Len(text)
           newcap == Grown(f.capacity, needed)
<1>1. job # NULL BY DEF ramfs_write
<1>2. job \in Job(nodes) /\ f.type = "file" BY <1>1 DEF IInv, JobOK
<1>3. file \in DOMAIN nodes /\ text \in Seq(Data) /\ append \in BOOLEAN BY <1>2 DEF Job
<1>4. /\ nodes \in [DOMAIN nodes -> Node] /\ Shape(nodes) /\ Store(nodes, bufs, Held(cap))
      /\ ShellOK(cap, pc) /\ cwd \in Ptrs
  BY DEF IInv, Shape, NodesOK
<1>5. NULL \notin Ptrs BY RamfsAssumption
<1>6. old = OldBuffer(nodes, bufs, file) BY DEF OldBuffer
<1>7. /\ \A n \in DOMAIN nodes : Contents(n) = ContentsOf(nodes, bufs, n)
      /\ \A n : Contents(n)' = ContentsOf(nodes', bufs', n)
  BY DEF Contents, ContentsOf
<1> DEFINE new1 == [nodes EXCEPT ![file].size = needed]
           nb1  == IF f.data = NULL THEN bufs
                   ELSE [bufs EXCEPT ![f.data] = CopyIn(old, base, text)]
           new2(p) == Resized(nodes, file, p, needed, newcap)
           nb2(p)  == With(Without(bufs, {f.data}), p,
                           CopyIn(Moved(old, base, newcap), base, text))
<1>8. \/ needed <= f.capacity /\ Written(new1, nb1, <<>>)
      \/ ~(needed <= f.capacity) /\ Written(nodes, bufs, <<ErrMsg, NL>>)
      \/ \E p \in kmalloc(newcap) : p # NULL /\ Written(new2(p), nb2(p), <<>>)
  BY DEF ramfs_write, Resized
<1>9. ASSUME NEW new, NEW nb, Wrote(nodes, bufs, Held(cap), file, kept, text, new, nb),
             Written(new, nb, <<>>)
      PROVE  IInv' /\ SameLinks(nodes', nodes) /\ \A n \in DOMAIN nodes : WriteEffect(n)
  <2> HIDE DEF f, old, base, needed, newcap, new1, nb1, new2, nb2
  <2>1. /\ SameLinks(new, nodes) /\ Store(new, nb, Held(cap))
        /\ ContentsOf(new, nb, file) = kept \o text
        /\ \A n \in DOMAIN nodes : n # file => ContentsOf(new, nb, n) = ContentsOf(nodes, bufs, n)
    BY <1>9 DEF Wrote
  <2>2. Shape(new) /\ DOMAIN new = DOMAIN nodes BY <1>4, <2>1, ShapeKept DEF SameLinks
  <2>3. /\ IInv' /\ nodes' = new
        /\ \A n \in DOMAIN new : ContentsOf(nodes', bufs', n) = ContentsOf(new, nb, n)
    BY <1>4, <1>9, <2>1, <2>2, ErrIsData, WrittenStep
  <2>4. ASSUME NEW n \in DOMAIN nodes PROVE WriteEffect(n)
    <3>1. CASE n = file
      <4>1. Contents(n)' = kept \o text BY <1>7, <2>1, <2>2, <2>3, <3>1
      <4>2. kept = IF job.append THEN Contents(n) ELSE <<>> BY <1>7, <3>1
      <4> HIDE DEF kept
      <4> QED BY <3>1, <4>1, <4>2 DEF WriteEffect
    <3>2. CASE n # file
      <4>1. Contents(n)' = Contents(n) BY <1>7, <2>1, <2>2, <2>3, <3>2
      <4> QED BY <3>2, <4>1 DEF WriteEffect
    <3> QED BY <3>1, <3>2
  <2> QED BY <2>1, <2>3, <2>4
<1>10. CASE needed <= f.capacity /\ Written(new1, nb1, <<>>)
  <2> DEFINE held == Held(cap)
  <2> HIDE DEF held
  <2>1. Wrote(nodes, bufs, held, file, kept, text, new1, nb1)
    <3>1. nb1 = IF nodes[file].data = NULL THEN bufs
                ELSE [bufs EXCEPT ![nodes[file].data] =
                        CopyIn(OldBuffer(nodes, bufs, file), base, text)]
      BY <1>6
    <3>2. Store(nodes, bufs, held) BY <1>4 DEF held
    <3>3. /\ base = IF append THEN nodes[file].size ELSE 0
          /\ kept = IF append THEN ContentsOf(nodes, bufs, file) ELSE <<>>
          /\ needed = base + Len(text) /\ needed <= nodes[file].capacity
          /\ new1 = [nodes EXCEPT ![file].size = needed]
          /\ nodes[file].type = "file"
      BY <1>2, <1>10
    <3> HIDE DEF file, text, append, f, old, base, kept, needed, newcap, new1, nb1
    <3> QED BY <1>3, <1>4, <1>5, <3>1, <3>2, <3>3, WriteFits
  <2> HIDE DEF new1, nb1, kept, text, file
  <2> QED BY <1>9, <1>10, <2>1 DEF held
<1>11. CASE ~(needed <= f.capacity) /\ Written(nodes, bufs, <<ErrMsg, NL>>)
  <2>1. /\ IInv' /\ nodes' = nodes
        /\ \A n \in DOMAIN nodes : ContentsOf(nodes', bufs', n) = ContentsOf(nodes, bufs, n)
    BY <1>4, <1>11, ErrIsData, WrittenStep
  <2>2. \A n \in DOMAIN nodes : Contents(n)' = Contents(n) BY <1>7, <2>1
  <2>3. Len(kept \o text) > f.capacity
    <3>1. kept \in Seq(Byte) /\ Len(kept) = base /\ base \in Nat /\ f.capacity \in Nat
      <4> HIDE DEF file, text, append, old, newcap, needed
      <4> QED BY <1>3, <1>4, OldBufferIs
    <3>2. text \in Seq(Byte) /\ Len(text) \in Nat BY <1>3, DataIsByte
    <3> HIDE DEF kept, text, base, f
    <3>3. Len(kept \o text) = base + Len(text) BY <3>1, <3>2, ConcatProperties
    <3> QED BY <1>11, <3>1, <3>2, <3>3
  <2>4. ASSUME NEW n \in DOMAIN nodes PROVE WriteEffect(n)
    <3>1. CASE n = file
      <4>1. kept = IF job.append THEN Contents(n) ELSE <<>> BY <1>7, <3>1
      <4>2. Len(kept \o job.text) > nodes[n].capacity BY <2>3, <3>1
      <4> HIDE DEF kept
      <4> QED BY <2>2, <3>1, <4>1, <4>2 DEF WriteEffect
    <3>2. CASE n # file BY <2>2, <3>2 DEF WriteEffect
    <3> QED BY <3>1, <3>2
  <2>5. SameLinks(nodes, nodes) BY <1>4 DEF SameLinks, SamePlace
  <2> QED BY <2>1, <2>4, <2>5
<1>12. ASSUME NEW p \in kmalloc(newcap), p # NULL, Written(new2(p), nb2(p), <<>>)
       PROVE  IInv' /\ SameLinks(nodes', nodes) /\ \A n \in DOMAIN nodes : WriteEffect(n)
  <2> DEFINE held == Held(cap)
             new == new2(p)
             nb == nb2(p)
  <2> HIDE DEF held
  <2>1. Wrote(nodes, bufs, held, file, kept, text, new, nb)
    <3>1. nb = With(Without(bufs, {nodes[file].data}), p,
                    CopyIn(Moved(OldBuffer(nodes, bufs, file), base, newcap), base, text))
      BY <1>6
    <3>2. Store(nodes, bufs, held) BY <1>4 DEF held
    <3>3. p \in Ptrs /\ p \notin DOMAIN nodes /\ p \notin DOMAIN bufs
      <4> HIDE DEF newcap
      <4> QED BY <1>12, FreshPtr
    <3>4. f.capacity \in Nat /\ needed \in Nat
      <4>1. base \in Nat /\ f.capacity \in Nat
        <5> HIDE DEF file, text, append, old, newcap, needed
        <5> QED BY <1>3, <1>4, OldBufferIs
      <4> HIDE DEF base
      <4> QED BY <1>3, <4>1
    <3>5. newcap \in Nat \ {0} /\ needed <= newcap
      <4>1. Grown(f.capacity, needed) \in Nat \ {0} /\ Grown(f.capacity, needed) >= needed
        <5> HIDE DEF needed, f
        <5> QED BY <3>4, GrownIs
      <4> HIDE DEF needed, f
      <4> QED BY <3>4, <4>1
    <3>6. /\ base = IF append THEN nodes[file].size ELSE 0
          /\ kept = IF append THEN ContentsOf(nodes, bufs, file) ELSE <<>>
          /\ needed = base + Len(text)
          /\ new = Resized(nodes, file, p, needed, newcap)
          /\ nodes[file].type = "file"
      BY <1>2
    <3> HIDE DEF file, text, append, f, old, base, kept, needed, newcap, new, nb
    <3> QED BY <1>3, <1>4, <1>5, <3>1, <3>2, <3>3, <3>5, <3>6, WriteGrows
  <2>2. Written(new, nb, <<>>) BY <1>12
  <2> HIDE DEF new, nb, kept, text, file
  <2> QED BY <1>9, <2>1, <2>2 DEF held
<1> HIDE DEF new1, nb1, new2, nb2, newcap, needed, f
<1> QED BY <1>8, <1>10, <1>11, <1>12

-----------------------------------------------------------------------------
(* Theorems.                                                                *)

LEMMA InitInv == Init => IInv
<1> SUFFICES ASSUME Init PROVE IInv OBVIOUS
<1>1. PICK f \in [1 .. Len(PreDirs) -> Ptrs \ {root}] :
        /\ IsInjective(f)
        /\ nodes = (CHOOSE g : Makes(f, Indices(f), g))[DOMAIN Indices(f)]
  BY InitMakes
<1>2. Shape(nodes) /\ Bare(nodes) BY <1>1, InitShape
<1>3. bufs = <<>> /\ cwd = root /\ job = NULL /\ cap = NULL /\ pc = "prompt" BY DEF Init
<1>4. DOMAIN bufs = {} BY <1>3
<1>5. Files(nodes) = {} BY <1>2 DEF Bare, Files
<1>6. Held(cap) = {} BY <1>3 DEF Held
<1>7. OwnedBy(nodes, bufs, Held(cap)) BY <1>4, <1>5, <1>6 DEF OwnedBy
<1>8. \A n \in DOMAIN nodes : BufOK(nodes, bufs, n) BY <1>2 DEF Bare, BufOK
<1>9. Store(nodes, bufs, Held(cap)) BY <1>4, <1>7, <1>8 DEF Store
<1>10. ShellOK(cap, pc) /\ JobOK(job, nodes) BY <1>3 DEF ShellOK, JobOK
<1>11. cwd \in Ptrs BY <1>3, RamfsAssumption
<1> QED BY <1>2, <1>9, <1>10, <1>11 DEF IInv

LEMMA NextInv == IInv /\ [Next]_vars => IInv'
<1> SUFFICES ASSUME IInv, [Next]_vars PROVE IInv' OBVIOUS
<1>1. ASSUME NEW text \in Texts, cmd_echo(text) PROVE IInv'
  <2>1. text \in Seq(Data) BY RamfsAssumption
  <2>2. Return(text) /\ UNCHANGED <<nodes, bufs, job>> /\ cwd' \in Ptrs
    BY <1>1 DEF cmd_echo, IInv
  <2> QED BY <2>1, <2>2, Prints
<1>2. ASSUME NEW path \in Paths, cmd_cat(path) PROVE IInv'
  <2> DEFINE f == ramfs_resolve(path)
             c == Contents(f)
             shown == IF c # <<>> /\ Last(c) # NL THEN Append(c, NL) ELSE c
  <2>1. Running /\ cwd \in DOMAIN nodes /\ path \in AnyPath BY <1>2, PathsAre DEF cmd_cat, Running
  <2>2. CASE Fail BY <2>2, Fails
  <2>3. CASE IsFile(f) /\ Return(shown) /\ UNCHANGED <<nodes, bufs, cwd, job>>
    <3>1. f \in DOMAIN nodes
      <4>1. f \in DOMAIN nodes \cup {NULL} BY <2>1, Resolve DEF IInv
      <4> QED BY <2>3, <4>1 DEF IsFile
    <3>2. c \in Seq(Data) BY <3>1, ContentsData DEF IInv
    <3>3. NL \in Data BY DEF Data
    <3>4. shown \in Seq(Data)
      <4> HIDE DEF c
      <4> QED BY <3>2, <3>3, AppendProperties
    <3>5. cwd' \in Ptrs /\ UNCHANGED <<nodes, bufs, job>> BY <2>3 DEF IInv
    <3> HIDE DEF shown
    <3> QED BY <2>3, <3>4, <3>5, Prints
  <2> QED BY <1>2, <2>2, <2>3 DEF cmd_cat
<1>3. ASSUME NEW path \in Paths, cmd_cd(path) PROVE IInv'
  <2> DEFINE n == ramfs_resolve(path)
  <2>1. cwd \in DOMAIN nodes /\ path \in AnyPath BY <1>3, PathsAre DEF cmd_cd, Running
  <2>2. n \in DOMAIN nodes \cup {NULL} BY <2>1, Resolve DEF IInv
  <2>3. CASE Fail BY <2>3, Fails
  <2>4. CASE n # NULL /\ cwd' = n /\ Done /\ UNCHANGED <<nodes, bufs, job>>
    <3>1. n \in Ptrs BY <2>2, <2>4 DEF IInv, Shape, NodesOK
    <3>2. Return(<<>>) /\ cwd' \in Ptrs /\ UNCHANGED <<nodes, bufs, job>>
      BY <2>4, <3>1 DEF Done
    <3> QED BY <3>2, ErrIsData, Prints
  <2> QED BY <1>3, <2>3, <2>4 DEF cmd_cd
<1>4. ASSUME NEW path \in Paths, cmd_mkdir(path) PROVE IInv'
  BY <1>4, MakeStep DEF cmd_mkdir
<1>5. ASSUME NEW path \in Paths, cmd_touch(path) PROVE IInv'
  <2>1. CASE Done /\ UNCHANGED <<nodes, bufs, cwd, job>>
    <3>1. Return(<<>>) /\ cwd' \in Ptrs /\ UNCHANGED <<nodes, bufs, job>>
      BY <2>1 DEF Done, IInv
    <3> QED BY <3>1, ErrIsData, Prints
  <2>2. CASE Running /\ Make(path, "file") BY <2>2, MakeStep
  <2> QED BY <1>5, <2>1, <2>2 DEF cmd_touch
<1>6. CASE UNCHANGED vars BY <1>6 DEF IInv, vars
<1>7. CASE ramfs_write BY <1>7, WriteStep
<1>8. CASE Undefined BY <1>8 DEF Undefined, IInv, vars
<1> QED BY <1>1, <1>2, <1>3, <1>4, <1>5, <1>6, <1>7, <1>8, RmStep, ExecuteStep, MvStep, CpStep,
          RedirectStep DEF Next

LEMMA Inductive == Spec => []IInv
BY InitInv, NextInv, PTL DEF Spec

\* The types hold and a file's size and capacity describe its buffer, however
\* much of the heap is taken and whatever is typed.
THEOREM TypesHold == Spec => []TypeOK
<1>1. IInv => TypeOK
  <2> SUFFICES ASSUME IInv PROVE TypeOK OBVIOUS
  <2>1. /\ DOMAIN nodes \subseteq Ptrs /\ \A n \in DOMAIN nodes : nodes[n] \in Node
    BY DEF IInv, Shape, NodesOK
  <2>2. /\ DOMAIN bufs \subseteq Ptrs \ DOMAIN nodes
        /\ \A b \in DOMAIN bufs : bufs[b] \in Seq(Data \cup {Garbage})
        /\ \A n \in DOMAIN nodes : BufOK(nodes, bufs, n)
    BY DEF IInv, Store, Byte
  <2>3. cwd \in Ptrs /\ pc \in {"prompt", "run", "redirect"} /\ (cap = NULL) = (pc = "prompt")
    BY DEF IInv, ShellOK
  <2>4. job # NULL => job.file \in DOMAIN nodes /\ nodes[job.file].type = "file"
    BY DEF IInv, JobOK, Job
  <2>5. \A n \in DOMAIN nodes :
         /\ nodes[n].size <= nodes[n].capacity
         /\ (nodes[n].data = NULL) = (nodes[n].capacity = 0)
         /\ nodes[n].data # NULL => /\ nodes[n].data \in DOMAIN bufs
                                    /\ Len(bufs[nodes[n].data]) = nodes[n].capacity
    BY <2>2 DEF BufOK
  <2> QED BY <2>1, <2>2, <2>3, <2>4, <2>5 DEF TypeOK
<1> QED BY <1>1, Inductive, PTL

\* The nodes are always one tree below the root: mv cannot close a cycle, rm
\* leaves no dangling link, whatever the order of commands.
THEOREM TreeHolds == Spec => []TreeOK
<1>1. IInv => TreeOK
  <2> SUFFICES ASSUME IInv PROVE TreeOK OBVIOUS
  <2>1. Shape(nodes) BY DEF IInv
  <2>2. root \in DOMAIN nodes /\ nodes[root].parent = NULL BY <2>1 DEF Shape, NodesOK
  <2>3. ASSUME NEW n \in DOMAIN nodes
        PROVE  /\ IsInjective(nodes[n].children)
               /\ Range(nodes[n].children) = {m \in DOMAIN nodes : nodes[m].parent = n}
               /\ nodes[n].type = "file" => nodes[n].children = <<>>
               /\ nodes[n].type = "dir" => nodes[n].data = NULL
    BY <2>1 DEF Shape, LinksOK
  <2>4. ASSUME NEW n \in DOMAIN nodes PROVE root \in Ancestors(n)
    <3> DEFINE S == Ancestors(n)
    <3>1. n \in S /\ S \in SUBSET DOMAIN nodes /\ ParentClosed(nodes, S)
      BY <2>1, AncestorsClosed DEF Shape
    <3> HIDE DEF S
    <3>2. root \in S BY <2>1, <3>1 DEF Shape, Rooted
    <3> QED BY <3>2 DEF S
  <2> QED BY <2>2, <2>3, <2>4 DEF TreeOK
<1> QED BY <1>1, Inductive, PTL

\* No buffer is leaked, shared or freed while a file still has it, on any path
\* through the commands and their errors.
THEOREM BuffersOwned == Spec => []Owned
<1>1. IInv => Owned
  <2> SUFFICES ASSUME IInv PROVE Owned OBVIOUS
  <2>1. OwnedBy(nodes, bufs, Held(cap)) BY DEF IInv, Store
  <2> QED BY <2>1 DEF Owned, OwnedBy, Held, Files
<1> QED BY <1>1, Inductive, PTL

\* cat, cp and the capture never see a byte that was not written: the part of
\* a new buffer beyond the size is not read.
NoGarbage == \A n \in DOMAIN nodes : Contents(n) \in Seq(Data)

THEOREM NeverReadsGarbage == Spec => []NoGarbage
<1>1. IInv => NoGarbage
  <2> SUFFICES ASSUME IInv, NEW n \in DOMAIN nodes PROVE Contents(n) \in Seq(Data)
    BY DEF NoGarbage
  <2> QED BY ContentsData DEF IInv
<1> QED BY <1>1, Inductive, PTL

\* ramfs_write() puts exactly the text behind what it keeps, or changes
\* nothing when it gets no memory, and touches no other file.
THEOREM WritesExactly == Spec => WriteExact
<1>1. IInv /\ [Next]_vars =>
        [job # NULL /\ job' = NULL => \A n \in DOMAIN nodes : WriteEffect(n)]_vars
  <2> SUFFICES ASSUME IInv, [Next]_vars, job # NULL, job' = NULL, vars' # vars
               PROVE  \A n \in DOMAIN nodes : WriteEffect(n)
    OBVIOUS
  <2>1. Next BY DEF vars
  <2>2. ramfs_write
    BY <2>1 DEF Next, cmd_echo, cmd_cat, cmd_cd, cmd_mkdir, cmd_touch, cmd_rm, cmd_mv, cmd_cp,
              execute, redirect_to_file, Undefined, Running, vars
  <2> QED BY <2>2, WriteStep
<1>2. [job # NULL /\ job' = NULL => \A n \in DOMAIN nodes : WriteEffect(n)]_vars
      => [job # NULL /\ job' = NULL =>
            \A n \in DOMAIN nodes :
              LET kept == IF job.append THEN Contents(n) ELSE <<>>
              IN  \/ n = job.file /\ Contents(n)' = kept \o job.text
                  \/ n = job.file /\ Len(kept \o job.text) > nodes[n].capacity
                                 /\ Contents(n)' = Contents(n)
                  \/ n # job.file /\ Contents(n)' = Contents(n)]_vars
  BY DEF WriteEffect
<1> QED BY <1>1, <1>2, Inductive, PTL DEF Spec, WriteExact

-----------------------------------------------------------------------------
(* Paths.                                                                   *)

\* P gives each node of D its path: the parent's path and its own name.
PathsOn(nds, D, P) ==
    /\ P \in [D -> Seq(NodeName)]
    /\ \A n \in D : P[n] = IF n = root THEN <<>> ELSE Append(P[nds[n].parent], nds[n].name)

\* The paths of the nodes of W, a part of the tree around the root, are
\* shorter than W has nodes.
ShortPaths(nds, W, P) ==
    /\ W \in SUBSET DOMAIN nds /\ root \in W /\ ParentClosed(nds, W)
    /\ PathsOn(nds, W, P) /\ \A n \in W : Len(P[n]) < Cardinality(W)

\* Every node has a path: a largest such part is the whole tree.
LEMMA PathsExist ==
    ASSUME NEW nds, Shape(nds)
    PROVE  \E P : ShortPaths(nds, DOMAIN nds, P)
<1> DEFINE N == Cardinality(DOMAIN nds)
           R == {r \in Nat : \E W \in SUBSET DOMAIN nds :
                   (\E P : ShortPaths(nds, W, P)) /\ r = N - Cardinality(W)}
<1>1. IsFiniteSet(DOMAIN nds) /\ N \in Nat
  BY FS_Subset, FS_CardinalityType, RamfsAssumption DEF Shape, NodesOK
<1>2. \A W \in SUBSET DOMAIN nds : /\ IsFiniteSet(W) /\ Cardinality(W) \in Nat
                                   /\ N - Cardinality(W) \in Nat
  BY <1>1, FS_Subset, FS_CardinalityType
<1>3. /\ root \in DOMAIN nds /\ nds[root].parent = NULL /\ NULL \notin DOMAIN nds
      /\ nds \in [DOMAIN nds -> Node]
  BY RamfsAssumption DEF Shape, NodesOK
<1>4. R # {}
  <2> DEFINE P == [n \in {root} |-> <<>>]
  <2>1. P \in [{root} -> Seq(NodeName)] /\ P[root] = <<>> BY EmptySeq
  <2>2. PathsOn(nds, {root}, P)
    <3> HIDE DEF P
    <3> QED BY <2>1 DEF PathsOn
  <2>3. Cardinality({root}) = 1 /\ Len(P[root]) = 0 BY <2>1, FS_Singleton
  <2>4. ParentClosed(nds, {root}) BY <1>3 DEF ParentClosed
  <2> HIDE DEF P
  <2>5. ShortPaths(nds, {root}, P) BY <1>3, <2>2, <2>3, <2>4 DEF ShortPaths
  <2>6. {root} \in SUBSET DOMAIN nds BY <1>3
  <2> QED BY <1>2, <2>5, <2>6
<1>5. PICK r \in R : \A q \in R : r <= q
  <2>1. R \in SUBSET Nat OBVIOUS
  <2> HIDE DEF R
  <2> QED BY <1>4, <2>1, LeastExists
<1>6. PICK W \in SUBSET DOMAIN nds :
        (\E P : ShortPaths(nds, W, P)) /\ r = N - Cardinality(W)
  OBVIOUS
<1>7. PICK P : ShortPaths(nds, W, P) BY <1>6
<1>8. CASE W = DOMAIN nds BY <1>7, <1>8
<1>9. CASE W # DOMAIN nds
  <2> DEFINE S == DOMAIN nds \ W
  <2>1. PICK n \in S : nds[n].parent # NULL /\ nds[n].parent \notin S
    <3>1. S \in SUBSET DOMAIN nds /\ S # {} /\ root \notin S BY <1>7, <1>9 DEF ShortPaths
    <3> HIDE DEF S
    <3> QED BY <3>1 DEF Shape, Rooted, ParentClosed
  <2> DEFINE u == nds[n].parent
             name == nds[n].name
             V == W \cup {n}
             Q == [m \in V |-> IF m = n THEN Append(P[u], name) ELSE P[m]]
  <2>2. u \in W /\ n \notin W /\ n # root /\ n \in DOMAIN nds
    BY <1>7, <2>1 DEF Shape, NodesOK, ParentClosed, ShortPaths
  <2>3. name \in NodeName
    <3>1. nds[n] \in Node BY <1>3, <2>2
    <3> QED BY <3>1 DEF Node, NodeName
  <2>4. /\ P \in [W -> Seq(NodeName)] /\ P[u] \in Seq(NodeName)
        /\ \A m \in W : P[m] = IF m = root THEN <<>> ELSE Append(P[nds[m].parent], nds[m].name)
        /\ \A m \in W : Len(P[m]) \in Nat /\ Len(P[m]) < Cardinality(W)
        /\ root \in W /\ ParentClosed(nds, W)
    BY <1>7, <2>2 DEF ShortPaths, PathsOn
  <2> HIDE DEF name, u
  <2>5. Append(P[u], name) \in Seq(NodeName) /\ Len(Append(P[u], name)) = Len(P[u]) + 1
    BY <2>3, <2>4, AppendProperties
  <2>6. Cardinality(V) = Cardinality(W) + 1 /\ V \in SUBSET DOMAIN nds
    BY <1>2, <2>2, FS_AddElement
  <2>7. Q[n] = Append(P[u], name) /\ \A m \in W : Q[m] = P[m] BY <2>2
  <2>8. Q \in [V -> Seq(NodeName)] BY <2>4, <2>5
  <2> HIDE DEF Q
  <2>9. ParentClosed(nds, V) BY <2>2, <2>4 DEF ParentClosed, u
  <2>10. ASSUME NEW m \in V
         PROVE  /\ Q[m] = IF m = root THEN <<>> ELSE Append(Q[nds[m].parent], nds[m].name)
                /\ Len(Q[m]) < Cardinality(V)
    <3>1. CASE m = n
      <4>1. Q[u] = P[u] BY <2>2, <2>7
      <4>2. Q[m] = Append(Q[nds[m].parent], nds[m].name) BY <2>7, <3>1, <4>1 DEF u, name
      <4>3. Len(P[u]) \in Nat /\ Len(P[u]) < Cardinality(W) BY <2>2, <2>4
      <4>4. Len(Q[m]) = Len(P[u]) + 1 BY <2>5, <2>7, <3>1
      <4>5. Cardinality(W) \in Nat BY <1>2, FS_Subset, FS_CardinalityType
      <4>6. Len(Q[m]) < Cardinality(V)
        <5> DEFINE a == Cardinality(W)
                   b == Len(P[u])
        <5>1. a \in Nat /\ b \in Nat /\ b < a /\ Cardinality(V) = a + 1 /\ Len(Q[m]) = b + 1
          BY <2>6, <4>3, <4>4, <4>5
        <5> HIDE DEF a, b
        <5>2. b + 1 < a + 1 BY <5>1
        <5> QED BY <5>1, <5>2
      <4> QED BY <2>2, <3>1, <4>2, <4>6
    <3>2. CASE m # n
      <4>1. m \in W /\ Q[m] = P[m] BY <2>7, <3>2
      <4>2. Len(Q[m]) < Cardinality(V)
        <5>1. Len(P[m]) \in Nat /\ Len(P[m]) < Cardinality(W) BY <2>4, <4>1
        <5>2. Cardinality(W) \in Nat BY <1>2
        <5> HIDE DEF V
        <5> QED BY <2>6, <4>1, <5>1, <5>2
      <4>3. CASE m = root BY <2>4, <4>1, <4>2, <4>3
      <4>4. CASE m # root
        <5>3. nds[m].parent # NULL BY <4>1, <4>4, HasParent
        <5>1. nds[m].parent \in W BY <2>4, <4>1, <5>3 DEF ParentClosed
        <5>2. Q[nds[m].parent] = P[nds[m].parent] BY <2>7, <5>1
        <5> QED BY <2>4, <4>1, <4>2, <4>4, <5>2
      <4> QED BY <4>3, <4>4
    <3> QED BY <3>1, <3>2
  <2>11. ShortPaths(nds, V, Q)
    BY <2>4, <2>6, <2>8, <2>9, <2>10 DEF ShortPaths, PathsOn
  <2>12. N - Cardinality(V) \in R BY <1>2, <2>6, <2>11
  <2>13. r <= N - Cardinality(V)
    <3> HIDE DEF R
    <3> QED BY <1>5, <2>12
  <2> QED BY <1>1, <1>2, <1>6, <2>6, <2>13
<1> QED BY <1>8, <1>9

\* There is only one way to give them.
LEMMA PathsUnique ==
    ASSUME NEW nds, Shape(nds), NEW P, PathsOn(nds, DOMAIN nds, P),
           NEW Q, PathsOn(nds, DOMAIN nds, Q)
    PROVE  P = Q
<1> DEFINE S == {n \in DOMAIN nds : P[n] # Q[n]}
<1>1. ParentClosed(nds, S)
  <2> SUFFICES ASSUME NEW m \in S, nds[m].parent # NULL, nds[m].parent \notin S PROVE FALSE
    BY DEF ParentClosed
  <2>1. nds[m].parent \in DOMAIN nds BY DEF Shape, NodesOK, ParentClosed
  <2> QED BY <2>1 DEF PathsOn
<1>2. root \notin S BY DEF PathsOn
<1>3. S = {}
  <2>1. S \in SUBSET DOMAIN nds OBVIOUS
  <2> HIDE DEF S
  <2> QED BY <1>1, <1>2, <2>1 DEF Shape, Rooted
<1> QED BY <1>3 DEF PathsOn

\* No two nodes have the same name in the same place, and only the root has
\* none.
Titled(nds) ==
    /\ \A n \in DOMAIN nds \ {root} : nds[n].name \in Names
    /\ \A m, n \in DOMAIN nds :
         nds[m].parent = nds[n].parent /\ nds[m].name = nds[n].name => m = n

LEMMA AppendIs ==
    ASSUME NEW X, NEW s \in Seq(X), NEW e \in X
    PROVE  /\ Append(s, e) \in Seq(X) /\ Append(s, e) # <<>> /\ Len(Append(s, e)) = Len(s) + 1
           /\ Front(Append(s, e)) = s /\ Last(Append(s, e)) = e
<1>1. /\ Append(s, e) \in Seq(X) /\ Len(Append(s, e)) = Len(s) + 1
      /\ \A i \in 1 .. Len(s) : Append(s, e)[i] = s[i]
      /\ Append(s, e)[Len(s) + 1] = e
  BY AppendProperties
<1>2. Append(s, e) # <<>> BY <1>1, EmptySeq
<1> DEFINE t == Append(s, e)
<1>3. /\ Front(t) \in Seq(X) /\ DOMAIN Front(t) = 1 .. Len(t) - 1
      /\ \A i \in 1 .. Len(t) - 1 : Front(t)[i] = t[i]
  <2> HIDE DEF t
  <2>1. t \in Seq(X) /\ t # <<>> BY <1>1, <1>2 DEF t
  <2> QED BY <2>1, FrontIs
<1>4. Front(t) = s
  <2>1. Len(t) - 1 = Len(s) /\ Len(s) \in Nat BY <1>1
  <2> HIDE DEF t
  <2>2. \A i \in 1 .. Len(s) : Front(t)[i] = s[i] BY <1>1, <1>3, <2>1 DEF t
  <2>3. DOMAIN Front(t) = 1 .. Len(s) BY <1>3, <2>1
  <2>4. Front(t) = [i \in DOMAIN Front(t) |-> Front(t)[i]] BY <1>3
  <2>5. s = [i \in 1 .. Len(s) |-> s[i]] OBVIOUS
  <2> QED BY <2>2, <2>3, <2>4, <2>5
<1>5. Last(t) = e BY <1>1 DEF Last
<1> QED BY <1>1, <1>2, <1>4, <1>5

\* A path leads to one node.
LEMMA PathsDiffer ==
    ASSUME NEW nds, Shape(nds), Titled(nds), NEW P, PathsOn(nds, DOMAIN nds, P)
    PROVE  \A m, n \in DOMAIN nds : P[m] = P[n] => m = n
<1> DEFINE S == {n \in DOMAIN nds : \E m \in DOMAIN nds : m # n /\ P[m] = P[n]}
<1>1. ASSUME NEW n \in DOMAIN nds, n # root
      PROVE  /\ nds[n].parent \in DOMAIN nds /\ P[n] # <<>>
             /\ Front(P[n]) = P[nds[n].parent] /\ Last(P[n]) = nds[n].name
  <2>1. nds[n].parent \in DOMAIN nds BY <1>1, HasParent
  <2>2. nds[n].name \in NodeName
    <3>1. nds[n] \in Node BY DEF Shape, NodesOK
    <3> QED BY <3>1 DEF Node, NodeName
  <2>3. P[nds[n].parent] \in Seq(NodeName) BY <2>1 DEF PathsOn
  <2>4. P[n] = Append(P[nds[n].parent], nds[n].name) BY <1>1 DEF PathsOn
  <2> QED BY <2>1, <2>2, <2>3, <2>4, AppendIs
<1>2. P[root] = <<>> /\ root \in DOMAIN nds BY DEF PathsOn, Shape, NodesOK
<1>3. root \notin S BY <1>1, <1>2
<1>4. ParentClosed(nds, S)
  <2> SUFFICES ASSUME NEW n \in S, nds[n].parent # NULL PROVE nds[n].parent \in S
    BY DEF ParentClosed
  <2>1. PICK m \in DOMAIN nds : m # n /\ P[m] = P[n] OBVIOUS
  <2>2. n \in DOMAIN nds /\ n # root /\ m # root
    <3>1. n # root BY <1>3
    <3> QED BY <1>1, <1>2, <2>1, <3>1
  <2>3. P[nds[m].parent] = P[nds[n].parent] /\ nds[m].name = nds[n].name BY <1>1, <2>1, <2>2
  <2>4. nds[m].parent # nds[n].parent BY <2>1, <2>2, <2>3 DEF Titled
  <2> QED BY <1>1, <2>2, <2>3, <2>4
<1>5. S = {}
  <2>1. S \in SUBSET DOMAIN nds OBVIOUS
  <2> HIDE DEF S
  <2> QED BY <1>3, <1>4, <2>1 DEF Shape, Rooted
<1> QED BY <1>5

-----------------------------------------------------------------------------
(* The path ramfs_path() builds.                                            *)

\* The recursion of Climb(), and one round of it.
Climber(nds, path) ==
    [m \in DOMAIN nds |-> IF nds[m].parent = NULL THEN <<>>
                          ELSE Append(path[nds[m].parent], nds[m].name)]

Climbs(nds, limit, path) ==
    path = [k \in 0 .. limit |->
              [m \in DOMAIN nds |->
                 IF k = 0 \/ nds[m].parent = NULL THEN <<>>
                 ELSE Append(path[k - 1][nds[m].parent], nds[m].name)]]

ClimbOf(nds, n, limit) == (CHOOSE path : Climbs(nds, limit, path))[limit][n]

LEMMA ClimbIs == \A n, limit : Climb(n, limit) = ClimbOf(nodes, n, limit)
BY DEF Climb, ClimbOf, Climbs

LEMMA ClimbsExists ==
    ASSUME NEW nds, NodesOK(nds), NEW limit \in Nat
    PROVE  \E path : Climbs(nds, limit, path)
<1> DEFINE V == [DOMAIN nds -> Seq(NodeName)]
           none == [m \in DOMAIN nds |-> <<>>]
           F == [path \in V |-> Climber(nds, path)]
<1>1. none \in V BY EmptySeq
<1>2. \A path \in V : F[path] \in V
  <2> SUFFICES ASSUME NEW path \in V, NEW m \in DOMAIN nds, nds[m].parent # NULL
               PROVE  Append(path[nds[m].parent], nds[m].name) \in Seq(NodeName)
    BY EmptySeq DEF Climber
  <2>1. nds[m].parent \in DOMAIN nds BY DEF NodesOK, ParentClosed
  <2>2. path[nds[m].parent] \in Seq(NodeName) BY <2>1
  <2>3. nds[m] \in Node BY DEF NodesOK
  <2>4. nds[m].name \in NodeName BY <2>3 DEF Node, NodeName
  <2> QED BY <2>2, <2>4, AppendProperties
<1>3. PICK g : Recurs(g, 0, limit, none, F)
  <2> HIDE DEF none, F, V
  <2>1. 0 \in Nat /\ 0 <= limit OBVIOUS
  <2> QED BY <2>1, RecursionExists
<1>4. \A k \in 0 .. limit : g[k] = IF k = 0 THEN none ELSE F[g[k - 1]] BY <1>3 DEF Recurs
<1> DEFINE S == {k \in 0 .. limit : g[k] \in V}
<1> HIDE DEF V, F, none
<1>5. 0 \in S BY <1>1, <1>4
<1>6. ASSUME NEW k \in 0 .. limit - 1, k \in S PROVE k + 1 \in S
  <2>1. k + 1 \in 0 .. limit /\ k + 1 # 0 /\ k + 1 - 1 = k OBVIOUS
  <2>2. g[k + 1] = F[g[k]] BY <1>4, <2>1
  <2> QED BY <1>2, <1>6, <2>1, <2>2
<1>7. \A k \in 0 .. limit : k \in S
  <2> HIDE DEF S
  <2>1. 0 \in Nat OBVIOUS
  <2> QED BY <1>5, <1>6, <2>1, RangeInduction
<1>8. ASSUME NEW k \in 0 .. limit
      PROVE  g[k] = [m \in DOMAIN nds |-> IF k = 0 \/ nds[m].parent = NULL THEN <<>>
                                          ELSE Append(g[k - 1][nds[m].parent], nds[m].name)]
  <2>1. CASE k = 0 BY <1>4, <2>1 DEF none
  <2>2. CASE k # 0
    <3>1. k - 1 \in 0 .. limit BY <2>2
    <3>2. g[k - 1] \in V BY <1>7, <3>1
    <3>3. g[k] = Climber(nds, g[k - 1]) BY <1>4, <2>2, <3>2 DEF F
    <3> QED BY <2>2, <3>3 DEF Climber
  <2> QED BY <2>1, <2>2
<1>9. g = [k \in 0 .. limit |-> g[k]] BY <1>3 DEF Recurs
<1>10. Climbs(nds, limit, g) BY <1>8, <1>9 DEF Climbs
<1> QED BY <1>10

\* Where the limit suffices, it is the path.
LEMMA ClimbPath ==
    ASSUME NEW nds, Shape(nds), NEW P, PathsOn(nds, DOMAIN nds, P), NEW limit \in Nat,
           NEW n \in DOMAIN nds, Len(P[n]) <= limit
    PROVE  ClimbOf(nds, n, limit) = P[n]
<1> DEFINE f == CHOOSE path : Climbs(nds, limit, path)
           S == {k \in 0 .. limit : \A m \in DOMAIN nds : Len(P[m]) <= k => f[k][m] = P[m]}
<1>1. Climbs(nds, limit, f) BY ClimbsExists DEF Shape
<1> HIDE DEF f
<1>2. \A m \in DOMAIN nds, k \in 0 .. limit :
        f[k][m] = IF k = 0 \/ nds[m].parent = NULL THEN <<>>
                  ELSE Append(f[k - 1][nds[m].parent], nds[m].name)
  <2>1. \A k \in 0 .. limit :
          f[k] = [m \in DOMAIN nds |->
                    IF k = 0 \/ nds[m].parent = NULL THEN <<>>
                    ELSE Append(f[k - 1][nds[m].parent], nds[m].name)]
    BY <1>1, Zenon DEF Climbs
  <2> QED BY <2>1, Zenon
<1>3. ASSUME NEW m \in DOMAIN nds
      PROVE  /\ Len(P[m]) \in Nat
             /\ m = root => nds[m].parent = NULL /\ P[m] = <<>>
             /\ m # root => /\ nds[m].parent \in DOMAIN nds /\ nds[m].parent # NULL
                            /\ P[m] = Append(P[nds[m].parent], nds[m].name)
                            /\ Len(P[m]) = Len(P[nds[m].parent]) + 1
  <2>1. m = root => nds[m].parent = NULL /\ P[m] = <<>> /\ Len(P[m]) \in Nat
    BY DEF PathsOn, Shape, NodesOK
  <2>2. CASE m # root
    <3>1. nds[m].parent \in DOMAIN nds /\ nds[m].parent # NULL BY <2>2, HasParent
    <3>2. P[nds[m].parent] \in Seq(NodeName) /\ P[m] = Append(P[nds[m].parent], nds[m].name)
      BY <2>2, <3>1 DEF PathsOn
    <3>3. nds[m].name \in NodeName
      <4>1. nds[m] \in Node BY DEF Shape, NodesOK
      <4> QED BY <4>1 DEF Node, NodeName
    <3> QED BY <2>2, <3>1, <3>2, <3>3, AppendIs
  <2> QED BY <2>1, <2>2
<1>4. 0 \in S
  <2> SUFFICES ASSUME NEW m \in DOMAIN nds, Len(P[m]) <= 0 PROVE f[0][m] = P[m]
    OBVIOUS
  <2>1. m = root
    <3>1. CASE m # root
      <4>1. Len(P[m]) = Len(P[nds[m].parent]) + 1 /\ Len(P[nds[m].parent]) \in Nat
        BY <1>3, <3>1
      <4> QED BY <4>1
    <3> QED BY <3>1
  <2> QED BY <1>2, <1>3, <2>1
<1>5. ASSUME NEW k \in 0 .. limit - 1, k \in S PROVE k + 1 \in S
  <2> SUFFICES ASSUME NEW m \in DOMAIN nds, Len(P[m]) <= k + 1 PROVE f[k + 1][m] = P[m]
    OBVIOUS
  <2>0. k + 1 \in 0 .. limit /\ k + 1 # 0 /\ k + 1 - 1 = k OBVIOUS
  <2>1. f[k + 1][m] = IF nds[m].parent = NULL THEN <<>>
                      ELSE Append(f[k][nds[m].parent], nds[m].name)
    BY <1>2, <2>0
  <2>2. CASE m = root BY <1>3, <2>1, <2>2
  <2>3. CASE m # root
    <3>1. /\ nds[m].parent \in DOMAIN nds /\ nds[m].parent # NULL
          /\ P[m] = Append(P[nds[m].parent], nds[m].name)
          /\ Len(P[m]) = Len(P[nds[m].parent]) + 1 /\ Len(P[nds[m].parent]) \in Nat
      BY <1>3, <2>3
    <3>2. Len(P[nds[m].parent]) <= k BY <3>1
    <3>3. f[k][nds[m].parent] = P[nds[m].parent] BY <1>5, <3>1, <3>2
    <3> QED BY <2>1, <3>1, <3>3
  <2> QED BY <2>2, <2>3
<1>6. \A k \in 0 .. limit : k \in S
  <2> HIDE DEF S
  <2> QED BY <1>4, <1>5, RangeInduction
<1>7. f[limit][n] = P[n] BY <1>6
<1> QED BY <1>7 DEF f, ClimbOf

\* All nodes' paths, as a function.
PathOf(nds) == [n \in DOMAIN nds |-> ClimbOf(nds, n, Cardinality(DOMAIN nds))]

LEMMA PathOfIs ==
    ASSUME NEW nds, Shape(nds)
    PROVE  /\ PathsOn(nds, DOMAIN nds, PathOf(nds))
           /\ \A n \in DOMAIN nds, limit \in Nat :
                Len(PathOf(nds)[n]) <= limit => ClimbOf(nds, n, limit) = PathOf(nds)[n]
<1>1. PICK P : ShortPaths(nds, DOMAIN nds, P) BY PathsExist
<1>2. PathsOn(nds, DOMAIN nds, P) /\ \A n \in DOMAIN nds : Len(P[n]) < Cardinality(DOMAIN nds)
  BY <1>1 DEF ShortPaths
<1>3. Cardinality(DOMAIN nds) \in Nat
  BY FS_Subset, FS_CardinalityType, RamfsAssumption DEF Shape, NodesOK
<1>4. \A n \in DOMAIN nds : Len(P[n]) \in Nat /\ Len(P[n]) <= Cardinality(DOMAIN nds)
  <2> SUFFICES ASSUME NEW n \in DOMAIN nds
               PROVE  Len(P[n]) \in Nat /\ Len(P[n]) <= Cardinality(DOMAIN nds)
    OBVIOUS
  <2>1. P[n] \in Seq(NodeName) BY <1>2 DEF PathsOn
  <2>2. Len(P[n]) \in Nat BY <2>1
  <2> QED BY <1>2, <1>3, <2>2
<1>5. \A n \in DOMAIN nds : ClimbOf(nds, n, Cardinality(DOMAIN nds)) = P[n]
  BY <1>2, <1>3, <1>4, ClimbPath
<1>6. PathOf(nds) = P BY <1>2, <1>5 DEF PathOf, PathsOn
<1>7. \A n \in DOMAIN nds, limit \in Nat : Len(P[n]) <= limit => ClimbOf(nds, n, limit) = P[n]
  BY <1>2, ClimbPath
<1> QED BY <1>2, <1>6, <1>7

-----------------------------------------------------------------------------
(* What a step does to the tree: one of five things.                        *)

\* The last component of every path fits a node.
PathsFit == \A path \in Paths : path.comps # <<>> => Last(path.comps) \notin Long

SameText(n) == ContentsOf(nodes', bufs', n) = ContentsOf(nodes, bufs, n)

Stands == nodes' = nodes /\ \A n \in DOMAIN nodes : SameText(n)

Made(p, dir, name, type) ==
    /\ p \notin DOMAIN nodes /\ dir \in DOMAIN nodes /\ nodes[dir].type = "dir"
    /\ name \in Names /\ NoChild(dir, name) /\ type \in {"file", "dir"}
    /\ Created(nodes', nodes, p, type) /\ Hung(nodes', nodes, p, dir, name)
    /\ \A n \in DOMAIN nodes : SameText(n)

Removed(n) ==
    /\ n \in DOMAIN nodes /\ n # root /\ DOMAIN nodes' = DOMAIN nodes \ Subtree(n)
    /\ \A m \in DOMAIN nodes' :
         SameFile(nodes'[m], nodes[m]) /\ SamePlace(nodes'[m], nodes[m]) /\ SameText(m)

Others(n) == [m \in DOMAIN nodes \ {n} |-> nodes[m]]

Shifted(n, dir, name) ==
    /\ n \in DOMAIN nodes /\ n # root /\ dir \in DOMAIN nodes /\ nodes[dir].type = "dir"
    /\ n \notin Ancestors(dir) /\ name \in Names /\ NoChild(dir, name)
    /\ DOMAIN nodes' = DOMAIN nodes /\ Hung(nodes', Others(n), n, dir, name)
    /\ \A m \in DOMAIN nodes : SameFile(nodes'[m], nodes[m]) /\ SameText(m)

Rewritten(f) ==
    /\ f \in DOMAIN nodes /\ nodes[f].type = "file" /\ SameLinks(nodes', nodes)
    /\ \A n \in DOMAIN nodes : n # f => SameText(n)

Effect ==
    \/ Stands
    \/ \E p, dir, name, type : Made(p, dir, name, type)
    \/ \E n : Removed(n)
    \/ \E n, dir, name : Shifted(n, dir, name)
    \/ \E f : Rewritten(f)

LEMMA StandsStill ==
    ASSUME UNCHANGED <<nodes, bufs>>
    PROVE  Effect
BY DEF Effect, Stands, SameText

LEMMA CreateEffect ==
    ASSUME IInv, cwd \in DOMAIN nodes, NEW path \in AnyPath, Creatable(path),
           NEW p \in kmalloc(1), p # NULL, NEW type \in {"file", "dir"},
           ramfs_create(path, type, p), UNCHANGED bufs
    PROVE  Effect
<1> DEFINE dir == Containing(path)
           name == Last(path.comps)
<1>1. /\ name \in Names /\ nodes[dir].type = "dir" /\ find_child(dir, name) = NULL
  BY DEF Creatable
<1>2. /\ Shape(nodes) /\ Created(nodes', nodes, p, type) /\ dir \in DOMAIN nodes
      /\ Hung(nodes', nodes, p, dir, name)
  BY CreateStep DEF IInv
<1>3. p \notin DOMAIN nodes BY FreshPtr
<1> HIDE DEF dir, name
<1>4. NoChild(dir, name) BY <1>1, <1>2, FindChildIs
<1>5. \A n \in DOMAIN nodes : SameText(n) BY <1>2 DEF SameText, ContentsOf, Created, SameFile
<1>6. Made(p, dir, name, type) BY <1>1, <1>2, <1>3, <1>4, <1>5 DEF Made
<1> QED BY <1>6 DEF Effect

LEMMA MakeEffect ==
    ASSUME IInv, Running, NEW path \in Paths, NEW type \in {"file", "dir"}, Make(path, type)
    PROVE  Effect
<1>1. PICK p \in kmalloc(1) :
        IF Creatable(path) /\ p # NULL
        THEN ramfs_create(path, type, p) /\ Done /\ UNCHANGED <<bufs, cwd, job>>
        ELSE Fail
  BY DEF Make
<1>2. CASE ~(Creatable(path) /\ p # NULL) BY <1>1, <1>2, StandsStill DEF Fail
<1>3. CASE Creatable(path) /\ p # NULL
  <2>1. cwd \in DOMAIN nodes /\ path \in AnyPath BY PathsAre DEF Running
  <2> QED BY <1>1, <1>3, <2>1, CreateEffect
<1> QED BY <1>2, <1>3

LEMMA OpenEffect ==
    ASSUME IInv, cwd \in DOMAIN nodes, NEW path \in AnyPath, NEW text, NEW append,
           Opened(path, text, append)
    PROVE  Effect
<1>1. CASE UNCHANGED <<nodes, bufs>> BY <1>1, StandsStill
<1>2. ASSUME NEW p \in kmalloc(1), Creatable(path), p # NULL, ramfs_create(path, "file", p),
             UNCHANGED bufs
      PROVE  Effect
  BY <1>2, CreateEffect
<1> QED BY <1>1, <1>2 DEF Opened

LEMMA CpEffect ==
    ASSUME IInv, NEW from \in Paths, NEW to \in Paths, cmd_cp(from, to)
    PROVE  Effect
<1> DEFINE src  == ramfs_resolve(from)
           path == CpTo(from, to)
<1>1. cwd \in DOMAIN nodes /\ from \in AnyPath /\ to \in AnyPath BY PathsAre DEF Running, cmd_cp
<1>2. CASE Fail BY <1>2, StandsStill DEF Fail
<1>3. CASE IsFile(src) /\ OpenAndWrite(path, Contents(src), FALSE, Fail)
  <2>1. src \in DOMAIN nodes
    <3>1. src \in DOMAIN nodes \cup {NULL} BY <1>1, Resolve DEF IInv
    <3> QED BY <1>3, <3>1 DEF IsFile
  <2>2. path \in AnyPath BY <1>1, <2>1, CpPath DEF IInv
  <2> HIDE DEF src, path
  <2>3. CASE Opened(path, Contents(src), FALSE) BY <1>1, <2>2, <2>3, OpenEffect
  <2>4. CASE Fail BY <2>4, StandsStill DEF Fail
  <2> QED BY <1>3, <2>3, <2>4 DEF OpenAndWrite, Opened
<1> QED BY <1>2, <1>3 DEF cmd_cp, CpTo

LEMMA RmEffect ==
    ASSUME IInv, NEW path \in Paths, NEW recursive, cmd_rm(path, recursive)
    PROVE  Effect
<1> DEFINE n == ramfs_resolve(path)
           G == Subtree(n)
<1>1. cwd \in DOMAIN nodes /\ path \in AnyPath BY PathsAre DEF Running, cmd_rm
<1>2. n \in DOMAIN nodes \cup {NULL} BY <1>1, Resolve DEF IInv
<1>3. CASE Fail BY <1>3, StandsStill DEF Fail
<1>4. CASE n \notin {NULL, root} /\ ramfs_delete(n)
  <2>1. n \in DOMAIN nodes /\ n # root BY <1>2, <1>4
  <2>2. /\ nodes' = Without(detach(nodes, n), G)
        /\ bufs' = Without(bufs, {nodes[m].data : m \in G})
    BY <1>4 DEF ramfs_delete
  <2>3. Shape(nodes) /\ Store(nodes, bufs, Held(cap)) BY DEF IInv
  <2> HIDE DEF n
  <2>4. /\ DOMAIN nodes' = DOMAIN nodes \ G
        /\ \A m \in DOMAIN nodes' : SameFile(nodes'[m], nodes[m]) /\ SamePlace(nodes'[m], nodes[m])
    BY <2>1, <2>2, <2>3, DeleteShape
  <2>5. G \subseteq DOMAIN nodes BY <2>1, <2>3, SubtreeClosed DEF Below
  <2> HIDE DEF G
  <2>6. ASSUME NEW m \in DOMAIN nodes' PROVE SameText(m)
    <3>1. m \in DOMAIN nodes \ G /\ nodes'[m].data = nodes[m].data /\ nodes'[m].size = nodes[m].size
      BY <2>4 DEF SameFile
    <3>2. CASE nodes[m].data = NULL BY <3>1, <3>2 DEF SameText, ContentsOf
    <3>3. CASE nodes[m].data # NULL
      <4>1. m \in Files(nodes) /\ nodes[m].data \in DOMAIN bufs
        BY <2>3, <3>1, <3>3 DEF Files, Store, BufOK
      <4>2. \A x \in G : nodes[x].data # nodes[m].data
        BY <2>3, <2>5, <3>1, <3>3, <4>1 DEF Store, OwnedBy, Files
      <4>3. nodes[m].data \notin {nodes[x].data : x \in G} BY <4>2
      <4>4. bufs'[nodes[m].data] = bufs[nodes[m].data] BY <2>2, <4>1, <4>3 DEF Without
      <4> QED BY <3>1, <4>4 DEF SameText, ContentsOf
    <3> QED BY <3>2, <3>3
  <2>7. Removed(n) BY <2>1, <2>4, <2>6 DEF Removed, G
  <2> QED BY <2>7 DEF Effect
<1> QED BY <1>3, <1>4 DEF cmd_rm

LEMMA MvEffect ==
    ASSUME PathsFit, IInv, Titled(nodes), NEW from \in Paths, NEW to \in Paths, cmd_mv(from, to)
    PROVE  Effect
<1> DEFINE src  == ramfs_resolve(from)
           dir  == MvDir(to)
           name == MvName(from, to)
<1>1. cwd \in DOMAIN nodes /\ Shape(nodes) BY DEF Running, cmd_mv, IInv
<1>2. CASE Fail BY <1>2, StandsStill DEF Fail
<1>3. CASE /\ src # NULL /\ dir # NULL /\ Movable(src, dir, name)
           /\ ramfs_move(src, dir, name) /\ UNCHANGED bufs
  <2>1. /\ src \in DOMAIN nodes /\ dir \in DOMAIN nodes
        /\ \/ name = nodes[src].name
           \/ name \in Names \cup Long /\ to.comps # <<>> /\ name = Last(to.comps)
    BY <1>1, <1>3, MvTarget
  <2>2. /\ src # root /\ nodes[dir].type = "dir" /\ src \notin Ancestors(dir)
        /\ find_child(dir, name) = NULL
    BY <1>3 DEF Movable
  <2>3. name \in Names /\ name \notin Long
    <3>1. Names \cap Long = {} BY RamfsAssumption
    <3> HIDE DEF src, dir, name
    <3> QED BY <2>1, <2>2, <3>1 DEF PathsFit, Titled
  <2>4. nodes' = attach(Renamed(detach(nodes, src), src, name), dir, src)
    <3>1. strlcpy(name, RAMFS_NAME_MAX) = name
      <4> HIDE DEF name
      <4> QED BY <2>3, NameCut
    <3> QED BY <1>3, <3>1 DEF ramfs_move, Renamed
  <2> HIDE DEF src, dir, name
  <2>5. /\ DOMAIN nodes' = DOMAIN nodes
        /\ \A m \in DOMAIN nodes' : SameFile(nodes'[m], nodes[m])
        /\ Hung(nodes', Others(src), src, dir, name)
    <3>1. name \in NodeName BY <2>3 DEF NodeName
    <3> QED BY <1>1, <2>1, <2>2, <2>4, <3>1, MoveShape DEF Others
  <2>6. NoChild(dir, name) BY <1>1, <2>1, <2>2, FindChildIs
  <2>7. \A m \in DOMAIN nodes : SameText(m) BY <1>3, <2>5 DEF SameText, ContentsOf, SameFile
  <2>8. Shifted(src, dir, name) BY <2>1, <2>2, <2>3, <2>5, <2>6, <2>7 DEF Shifted
  <2> QED BY <2>8 DEF Effect
<1> QED BY <1>2, <1>3 DEF cmd_mv, MvDir, MvName

LEMMA NoTargetEffect ==
    ASSUME IInv, pc = "redirect", NoTarget
    PROVE  Effect
<1>1. bufs' = Without(bufs, {cap.buf}) /\ nodes' = nodes BY DEF NoTarget
<1>2. \A n \in DOMAIN nodes : ContentsOf(nodes, bufs', n) = ContentsOf(nodes, bufs, n)
  BY <1>1, ReleaseStep DEF IInv
<1>3. Stands BY <1>1, <1>2 DEF Stands, SameText
<1> QED BY <1>3 DEF Effect

LEMMA RedirectEffect ==
    ASSUME IInv, redirect_to_file
    PROVE  Effect
<1>1. pc = "redirect" /\ job = NULL /\ cwd \in DOMAIN nodes
      /\ OpenAndWrite(cap.path, cap.text, cap.append, NoTarget)
  BY DEF redirect_to_file
<1>2. cap \in Capture BY <1>1 DEF IInv, ShellOK
<1>3. cap.path \in AnyPath BY <1>2, PathsAre DEF Capture
<1>4. CASE Opened(cap.path, cap.text, cap.append) BY <1>1, <1>3, <1>4, OpenEffect
<1>5. CASE NoTarget BY <1>1, <1>5, NoTargetEffect
<1> QED BY <1>1, <1>4, <1>5 DEF OpenAndWrite, Opened

LEMMA ExecuteEffect ==
    ASSUME IInv, NEW path, NEW append, execute(path, append)
    PROVE  Effect
<1>1. CASE UNCHANGED vars BY <1>1, StandsStill DEF vars
<1>2. ASSUME NEW p \in kmalloc(CAPTURE_MAX), p # NULL, bufs' = With(bufs, p, <<>>), nodes' = nodes
      PROVE  Effect
  <2>1. p \notin DOMAIN bufs BY <1>2, FreshPtr
  <2>2. ASSUME NEW n \in DOMAIN nodes PROVE SameText(n)
    <3>1. CASE nodes[n].data = NULL BY <1>2, <3>1 DEF SameText, ContentsOf
    <3>2. CASE nodes[n].data # NULL
      <4>1. nodes[n].data \in DOMAIN bufs BY <3>2 DEF IInv, Store, BufOK
      <4>2. bufs'[nodes[n].data] = bufs[nodes[n].data] BY <1>2, <2>1, <4>1 DEF With
      <4> QED BY <1>2, <4>2 DEF SameText, ContentsOf
    <3> QED BY <3>1, <3>2
  <2>3. Stands BY <1>2, <2>2 DEF Stands
  <2> QED BY <2>3 DEF Effect
<1> QED BY <1>1, <1>2 DEF execute

LEMMA WriteRewrites ==
    ASSUME IInv, ramfs_write
    PROVE  Effect
<1>1. job.file \in DOMAIN nodes /\ nodes[job.file].type = "file"
  BY DEF ramfs_write, IInv, JobOK, Job
<1>2. SameLinks(nodes', nodes) /\ \A n \in DOMAIN nodes : WriteEffect(n) BY WriteStep
<1>3. ASSUME NEW n \in DOMAIN nodes, n # job.file PROVE SameText(n)
  <2>1. Contents(n)' = Contents(n) BY <1>2, <1>3 DEF WriteEffect
  <2> QED BY <2>1 DEF SameText, Contents, ContentsOf
<1>4. Rewritten(job.file) BY <1>1, <1>2, <1>3 DEF Rewritten
<1> QED BY <1>4 DEF Effect

LEMMA StepEffect ==
    ASSUME PathsFit, IInv, Titled(nodes), [Next]_vars
    PROVE  Effect
<1>1. ASSUME NEW text \in Texts, cmd_echo(text) PROVE Effect BY <1>1, StandsStill DEF cmd_echo
<1>2. ASSUME NEW path \in Paths, cmd_cat(path) PROVE Effect
  BY <1>2, StandsStill DEF cmd_cat, Fail
<1>3. ASSUME NEW path \in Paths, cmd_cd(path) PROVE Effect
  BY <1>3, StandsStill DEF cmd_cd, Fail
<1>4. ASSUME NEW path \in Paths, cmd_mkdir(path) PROVE Effect
  BY <1>4, MakeEffect DEF cmd_mkdir
<1>5. ASSUME NEW path \in Paths, cmd_touch(path) PROVE Effect
  <2>1. CASE UNCHANGED <<nodes, bufs>> BY <2>1, StandsStill
  <2>2. CASE Running /\ Make(path, "file") BY <2>2, MakeEffect
  <2> QED BY <1>5, <2>1, <2>2 DEF cmd_touch
<1>6. CASE UNCHANGED vars BY <1>6, StandsStill DEF vars
<1>7. CASE Undefined BY <1>7, StandsStill DEF Undefined, vars
<1> QED BY <1>1, <1>2, <1>3, <1>4, <1>5, <1>6, <1>7, RmEffect, ExecuteEffect, MvEffect, CpEffect,
          RedirectEffect, WriteRewrites DEF Next

-----------------------------------------------------------------------------
(* Names.                                                                   *)

LEMMA EffectTitled ==
    ASSUME Shape(nodes), Titled(nodes), Effect
    PROVE  Titled(nodes')
<1>0. root \in DOMAIN nodes BY DEF Shape, NodesOK
<1>1. CASE Stands BY <1>1 DEF Stands
<1>2. ASSUME NEW p, NEW dir, NEW name, NEW type, Made(p, dir, name, type) PROVE Titled(nodes')
  <2>1. /\ DOMAIN nodes' = DOMAIN nodes \cup {p} /\ nodes'[p].parent = dir /\ nodes'[p].name = name
        /\ p \notin DOMAIN nodes /\ name \in Names
        /\ \A m \in DOMAIN nodes : /\ nodes'[m].parent = nodes[m].parent
                                   /\ nodes'[m].name = nodes[m].name
    BY <1>2 DEF Made, Created, Hung, SamePlace
  <2>2. \A m \in DOMAIN nodes : ~(nodes[m].parent = dir /\ nodes[m].name = name)
    BY <1>2 DEF Made, NoChild
  <2> QED BY <1>0, <2>1, <2>2 DEF Titled
<1>3. ASSUME NEW n, Removed(n) PROVE Titled(nodes')
  <2>1. DOMAIN nodes' \subseteq DOMAIN nodes
        /\ \A m \in DOMAIN nodes' : /\ nodes'[m].parent = nodes[m].parent
                                    /\ nodes'[m].name = nodes[m].name
    BY <1>3 DEF Removed, SamePlace
  <2> QED BY <2>1 DEF Titled
<1>4. ASSUME NEW n, NEW dir, NEW name, Shifted(n, dir, name) PROVE Titled(nodes')
  <2>1. /\ DOMAIN nodes' = DOMAIN nodes /\ nodes'[n].parent = dir /\ nodes'[n].name = name
        /\ name \in Names
        /\ \A m \in DOMAIN nodes : m # n => /\ nodes'[m].parent = nodes[m].parent
                                            /\ nodes'[m].name = nodes[m].name
    BY <1>4 DEF Shifted, Hung, SamePlace, Others
  <2>2. \A m \in DOMAIN nodes : ~(nodes[m].parent = dir /\ nodes[m].name = name)
    BY <1>4 DEF Shifted, NoChild
  <2> QED BY <2>1, <2>2 DEF Titled
<1>5. ASSUME NEW f, Rewritten(f) PROVE Titled(nodes')
  <2>1. DOMAIN nodes' = DOMAIN nodes
        /\ \A m \in DOMAIN nodes' : /\ nodes'[m].parent = nodes[m].parent
                                    /\ nodes'[m].name = nodes[m].name
    BY <1>5 DEF Rewritten, SameLinks, SamePlace
  <2> QED BY <2>1 DEF Titled
<1> QED BY <1>1, <1>2, <1>3, <1>4, <1>5 DEF Effect

\* ramfs_init() gives its directories different names.
LEMMA InitTitled ==
    ASSUME Init
    PROVE  /\ Titled(nodes) /\ bufs = <<>>
           /\ \A n \in DOMAIN nodes : nodes[n].type = "dir" /\ nodes[n].data = NULL
<1>1. PICK f \in [1 .. Len(PreDirs) -> Ptrs \ {root}] :
        /\ IsInjective(f)
        /\ nodes = (CHOOSE g : Makes(f, Indices(f), g))[DOMAIN Indices(f)]
  BY InitMakes
<1> DEFINE D == 1 .. Len(PreDirs)
<1>2. Shape(nodes) /\ Bare(nodes) /\ Planted(nodes, f, D) BY <1>1, InitShape
<1>3. PreDirs \in Seq(Names) /\ IsInjective(PreDirs) BY RamfsAssumption
<1>4. /\ \A i \in D : PreDirs[i] \in Names
      /\ \A i, j \in D : PreDirs[i] = PreDirs[j] => i = j
  BY <1>3 DEF IsInjective
<1>5. nodes[root].parent = NULL /\ root # NULL BY <1>2, RamfsAssumption DEF Shape, NodesOK
<1>6. /\ DOMAIN nodes = {root} \cup {f[i] : i \in D} /\ \A m \in DOMAIN nodes : nodes[m].type = "dir"
      /\ \A i \in D : nodes[f[i]].parent = root /\ nodes[f[i]].name = PreDirs[i]
  BY <1>2 DEF Planted
<1> HIDE DEF D
<1>7. ASSUME NEW m \in DOMAIN nodes, NEW n \in DOMAIN nodes,
             nodes[m].parent = nodes[n].parent, nodes[m].name = nodes[n].name
      PROVE  m = n
  <2>1. m = root \/ \E i \in D : m = f[i] BY <1>6
  <2>2. n = root \/ \E i \in D : n = f[i] BY <1>6
  <2> QED BY <1>4, <1>5, <1>6, <1>7, <2>1, <2>2
<1>8. \A m \in DOMAIN nodes \ {root} : nodes[m].name \in Names BY <1>4, <1>6
<1>9. Titled(nodes) BY <1>7, <1>8 DEF Titled
<1> QED BY <1>2, <1>6, <1>9 DEF Bare, Init

TitledInv == IInv /\ Titled(nodes)

LEMMA TitledNext == PathsFit /\ TitledInv /\ [Next]_vars => TitledInv' /\ Effect
<1> SUFFICES ASSUME PathsFit, TitledInv, [Next]_vars PROVE TitledInv' /\ Effect OBVIOUS
<1>1. Effect BY StepEffect DEF TitledInv
<1>2. Titled(nodes') BY <1>1, EffectTitled DEF TitledInv, IInv
<1>3. IInv' BY NextInv DEF TitledInv
<1> QED BY <1>1, <1>2, <1>3 DEF TitledInv

LEMMA TitledInductive ==
    ASSUME PathsFit
    PROVE  Spec => []TitledInv
<1>1. Init => TitledInv BY InitInv, InitTitled DEF TitledInv
<1>2. TitledInv /\ [Next]_vars => TitledInv' BY TitledNext
<1> QED BY <1>1, <1>2, PTL DEF Spec

\* No directory has two entries of one name, whatever is made, copied, moved
\* and removed, as long as no path that is typed ends in a name too long for
\* a node: ramfs_move() cuts such a name after it has looked for it.
THEOREM NamesUnique ==
    ASSUME PathsFit
    PROVE  Spec => []UniqueNames
<1>1. TitledInv => UniqueNames BY DEF TitledInv, Titled, UniqueNames
<1> QED BY <1>1, TitledInductive, PTL

-----------------------------------------------------------------------------
(* The path shown leads to the node.                                        *)

\* Walking the path of a node from the root arrives there.
LEMMA WalkPath ==
    ASSUME Shape(nodes), Titled(nodes), NEW P, PathsOn(nodes, DOMAIN nodes, P)
    PROVE  \A n \in DOMAIN nodes : FoldLeft(WalkStep, root, P[n]) = n
<1> DEFINE W(s) == FoldLeft(WalkStep, root, s)
           S == {n \in DOMAIN nodes : W(P[n]) # n}
<1>1. /\ root \in DOMAIN nodes /\ NULL \notin DOMAIN nodes
      /\ \A n \in DOMAIN nodes : nodes[n] \in Node
  BY RamfsAssumption DEF Shape, NodesOK
<1>2. root \notin S
  <2>1. P[root] = <<>> /\ <<>> \in Seq(NodeName) BY <1>1 DEF PathsOn
  <2>2. W(<<>>) = root BY <1>1, <2>1, WalkEnds
  <2> QED BY <2>1, <2>2
<1>3. ASSUME NEW n \in DOMAIN nodes, n # root, W(P[nodes[n].parent]) = nodes[n].parent
      PROVE  W(P[n]) = n
  <2> DEFINE u == nodes[n].parent
             name == nodes[n].name
  <2>1. u \in DOMAIN nodes /\ u # NULL BY <1>3, HasParent
  <2>2. name \in Names BY <1>3 DEF Titled
  <2>3. P[u] \in Seq(NodeName) /\ P[n] = Append(P[u], name) BY <1>3, <2>1 DEF PathsOn
  <2>4. name \in NodeName BY <2>2 DEF NodeName
  <2>5. /\ P[n] \in Seq(NodeName) /\ P[n] # <<>> /\ Front(P[n]) = P[u] /\ Last(P[n]) = name
    <3> HIDE DEF u, name
    <3> QED BY <2>3, <2>4, AppendIs
  <2>6. W(P[n]) = WalkStep(W(P[u]), name)
    <3> HIDE DEF u, name
    <3> QED BY <1>1, <2>5, WalkEnds, ZenonT(60)
  <2>7. nodes[u].type = "dir"
    <3>1. n \in Range(nodes[u].children) BY <1>3, <2>1 DEF Shape, LinksOK
    <3>2. nodes[u].children # <<>> BY <3>1 DEF Range
    <3>3. nodes[u].type # "file" BY <2>1, <3>2 DEF Shape, LinksOK
    <3>4. nodes[u] \in Node BY <1>1, <2>1
    <3>5. nodes[u].type \in {"file", "dir"} BY <3>4 DEF Node
    <3> QED BY <3>3, <3>5
  <2>8. name \notin Long /\ name # "." /\ name # ".." BY <2>2, RamfsAssumption
  <2>9. WalkStep(u, name) = find_child(u, name) BY <2>1, <2>7, <2>8 DEF WalkStep
  <2>10. find_child(u, name) = n
    <3> DEFINE c == find_child(u, name)
    <3>1. IF c = NULL THEN NoChild(u, name)
          ELSE c \in DOMAIN nodes /\ nodes[c].parent = u /\ nodes[c].name = name
      BY <2>1, FindChildIs
    <3> HIDE DEF c
    <3>2. c # NULL BY <3>1 DEF NoChild
    <3>3. c = n BY <3>1, <3>2 DEF Titled
    <3> QED BY <3>3 DEF c
  <2> QED BY <1>3, <2>6, <2>9, <2>10
<1>4. ParentClosed(nodes, S)
  <2> SUFFICES ASSUME NEW n \in S, nodes[n].parent # NULL, nodes[n].parent \notin S PROVE FALSE
    BY DEF ParentClosed
  <2>1. n # root /\ n \in DOMAIN nodes BY <1>2
  <2>2. nodes[n].parent \in DOMAIN nodes BY <2>1, HasParent
  <2>3. W(P[nodes[n].parent]) = nodes[n].parent BY <2>2
  <2> QED BY <1>3, <2>1, <2>3
<1>5. S = {}
  <2>1. S \in SUBSET DOMAIN nodes OBVIOUS
  <2> HIDE DEF S
  <2> QED BY <1>2, <1>4, <2>1 DEF Shape, Rooted
<1> QED BY <1>5

LEMMA FullPathIs ==
    ASSUME Shape(nodes), NEW n \in DOMAIN nodes
    PROVE  FullPath(n) = PathOf(nodes)[n]
<1>1. FullPath(n) = ClimbOf(nodes, n, Cardinality(DOMAIN nodes)) BY ClimbIs DEF FullPath
<1> QED BY <1>1 DEF PathOf

\* The chain holds at most limit names, and none only for the root.
LEMMA ClimbShort ==
    ASSUME Shape(nodes), Titled(nodes), NEW n \in DOMAIN nodes, NEW limit \in Nat
    PROVE  /\ ClimbOf(nodes, n, limit) \in Seq(Names) /\ Len(ClimbOf(nodes, n, limit)) <= limit
           /\ n # root /\ limit # 0 => Len(ClimbOf(nodes, n, limit)) # 0
<1> DEFINE f == CHOOSE path : Climbs(nodes, limit, path)
           S == {k \in 0 .. limit :
                   \A m \in DOMAIN nodes : f[k][m] \in Seq(Names) /\ Len(f[k][m]) <= k}
<1>1. Climbs(nodes, limit, f) BY ClimbsExists DEF Shape
<1> HIDE DEF f
<1>2. \A m \in DOMAIN nodes, k \in 0 .. limit :
        f[k][m] = IF k = 0 \/ nodes[m].parent = NULL THEN <<>>
                  ELSE Append(f[k - 1][nodes[m].parent], nodes[m].name)
  <2>1. \A k \in 0 .. limit :
          f[k] = [m \in DOMAIN nodes |->
                    IF k = 0 \/ nodes[m].parent = NULL THEN <<>>
                    ELSE Append(f[k - 1][nodes[m].parent], nodes[m].name)]
    BY <1>1, Zenon DEF Climbs
  <2> QED BY <2>1, Zenon
<1>3. <<>> \in Seq(Names) /\ Len(<<>>) = 0 OBVIOUS
<1>4. ASSUME NEW m \in DOMAIN nodes, NEW k \in 1 .. limit, k - 1 \in S, nodes[m].parent # NULL
      PROVE  /\ f[k][m] \in Seq(Names) /\ Len(f[k][m]) <= k /\ Len(f[k][m]) # 0
  <2> DEFINE s == f[k - 1][nodes[m].parent]
             name == nodes[m].name
  <2>1. m # root /\ nodes[m].parent \in DOMAIN nodes BY <1>4 DEF Shape, NodesOK, ParentClosed
  <2>2. name \in Names BY <2>1 DEF Titled
  <2>3. s \in Seq(Names) /\ Len(s) <= k - 1 BY <1>4, <2>1
  <2>4. k \in 0 .. limit /\ k # 0 OBVIOUS
  <2>5. f[k][m] = Append(s, name) BY <1>2, <1>4, <2>4
  <2> HIDE DEF s, name
  <2>6. Append(s, name) \in Seq(Names) /\ Len(Append(s, name)) = Len(s) + 1 /\ Len(s) \in Nat
    BY <2>2, <2>3, AppendIs
  <2> DEFINE l == Len(s)
  <2>7. l \in Nat /\ l <= k - 1 /\ Len(f[k][m]) = l + 1 /\ f[k][m] \in Seq(Names) BY <2>3, <2>5, <2>6
  <2> HIDE DEF l
  <2>8. l + 1 <= k /\ l + 1 # 0 BY <2>7
  <2> QED BY <2>7, <2>8
<1>5. 0 \in S
  <2>1. 0 \in 0 .. limit OBVIOUS
  <2>2. \A m \in DOMAIN nodes : f[0][m] = <<>> BY <1>2, <2>1
  <2>3. ASSUME NEW m \in DOMAIN nodes PROVE f[0][m] \in Seq(Names) /\ Len(f[0][m]) <= 0
    <3>1. f[0][m] = <<>> BY <2>2
    <3> QED BY <1>3, <3>1
  <2> QED BY <2>1, <2>3
<1>6. ASSUME NEW k \in 0 .. limit - 1, k \in S PROVE k + 1 \in S
  <2>1. k + 1 \in 1 .. limit /\ k + 1 \in 0 .. limit /\ k + 1 - 1 = k /\ k + 1 # 0 OBVIOUS
  <2>2. ASSUME NEW m \in DOMAIN nodes PROVE f[k + 1][m] \in Seq(Names) /\ Len(f[k + 1][m]) <= k + 1
    <3>1. CASE nodes[m].parent = NULL
      <4>1. f[k + 1][m] = <<>> BY <1>2, <2>1, <3>1
      <4> QED BY <1>3, <4>1
    <3>2. CASE nodes[m].parent # NULL
      <4> HIDE DEF S
      <4> QED BY <1>4, <1>6, <2>1, <3>2
    <3> QED BY <3>1, <3>2
  <2> QED BY <2>1, <2>2
<1>7. \A k \in 0 .. limit : k \in S
  <2> HIDE DEF S
  <2>1. 0 \in Nat OBVIOUS
  <2> QED BY <1>5, <1>6, <2>1, RangeInduction
<1>8. f[limit][n] \in Seq(Names) /\ Len(f[limit][n]) <= limit BY <1>7
<1>9. ASSUME n # root, limit # 0 PROVE Len(f[limit][n]) # 0
  <2>1. nodes[n].parent # NULL BY <1>9, HasParent
  <2>2. limit \in 1 .. limit /\ limit - 1 \in 0 .. limit BY <1>9
  <2>3. limit - 1 \in S BY <1>7, <2>2
  <2> HIDE DEF S
  <2> QED BY <1>4, <2>1, <2>2, <2>3
<1>10. ClimbOf(nodes, n, limit) = f[limit][n] BY DEF ClimbOf, f
<1> QED BY <1>8, <1>9, <1>10

\* A walk goes down at most one level with each component, and one that goes
\* down with all of them follows the node's path.
LEMMA WalkDepth ==
    ASSUME Shape(nodes), Titled(nodes), NEW P, PathsOn(nodes, DOMAIN nodes, P), NEW X,
           NEW s \in Seq(X), FoldLeft(WalkStep, root, s) # NULL
    PROVE  LET m == FoldLeft(WalkStep, root, s)
           IN  /\ m \in DOMAIN nodes /\ Len(P[m]) <= Len(s)
               /\ Len(P[m]) = Len(s) => \A i \in 1 .. Len(s) : P[m][i] = s[i]
<1> DEFINE W(t) == FoldLeft(WalkStep, root, t)
           Fits(t) == /\ Len(P[W(t)]) <= Len(t)
                      /\ Len(P[W(t)]) = Len(t) => \A i \in 1 .. Len(t) : P[W(t)][i] = t[i]
           B == {k \in Nat : \E t \in Seq(X) : Len(t) = k /\ W(t) # NULL /\ ~Fits(t)}
<1>0. root \in DOMAIN nodes /\ NULL \notin DOMAIN nodes BY RamfsAssumption DEF Shape, NodesOK
<1>1. \A t \in Seq(X) : W(t) # NULL => W(t) \in DOMAIN nodes BY <1>0, WalkEnds
<1>2. \A m \in DOMAIN nodes : P[m] \in Seq(NodeName) /\ Len(P[m]) \in Nat
  <2>1. \A m \in DOMAIN nodes : P[m] \in Seq(NodeName) BY DEF PathsOn
  <2> QED BY <2>1
<1>3. SUFFICES B = {}
  <2>1. Len(s) \in Nat OBVIOUS
  <2>2. B = {} => Fits(s)
    <3> HIDE DEF Fits, W
    <3> QED BY <2>1 DEF W
  <2> QED BY <1>1, <2>2
<1>4. SUFFICES ASSUME B # {} PROVE FALSE OBVIOUS
<1>5. PICK k \in B : \A j \in B : k <= j
  <2>1. B \in SUBSET Nat OBVIOUS
  <2> HIDE DEF B
  <2> QED BY <1>4, <2>1, LeastExists
<1>6. PICK t \in Seq(X) : Len(t) = k /\ W(t) # NULL /\ ~Fits(t)
  <2> HIDE DEF W, Fits
  <2> QED BY <1>5
<1>7. k \in Nat BY <1>5
<1>8. t # <<>>
  <2> SUFFICES ASSUME t = <<>> PROVE FALSE OBVIOUS
  <2>1. W(t) = root BY <1>0, <1>6, WalkEnds
  <2>2. P[root] = <<>> BY <1>0 DEF PathsOn
  <2>3. Len(P[W(t)]) = 0 /\ Len(t) = 0 BY <2>1, <2>2
  <2> HIDE DEF W
  <2>4. Fits(t) BY <2>3
  <2> QED BY <1>6, <2>4
<1> DEFINE u == Front(t)
           c == Last(t)
           d == W(u)
           m == W(t)
<1>9. u \in Seq(X) /\ Len(u) = k - 1 /\ k >= 1 /\ (\A i \in 1 .. k - 1 : u[i] = t[i]) /\ c = t[k]
  <2>1. u \in Seq(X) /\ DOMAIN u = 1 .. Len(t) - 1 /\ Len(t) - 1 \in Nat
        /\ \A i \in 1 .. Len(t) - 1 : u[i] = t[i]
    BY <1>8, FrontIs
  <2>2. c = t[Len(t)] BY DEF Last
  <2> HIDE DEF u, c
  <2>3. Len(u) = Len(t) - 1 BY <2>1, LenProperties
  <2> QED BY <1>6, <1>7, <2>1, <2>2, <2>3
<1>10. m = WalkStep(d, c) BY <1>0, <1>6, <1>8, WalkEnds
<1>11. d # NULL
  <2> SUFFICES ASSUME d = NULL PROVE FALSE OBVIOUS
  <2> HIDE DEF d, c, m
  <2>1. m = NULL BY <1>10 DEF WalkStep
  <2> QED BY <1>6, <2>1 DEF m
<1>12. d \in DOMAIN nodes /\ m \in DOMAIN nodes
  <2> HIDE DEF W, u
  <2> QED BY <1>1, <1>6, <1>9, <1>11
<1>13. Fits(u)
  <2> SUFFICES ASSUME ~Fits(u) PROVE FALSE OBVIOUS
  <2>1. k - 1 \in Nat BY <1>7, <1>9
  <2>2. k - 1 \in B
    <3> HIDE DEF Fits, W, u
    <3> QED BY <1>9, <1>11, <2>1 DEF d
  <2>3. ~(k <= k - 1) BY <1>7
  <2> HIDE DEF B
  <2> QED BY <1>5, <2>2, <2>3
<1>14. /\ Len(P[d]) \in Nat /\ Len(P[d]) <= k - 1
       /\ Len(P[d]) = k - 1 => \A i \in 1 .. k - 1 : P[d][i] = t[i]
  <2>1. /\ Len(P[d]) <= Len(u)
        /\ Len(P[d]) = Len(u) => \A i \in 1 .. Len(u) : P[d][i] = u[i]
    BY <1>13
  <2> HIDE DEF d, u
  <2> QED BY <1>2, <1>7, <1>9, <1>12, <2>1
<1>15. Len(P[m]) < k => Fits(t)
  <2> HIDE DEF W
  <2>1. P[m] \in Seq(NodeName) /\ Len(P[m]) \in Nat BY <1>2, <1>12
  <2> QED BY <1>6, <1>7, <2>1
<1>16. ~(Len(P[m]) < k) BY <1>6, <1>15
<1> HIDE DEF Fits, B, W, d, m, c, u
<1>17. m = d => FALSE BY <1>7, <1>9, <1>14, <1>16
<1>18. nodes[d].parent = NULL \/ nodes[d].parent \in DOMAIN nodes
  BY <1>12 DEF Shape, NodesOK, ParentClosed
<1>19. m = nodes[d].parent => FALSE
  <2> SUFFICES ASSUME m = nodes[d].parent PROVE FALSE OBVIOUS
  <2>1. d # root BY <1>0, <1>12 DEF Shape, NodesOK
  <2>2. P[d] = Append(P[m], nodes[d].name) BY <1>12, <2>1 DEF PathsOn
  <2>3. nodes[d].name \in NodeName BY <1>12, <2>1 DEF Titled, NodeName
  <2>4. P[m] \in Seq(NodeName) /\ Len(P[m]) \in Nat BY <1>2, <1>12
  <2>5. Len(P[d]) = Len(P[m]) + 1 BY <2>2, <2>3, <2>4, AppendIs
  <2> DEFINE a == Len(P[m])
             b == Len(P[d])
  <2>6. a \in Nat /\ b = a + 1 /\ b <= k - 1 /\ ~(a < k) BY <1>14, <1>16, <2>4, <2>5
  <2> HIDE DEF a, b
  <2> QED BY <1>7, <2>6
<1>20. c \notin Long /\ c # "." /\ c # ".." /\ nodes[d].type = "dir" /\ m = find_child(d, c)
  <2>1. m # NULL BY <1>0, <1>12
  <2>2. "." \notin Long /\ ".." \notin Long BY RamfsAssumption
  <2>3. c \notin Long
    <3> SUFFICES ASSUME c \in Long PROVE FALSE OBVIOUS
    <3>1. c # "." /\ c # ".." BY <2>2
    <3>2. WalkStep(d, c) = NULL BY <3>1 DEF WalkStep
    <3> QED BY <1>10, <2>1, <3>2
  <2>4. c # "."
    <3> SUFFICES ASSUME c = "." PROVE FALSE OBVIOUS
    <3>1. WalkStep(d, ".") = d BY <1>11, <2>2 DEF WalkStep
    <3> QED BY <1>10, <1>17, <3>1
  <2>5. c # ".."
    <3> SUFFICES ASSUME c = ".." PROVE FALSE OBVIOUS
    <3>1. WalkStep(d, "..") \in {d, nodes[d].parent} BY <1>11, <2>2 DEF WalkStep
    <3> QED BY <1>10, <1>17, <1>19, <3>1
  <2> QED BY <1>10, <1>11, <2>1, <2>3, <2>4, <2>5 DEF WalkStep
<1>21. nodes[m].parent = d /\ nodes[m].name = c
  <2>1. LET x == find_child(d, c)
        IN  IF x = NULL THEN NoChild(d, c)
            ELSE x \in DOMAIN nodes /\ nodes[x].parent = d /\ nodes[x].name = c
    BY <1>12, FindChildIs
  <2> QED BY <1>0, <1>12, <1>20, <2>1
<1>22. m # root BY <1>0, <1>12, <1>21 DEF Shape, NodesOK
<1>23. P[m] = Append(P[d], c) /\ c \in NodeName
  BY <1>12, <1>21, <1>22 DEF PathsOn, Titled, NodeName
<1>24. /\ Len(P[m]) = Len(P[d]) + 1 /\ P[m][Len(P[d]) + 1] = c
       /\ \A i \in 1 .. Len(P[d]) : P[m][i] = P[d][i]
  <2>1. P[d] \in Seq(NodeName) BY <1>2, <1>12
  <2> QED BY <1>23, <2>1, AppendProperties
<1>25. Len(P[d]) = k - 1 BY <1>7, <1>9, <1>14, <1>16, <1>24
<1>26. \A i \in 1 .. k : P[m][i] = t[i]
  <2> SUFFICES ASSUME NEW i \in 1 .. k PROVE P[m][i] = t[i] OBVIOUS
  <2>1. CASE i = k BY <1>7, <1>9, <1>24, <1>25, <2>1
  <2>2. CASE i # k
    <3>1. i \in 1 .. k - 1 BY <1>7, <2>2
    <3> QED BY <1>14, <1>24, <1>25, <3>1
  <2> QED BY <2>1, <2>2
<1>27. Len(P[m]) = k BY <1>7, <1>24, <1>25
<1>28. Fits(t) BY <1>6, <1>7, <1>26, <1>27 DEF Fits, m
<1> QED BY <1>6, <1>28

\* ramfs_path()'s buffer, name by name.
Nothing == [abs |-> FALSE, comps |-> <<>>, slash |-> FALSE, len |-> 0]

Building(r, s) ==
    /\ r \in [0 .. Len(s) -> AnyPath] /\ r[0] = Nothing
    /\ \A k \in 1 .. Len(s) : r[k] = Extended(r[k - 1], s[k])

LEMMA BuildRuns ==
    ASSUME NEW s \in Seq(Names)
    PROVE  \E r : Building(r, s) /\ r[Len(s)] = FoldLeft(Extended, Nothing, s)
<1> DEFINE D == AnyPath
           base == Nothing
           F == [x \in D \X Names |-> Extended(x[1], x[2])]
           Body(g) == [t \in SUBSET DOMAIN s |-> IF t = {} THEN base
                                                 ELSE Extended(g[t \ {Max(t)}], s[Max(t)])]
           h == CHOOSE g : g = Body(g)
<1>1. base \in D
  <2>1. <<>> \in Seq(Component \cup {NoName}) /\ 0 \in Nat OBVIOUS
  <2> QED BY <2>1 DEF AnyPath, Nothing
<1>2. ASSUME NEW v \in D, NEW c \in Names PROVE Extended(v, c) \in D
  <2>1. c \in NodeName BY DEF NodeName
  <2> QED BY <2>1, ExtendedIsPath
<1>3. F \in [D \X Names -> D] BY <1>2
<1> HIDE DEF D
<1>4. \E g : g = Body(g)
  <2>1. PICK g : FoldsOver(g, D, Names, base, s, F)
    <3> HIDE DEF F, base
    <3> QED BY <1>1, <1>3, FoldOver
  <2>2. \A t \in SUBSET DOMAIN s : g[t] = IF t = {} THEN base ELSE Extended(g[t \ {Max(t)}], s[Max(t)])
    BY <2>1 DEF FoldsOver
  <2>3. g = [t \in SUBSET DOMAIN s |-> g[t]] BY <2>1 DEF FoldsOver
  <2>4. g = Body(g) BY <2>2, <2>3
  <2> HIDE DEF Body
  <2> QED BY <2>4
<1>5. h = Body(h)
  <2> HIDE DEF Body
  <2> QED BY <1>4
<1>6. FoldLeft(Extended, Nothing, s) = h[DOMAIN s] BY DEF FoldLeft, MapThenFoldSet
<1> HIDE DEF h
<1>7. \A t \in SUBSET DOMAIN s : h[t] = IF t = {} THEN base ELSE Extended(h[t \ {Max(t)}], s[Max(t)])
  BY <1>5
<1>8. \A v \in D, c \in Names : F[<<v, c>>] = Extended(v, c) OBVIOUS
<1>9. PICK r : FoldRun(r, D, base, s, F) /\ r[Len(s)] = h[DOMAIN s]
  <2>1. h[{}] = base BY <1>7
  <2>2. \A t \in SUBSET DOMAIN s :
           t # {} /\ h[t \ {Max(t)}] \in D /\ s[Max(t)] \in Names =>
              h[t] = F[<<h[t \ {Max(t)}], s[Max(t)]>>]
    <3> HIDE DEF F
    <3> QED BY <1>7, <1>8
  <2> HIDE DEF F, base
  <2>3. FoldLeads(D, base, s, F, h) BY <1>1, <1>3, <2>1, <2>2, FoldRuns
  <2> QED BY <2>3 DEF FoldLeads
<1>10. \A k \in 1 .. Len(s) : r[k] = Extended(r[k - 1], s[k])
  <2> SUFFICES ASSUME NEW k \in 1 .. Len(s) PROVE r[k] = Extended(r[k - 1], s[k]) OBVIOUS
  <2> HIDE DEF F
  <2>1. r[k] = F[<<r[k - 1], s[k]>>] /\ r[k - 1] \in D
    <3>1. k - 1 \in 0 .. Len(s) OBVIOUS
    <3> QED BY <1>9, <3>1 DEF FoldRun
  <2>2. s[k] \in Names BY ElementOfSeq
  <2> QED BY <1>8, <2>1, <2>2
<1>11. Building(r, s) BY <1>9, <1>10 DEF FoldRun, Building, D
<1> QED BY <1>6, <1>9, <1>11

\* The length of its text, name by name.
Measuring(l, s) ==
    /\ l \in [0 .. Len(s) -> Nat] /\ l[0] = 0
    /\ \A k \in 1 .. Len(s) : l[k] = l[k - 1] + 1 + Len(Spelled[s[k]])

LEMMA MeasureRuns ==
    ASSUME NEW s \in Seq(Names)
    PROVE  \E l : Measuring(l, s) /\ l[Len(s)] = TextLength(s)
<1> DEFINE Longer(v, c) == v + 1 + Len(Spelled[c])
           F == [x \in Nat \X Names |-> Longer(x[1], x[2])]
           Body(g) == [t \in SUBSET DOMAIN s |-> IF t = {} THEN 0
                                                 ELSE Longer(g[t \ {Max(t)}], s[Max(t)])]
           h == CHOOSE g : g = Body(g)
<1>1. 0 \in Nat OBVIOUS
<1>2. ASSUME NEW v \in Nat, NEW c \in Names PROVE Longer(v, c) \in Nat
  <2> DEFINE w == Len(Spelled[c])
  <2>1. w \in Nat
    <3>1. w \in Nat \ {0} BY SpellingIs
    <3> QED BY <3>1
  <2> HIDE DEF w
  <2>2. v + 1 + w \in Nat BY <2>1
  <2> QED BY <2>2 DEF w
<1>3. F \in [Nat \X Names -> Nat]
  <2> HIDE DEF Longer
  <2> QED BY <1>2
<1>4. TextLength(s) = h[DOMAIN s] BY DEF TextLength, FoldLeft, MapThenFoldSet
<1>5. \A v, c : Longer(v, c) = v + 1 + Len(Spelled[c]) OBVIOUS
<1> HIDE DEF Longer
<1>6. \E g : g = Body(g)
  <2>1. PICK g : FoldsOver(g, Nat, Names, 0, s, F)
    <3> HIDE DEF F
    <3> QED BY <1>1, <1>3, FoldOver
  <2>2. \A t \in SUBSET DOMAIN s : g[t] = IF t = {} THEN 0 ELSE Longer(g[t \ {Max(t)}], s[Max(t)])
    BY <2>1 DEF FoldsOver
  <2>3. g = [t \in SUBSET DOMAIN s |-> g[t]] BY <2>1 DEF FoldsOver
  <2>4. g = Body(g) BY <2>2, <2>3
  <2> HIDE DEF Body
  <2> QED BY <2>4
<1>7. h = Body(h)
  <2> HIDE DEF Body
  <2> QED BY <1>6
<1> HIDE DEF h
<1>8. \A t \in SUBSET DOMAIN s : h[t] = IF t = {} THEN 0 ELSE Longer(h[t \ {Max(t)}], s[Max(t)])
  BY <1>7
<1>9. \A v \in Nat, c \in Names : F[<<v, c>>] = Longer(v, c) OBVIOUS
<1>10. PICK r : FoldRun(r, Nat, 0, s, F) /\ r[Len(s)] = h[DOMAIN s]
  <2>1. h[{}] = 0 BY <1>8
  <2>2. \A t \in SUBSET DOMAIN s :
           t # {} /\ h[t \ {Max(t)}] \in Nat /\ s[Max(t)] \in Names =>
              h[t] = F[<<h[t \ {Max(t)}], s[Max(t)]>>]
    <3> HIDE DEF F
    <3> QED BY <1>8, <1>9
  <2> HIDE DEF F
  <2>3. FoldLeads(Nat, 0, s, F, h) BY <1>1, <1>3, <2>1, <2>2, FoldRuns
  <2> QED BY <2>3 DEF FoldLeads
<1>11. \A k \in 1 .. Len(s) : r[k] = Longer(r[k - 1], s[k])
  <2> SUFFICES ASSUME NEW k \in 1 .. Len(s) PROVE r[k] = Longer(r[k - 1], s[k]) OBVIOUS
  <2> HIDE DEF F
  <2>1. r[k] = F[<<r[k - 1], s[k]>>] /\ r[k - 1] \in Nat
    <3>1. k - 1 \in 0 .. Len(s) OBVIOUS
    <3> QED BY <1>10, <3>1 DEF FoldRun
  <2>2. s[k] \in Names BY ElementOfSeq
  <2> QED BY <1>9, <2>1, <2>2
<1>12. Measuring(r, s) BY <1>10, <1>11, <1>5 DEF FoldRun, Measuring
<1> QED BY <1>4, <1>10, <1>12

\* The first k names of s, and nothing else.
Begins(c, s, k) == Len(c) = k /\ \A i \in 1 .. k : c[i] = s[i]

\* What the buffer holds after k names whose text has length l.
Filled(q, s, k, l) ==
    /\ q \in AnyPath /\ (IF k = 0 THEN l = 0 ELSE q.abs)
    /\ q.len = IF l < RAMFS_PATH_MAX THEN l ELSE RAMFS_PATH_MAX - 1
    /\ Len(q.comps) <= k /\ (Begins(q.comps, s, k) <=> l < RAMFS_PATH_MAX)

LEMMA FillsOn ==
    ASSUME NEW s \in Seq(Names), NEW k \in 0 .. Len(s) - 1, NEW q, NEW l \in Nat, Filled(q, s, k, l)
    PROVE  Filled(Extended(q, s[k + 1]), s, k + 1, l + 1 + Len(Spelled[s[k + 1]]))
<1> DEFINE name == s[k + 1]
           w == Len(Spelled[name])
           e == Extended(q, name)
           M == RAMFS_PATH_MAX
           c == q.comps
           d == e.comps
           n == Len(c)
           X == Component \cup {NoName}
<1>1. Len(s) \in Nat /\ k \in Nat /\ k + 1 \in 1 .. Len(s) OBVIOUS
<1>2. name \in Names BY <1>1, ElementOfSeq
<1>3. w \in Nat /\ w > 0
  <2>1. w \in Nat \ {0} BY <1>2, SpellingIs
  <2> QED BY <2>1
<1>4. M \in Nat /\ M >= 2 BY RoomAssumption
<1>5. q \in AnyPath /\ (k = 0 => l = 0) /\ (k # 0 => q.abs) /\ n <= k BY DEF Filled
<1>6. q.len = IF l < M THEN l ELSE M - 1 BY DEF Filled
<1>7. Begins(c, s, k) <=> l < M BY DEF Filled
<1>8. c \in Seq(X) /\ n \in Nat
  <2>1. c \in Seq(X) BY <1>5 DEF AnyPath
  <2> HIDE DEF c, X
  <2> QED BY <2>1
<1>9. q.len \in Nat /\ q.len < M BY <1>4, <1>6
<1>10. Extends(q, name, e)
  <2>1. name \in NodeName BY <1>2 DEF NodeName
  <2> HIDE DEF name, M
  <2> QED BY <1>2, <1>5, <1>9, <2>1, ExtendedIsPath DEF M
<1>11. name \in X /\ \A x \in Component : x \in X BY <1>2 DEF Component
<1> DEFINE L == q.len + 1 + w
           l1 == l + 1 + w
<1>12. /\ e \in AnyPath /\ e.abs = (q.abs \/ q.len = 0)
       /\ L < M => d = Append(c, name) /\ e.len = L
       /\ L >= M => /\ e.len = M - 1
                    /\ \/ d = c
                       \/ \E x \in Component \ {name} : d = Append(c, x)
  <2> HIDE DEF e, name
  <2> QED BY <1>10 DEF Extends
<1>13. (L < M <=> l1 < M) /\ L \in Nat /\ l1 \in Nat /\ (L < M => L = l1 /\ l < M)
  <2> DEFINE y == q.len
  <2>1. y \in Nat /\ y = IF l < M THEN l ELSE M - 1 BY <1>6, <1>9
  <2> HIDE DEF w, M, y
  <2> QED BY <1>3, <1>4, <2>1 DEF y
<1> HIDE DEF name, w, e, M, c, d, n, X, L, l1
<1>14. e.len = IF l1 < M THEN l1 ELSE M - 1
  <2>1. CASE L < M BY <1>12, <1>13, <2>1
  <2>2. CASE ~(L < M)
    <3>1. L >= M BY <1>4, <1>13, <2>2
    <3> QED BY <1>12, <1>13, <2>2, <3>1
  <2> QED BY <2>1, <2>2
<1>15. e.abs
  <2>1. CASE k = 0
    <3>1. l = 0 /\ l < M BY <1>4, <1>5, <2>1
    <3> QED BY <1>6, <1>12, <3>1
  <2>2. CASE k # 0 BY <1>5, <1>12, <2>2
  <2> QED BY <2>1, <2>2
<1>16. ASSUME NEW x \in X
       PROVE  /\ Len(Append(c, x)) = n + 1 /\ Append(c, x)[n + 1] = x
              /\ \A i \in 1 .. n : Append(c, x)[i] = c[i]
  BY <1>8, AppendProperties DEF n
<1>17. k + 1 # 0 BY <1>1
<1>18. CASE L < M
  <2>1. Begins(c, s, k) BY <1>7, <1>13, <1>18
  <2>2. n = k /\ \A i \in 1 .. k : c[i] = s[i] BY <2>1 DEF Begins, n
  <2>3. d = Append(c, name) BY <1>12, <1>18
  <2>4. Len(d) = k + 1 /\ d[k + 1] = name /\ \A i \in 1 .. k : d[i] = s[i]
    BY <1>11, <1>16, <2>2, <2>3
  <2>5. Begins(d, s, k + 1)
    <3>1. \A i \in 1 .. k + 1 : i = k + 1 \/ i \in 1 .. k BY <1>1
    <3> QED BY <2>4, <3>1 DEF Begins, name
  <2>6. l1 < M BY <1>13, <1>18
  <2>7. Len(d) <= k + 1 BY <1>1, <2>4
  <2> QED BY <1>12, <1>14, <1>15, <1>17, <2>5, <2>6, <2>7 DEF Filled, e, d, l1, w, name, M
<1>19. CASE ~(L < M)
  <2>1. L >= M BY <1>4, <1>13, <1>19
  <2>2. Len(d) <= k + 1 /\ ~Begins(d, s, k + 1)
    <3>1. CASE d = c
      <4>1. Len(d) = n BY <3>1 DEF n
      <4>2. n <= k + 1 /\ n # k + 1 BY <1>1, <1>5, <1>8
      <4> QED BY <4>1, <4>2 DEF Begins
    <3>2. CASE \E x \in Component \ {name} : d = Append(c, x)
      <4>1. PICK x \in Component \ {name} : d = Append(c, x) BY <3>2
      <4>2. Len(d) = n + 1 /\ d[n + 1] = x BY <1>11, <1>16, <4>1
      <4>3. n + 1 <= k + 1 BY <1>1, <1>5, <1>8
      <4>4. ~Begins(d, s, k + 1)
        <5> SUFFICES ASSUME Begins(d, s, k + 1) PROVE FALSE OBVIOUS
        <5>1. Len(d) = k + 1 /\ \A i \in 1 .. k + 1 : d[i] = s[i] BY DEF Begins
        <5>2. n = k BY <1>1, <1>8, <4>2, <5>1
        <5>3. k + 1 \in 1 .. k + 1 BY <1>1
        <5>4. d[k + 1] = name BY <5>1, <5>3 DEF name
        <5>5. d[k + 1] = x BY <4>2, <5>2
        <5> QED BY <4>1, <5>4, <5>5
      <4> QED BY <4>2, <4>3, <4>4
    <3> QED BY <1>12, <2>1, <3>1, <3>2
  <2>3. ~(l1 < M) BY <1>13, <1>19
  <2> QED BY <1>12, <1>14, <1>15, <1>17, <2>2, <2>3 DEF Filled, e, d, l1, w, name, M
<1> QED BY <1>18, <1>19

\* The path ramfs_path() builds of the names s.
BuiltOf(q, s) ==
    /\ q.abs /\ Len(q.comps) \in Nat /\ Len(q.comps) <= Len(s)
    /\ q.comps \in Seq(Component \cup {NoName})
    /\ Begins(q.comps, s, Len(s)) <=> TextLength(s) < RAMFS_PATH_MAX

LEMMA Built ==
    ASSUME NEW s \in Seq(Names), Len(s) # 0
    PROVE  BuiltOf(FoldLeft(Extended, Nothing, s), s)
<1> DEFINE n == Len(s)
           q == FoldLeft(Extended, Nothing, s)
<1>1. PICK r : Building(r, s) /\ r[n] = q BY BuildRuns
<1>2. PICK l : Measuring(l, s) /\ l[n] = TextLength(s) BY MeasureRuns
<1> HIDE DEF q
<1> DEFINE S == {k \in 0 .. n : Filled(r[k], s, k, l[k])}
<1>3. n \in Nat /\ \A k \in 0 .. n : l[k] \in Nat
  <2>1. n \in Nat OBVIOUS
  <2>2. l \in [0 .. n -> Nat] BY <1>2 DEF Measuring
  <2> HIDE DEF n
  <2> QED BY <2>1, <2>2
<1>4. 0 \in S
  <2>1. r[0] = Nothing /\ l[0] = 0 BY <1>1, <1>2 DEF Building, Measuring
  <2>2. Nothing \in AnyPath
    <3>1. 0 \in 0 .. n BY <1>3
    <3> QED BY <1>1, <2>1, <3>1 DEF Building
  <2>3. Nothing.len = 0 /\ Len(Nothing.comps) = 0 BY DEF Nothing
  <2>4. Begins(Nothing.comps, s, 0) BY <2>3 DEF Begins
  <2>5. 0 < RAMFS_PATH_MAX BY RoomAssumption
  <2>6. Filled(Nothing, s, 0, 0)
    <3> HIDE DEF n
    <3> QED BY <2>2, <2>3, <2>4, <2>5 DEF Filled
  <2> QED BY <1>3, <2>1, <2>6
<1>5. ASSUME NEW k \in 0 .. n - 1, k \in S PROVE k + 1 \in S
  <2>1. k + 1 \in 1 .. n /\ k + 1 \in 0 .. n /\ k + 1 - 1 = k /\ k \in 0 .. n BY <1>3
  <2>2. r[k + 1] = Extended(r[k], s[k + 1]) BY <1>1, <2>1 DEF Building
  <2>3. l[k + 1] = l[k] + 1 + Len(Spelled[s[k + 1]]) BY <1>2, <2>1 DEF Measuring
  <2>4. l[k] \in Nat /\ Filled(r[k], s, k, l[k]) BY <1>3, <1>5, <2>1
  <2>5. Filled(Extended(r[k], s[k + 1]), s, k + 1, l[k] + 1 + Len(Spelled[s[k + 1]]))
    BY <2>4, FillsOn
  <2> QED BY <2>1, <2>2, <2>3, <2>5
<1>6. \A k \in 0 .. n : k \in S
  <2> HIDE DEF S
  <2>1. 0 \in Nat OBVIOUS
  <2> QED BY <1>3, <1>4, <1>5, <2>1, RangeInduction
<1>7. Filled(q, s, n, TextLength(s))
  <2>1. n \in 0 .. n BY <1>3
  <2>2. Filled(r[n], s, n, l[n]) BY <1>6, <2>1
  <2> QED BY <1>1, <1>2, <2>2
<1>8. q.comps \in Seq(Component \cup {NoName}) BY <1>7 DEF Filled, AnyPath
<1>9. Len(q.comps) \in Nat
  <2> DEFINE c == q.comps
             X == Component \cup {NoName}
  <2>1. c \in Seq(X) BY <1>8
  <2> HIDE DEF c, X
  <2>2. Len(c) \in Nat BY <2>1
  <2> QED BY <2>2 DEF c
<1>10. BuiltOf(q, s) BY <1>7, <1>8, <1>9 DEF Filled, BuiltOf
<1> QED BY <1>10 DEF q

\* The path of a node other than the root leads to it if nothing was cut ...
LEMMA WholePathLeads ==
    ASSUME Shape(nodes), Titled(nodes), NEW P, PathsOn(nodes, DOMAIN nodes, P),
           NEW n \in DOMAIN nodes, NEW q, BuiltOf(q, P[n]), TextLength(P[n]) < RAMFS_PATH_MAX
    PROVE  ramfs_resolve(q) = n
<1> DEFINE c == q.comps
           s == P[n]
           X == Component \cup {NoName}
<1>1. c \in Seq(X) /\ s \in Seq(NodeName) BY DEF BuiltOf, PathsOn
<1>2. Len(c) = Len(s) /\ \A i \in 1 .. Len(s) : c[i] = s[i] BY DEF BuiltOf, Begins
<1>3. FoldLeft(WalkStep, root, s) = n BY WalkPath
<1>4. q.abs BY DEF BuiltOf
<1>5. ramfs_resolve(q) = FoldLeft(WalkStep, root, c) BY <1>4 DEF ramfs_resolve
<1> HIDE DEF c, s, X
<1>6. c = s
  <2>1. c = [i \in 1 .. Len(c) |-> c[i]] BY <1>1
  <2>2. s = [i \in 1 .. Len(s) |-> s[i]] BY <1>1
  <2> QED BY <1>2, <2>1, <2>2
<1> QED BY <1>3, <1>5, <1>6

\* ... and only then.
LEMMA CutPathStrays ==
    ASSUME Shape(nodes), Titled(nodes), NEW P, PathsOn(nodes, DOMAIN nodes, P),
           NEW n \in DOMAIN nodes, NEW s \in Seq(Names), Len(s) <= CHAIN_MAX,
           Len(P[n]) <= CHAIN_MAX => s = P[n],
           NEW q, BuiltOf(q, s), ramfs_resolve(q) = n
    PROVE  Len(P[n]) <= CHAIN_MAX /\ TextLength(P[n]) < RAMFS_PATH_MAX
<1> DEFINE d == q.comps
           X == Component \cup {NoName}
<1>1. d \in Seq(X) /\ Len(d) \in Nat /\ Len(d) <= Len(s) BY DEF BuiltOf
<1>2. Begins(d, s, Len(s)) <=> TextLength(s) < RAMFS_PATH_MAX BY DEF BuiltOf
<1>3. n # NULL /\ P[n] \in Seq(NodeName) BY RamfsAssumption DEF Shape, NodesOK, PathsOn
<1>4. FoldLeft(WalkStep, root, d) = n
  <2>1. q.abs BY DEF BuiltOf
  <2> QED BY <2>1 DEF ramfs_resolve
<1> HIDE DEF d, X
<1>5. Len(P[n]) <= Len(d) /\ (Len(P[n]) = Len(d) => \A i \in 1 .. Len(d) : P[n][i] = d[i])
  <2>1. FoldLeft(WalkStep, root, d) # NULL BY <1>3, <1>4
  <2>2. LET m == FoldLeft(WalkStep, root, d)
        IN  /\ m \in DOMAIN nodes /\ Len(P[m]) <= Len(d)
            /\ Len(P[m]) = Len(d) => \A i \in 1 .. Len(d) : P[m][i] = d[i]
    BY <1>1, <2>1, WalkDepth
  <2> QED BY <1>4, <2>2
<1> DEFINE a == Len(P[n])
           b == Len(d)
           e == Len(s)
<1>6. a \in Nat /\ b \in Nat /\ e \in Nat /\ CHAIN_MAX \in Nat BY <1>1, <1>3, RamfsAssumption
<1>7. a <= b /\ b <= e /\ e <= CHAIN_MAX BY <1>1, <1>5
<1>8. a <= CHAIN_MAX
  <2> HIDE DEF a, b, e
  <2> QED BY <1>6, <1>7
<1>9. s = P[n] BY <1>8
<1>10. b = e /\ a = b
  <2>1. a = e BY <1>9
  <2> HIDE DEF a, b, e
  <2> QED BY <1>6, <1>7, <2>1
<1>11. Begins(d, s, Len(s)) BY <1>5, <1>9, <1>10 DEF Begins
<1> QED BY <1>2, <1>8, <1>9, <1>11

\* Resolving the path that pwd and the prompt show leads back to the node
\* exactly when neither chain[] nor the buffer of ramfs_path() cut it, as long
\* as no path that is typed ends in a name too long for a node.
THEOREM PathsResolve ==
    ASSUME PathsFit
    PROVE  Spec => []PathResolves
<1>1. TitledInv => PathResolves
  <2> SUFFICES ASSUME TitledInv, NEW n \in DOMAIN nodes
               PROVE  ramfs_resolve(ramfs_path(n)) = n
                      <=> /\ Len(FullPath(n)) <= CHAIN_MAX
                          /\ TextLength(FullPath(n)) < RAMFS_PATH_MAX
    BY DEF PathResolves
  <2> DEFINE P == PathOf(nodes)
             s == Climb(n, CHAIN_MAX)
             q == FoldLeft(Extended, Nothing, s)
  <2>1. Shape(nodes) /\ Titled(nodes) /\ CHAIN_MAX \in Nat /\ CHAIN_MAX # 0
    BY RamfsAssumption DEF TitledInv, IInv
  <2>2. PathsOn(nodes, DOMAIN nodes, P) /\ FullPath(n) = P[n] BY <2>1, PathOfIs, FullPathIs
  <2>3. Len(P[n]) <= CHAIN_MAX => s = P[n] BY <2>1, PathOfIs, ClimbIs
  <2> HIDE DEF P
  <2>4. CASE n = root
    <3>1. P[n] = <<>> /\ nodes[n].parent = NULL BY <2>1, <2>2, <2>4 DEF PathsOn, Shape, NodesOK
    <3>2. ramfs_resolve(ramfs_path(n)) = n
      <4>1. ramfs_path(n).abs = TRUE /\ ramfs_path(n).comps = <<>> BY <3>1 DEF ramfs_path
      <4>2. FoldLeft(WalkStep, root, P[n]) = n BY <2>1, <2>2, WalkPath
      <4> QED BY <3>1, <4>1, <4>2 DEF ramfs_resolve
    <3>3. Len(<<>>) = 0 /\ 0 <= CHAIN_MAX BY <2>1
    <3>4. TextLength(<<>>) < RAMFS_PATH_MAX
      <4>1. <<>> \in Seq(Names) OBVIOUS
      <4>2. PICK l : Measuring(l, <<>>) /\ l[Len(<<>>)] = TextLength(<<>>) BY <4>1, MeasureRuns
      <4>3. TextLength(<<>>) = 0 BY <3>3, <4>2 DEF Measuring
      <4> QED BY <4>3, RoomAssumption
    <3> QED BY <2>2, <3>1, <3>2, <3>3, <3>4
  <2>5. CASE n # root
    <3>1. s \in Seq(Names) /\ Len(s) <= CHAIN_MAX /\ Len(s) # 0 BY <2>1, <2>5, ClimbShort, ClimbIs
    <3>2. ramfs_path(n) = q
      <4>1. nodes[n].parent # NULL BY <2>1, <2>5, HasParent
      <4> QED BY <4>1 DEF ramfs_path, Nothing
    <3> HIDE DEF s
    <3>3. BuiltOf(q, s) BY <3>1, Built
    <3> HIDE DEF q
    <3>4. Len(P[n]) <= CHAIN_MAX /\ TextLength(P[n]) < RAMFS_PATH_MAX => ramfs_resolve(q) = n
      BY <2>1, <2>2, <2>3, <3>3, WholePathLeads
    <3>5. ramfs_resolve(q) = n => Len(P[n]) <= CHAIN_MAX /\ TextLength(P[n]) < RAMFS_PATH_MAX
      BY <2>1, <2>2, <2>3, <3>1, <3>3, CutPathStrays
    <3> QED BY <2>2, <3>2, <3>4, <3>5
  <2> QED BY <2>4, <2>5
<1> QED BY <1>1, TitledInductive, PTL

-----------------------------------------------------------------------------
(* Prefixes of paths.                                                       *)

Starts(s, t) == Len(s) <= Len(t) /\ \A i \in 1 .. Len(s) : s[i] = t[i]

LEMMA PrefixStarts ==
    ASSUME NEW X, NEW s \in Seq(X), NEW t \in Seq(X)
    PROVE  IsPrefix(s, t) <=> Starts(s, t)
<1>1. Len(s) \in Nat /\ Len(t) \in Nat OBVIOUS
<1>2. CASE Len(s) <= Len(t)
  <2> DEFINE a == SubSeq(s, 1, Len(s))
             b == SubSeq(t, 1, Len(s))
  <2>1. /\ Len(a) = Len(s) /\ \A i \in 1 .. Len(s) : a[i] = s[i]
        /\ DOMAIN a = 1 .. Len(s) /\ a = [i \in 1 .. Len(s) |-> a[i]]
    OBVIOUS
  <2>2. /\ Len(b) = Len(s) /\ \A i \in 1 .. Len(s) : b[i] = t[i]
        /\ DOMAIN b = 1 .. Len(s) /\ b = [i \in 1 .. Len(s) |-> b[i]]
    BY <1>2
  <2> HIDE DEF a, b
  <2>3. a = b => \A i \in 1 .. Len(s) : s[i] = t[i] BY <2>1, <2>2
  <2>4. (\A i \in 1 .. Len(s) : s[i] = t[i]) => a = b BY <2>1, <2>2
  <2>5. IsPrefix(s, t) <=> a = b BY <1>2 DEF IsPrefix, a, b
  <2> QED BY <1>2, <2>3, <2>4, <2>5 DEF Starts
<1>3. CASE ~(Len(s) <= Len(t)) BY <1>3 DEF IsPrefix, Starts
<1> QED BY <1>2, <1>3

LEMMA PrefixAppend ==
    ASSUME NEW X, NEW s \in Seq(X), NEW t \in Seq(X), NEW e \in X
    PROVE  /\ IsPrefix(s, s)
           /\ IsPrefix(s, t) => Len(s) <= Len(t) /\ IsPrefix(s, Append(t, e))
           /\ IsPrefix(s, t) /\ Len(s) = Len(t) => s = t
           /\ IsPrefix(s, Append(t, e)) => Len(s) <= Len(t) + 1
           /\ IsPrefix(s, Append(t, e)) /\ Len(s) # Len(t) + 1 => IsPrefix(s, t)
<1> DEFINE u == Append(t, e)
<1>1. Len(s) \in Nat /\ Len(t) \in Nat OBVIOUS
<1>2. /\ u \in Seq(X) /\ Len(u) = Len(t) + 1 /\ \A i \in 1 .. Len(t) : u[i] = t[i]
  BY AppendProperties
<1> HIDE DEF u
<1>3. IsPrefix(s, s)
  <2>1. Starts(s, s) BY <1>1 DEF Starts
  <2> QED BY <2>1, PrefixStarts
<1>4. /\ IsPrefix(s, t) <=> Starts(s, t)
      /\ IsPrefix(s, u) <=> Starts(s, u)
  BY <1>2, PrefixStarts
<1>5. Starts(s, t) => Len(s) <= Len(t) /\ Starts(s, u) BY <1>1, <1>2 DEF Starts
<1>6. Starts(s, t) /\ Len(s) = Len(t) => s = t
  <2> SUFFICES ASSUME Starts(s, t), Len(s) = Len(t) PROVE s = t OBVIOUS
  <2>1. \A i \in 1 .. Len(s) : s[i] = t[i] BY DEF Starts
  <2>2. s = [i \in 1 .. Len(s) |-> s[i]] /\ t = [i \in 1 .. Len(s) |-> t[i]] OBVIOUS
  <2> QED BY <2>1, <2>2
<1>7. Starts(s, u) => Len(s) <= Len(t) + 1 BY <1>2 DEF Starts
<1>8. Starts(s, u) /\ Len(s) # Len(t) + 1 => Starts(s, t) BY <1>1, <1>2 DEF Starts
<1> QED BY <1>3, <1>4, <1>5, <1>6, <1>7, <1>8 DEF u

\* The path t with its first k components replaced by q.
Rebased(q, k, t) == q \o SubSeq(t, k + 1, Len(t))

IsRebased(X, q, k, t, r) ==
    /\ r \in Seq(X) /\ Len(r) = Len(q) + Len(t) - k
    /\ \A i \in 1 .. Len(q) : r[i] = q[i]
    /\ \A i \in 1 .. Len(t) - k : r[Len(q) + i] = t[k + i]

LEMMA RebaseIs ==
    ASSUME NEW X, NEW q \in Seq(X), NEW t \in Seq(X), NEW k \in 0 .. Len(t)
    PROVE  IsRebased(X, q, k, t, Rebased(q, k, t))
<1> DEFINE v == SubSeq(t, k + 1, Len(t))
<1>1. Len(q) \in Nat /\ Len(t) \in Nat /\ k \in Nat /\ k <= Len(t) OBVIOUS
<1>2. /\ v \in Seq(X) /\ Len(v) = Len(t) - k /\ \A i \in 1 .. Len(t) - k : v[i] = t[k + i]
  <2>1. \A i \in k + 1 .. Len(t) : t[i] \in X BY <1>1, ElementOfSeq
  <2>2. k + 1 \in Int /\ Len(t) \in Int BY <1>1
  <2>3. v \in Seq(X) BY <1>1, <2>1, <2>2, SubSeqProperties
  <2>4. Len(v) = Len(t) - k BY <1>1, <2>2, SubSeqProperties
  <2>5. \A i \in 1 .. Len(t) - k : v[i] = t[k + i] BY <1>1
  <2> QED BY <2>3, <2>4, <2>5
<1> HIDE DEF v
<1>3. /\ q \o v \in Seq(X) /\ Len(q \o v) = Len(q) + Len(v)
      /\ \A i \in 1 .. Len(q) : (q \o v)[i] = q[i]
      /\ \A i \in 1 .. Len(v) : (q \o v)[Len(q) + i] = v[i]
  <2>1. \A i \in 1 .. Len(q) + Len(v) :
          (q \o v)[i] = IF i <= Len(q) THEN q[i] ELSE v[i - Len(q)]
    BY <1>2, ConcatProperties
  <2>2. q \o v \in Seq(X) /\ Len(q \o v) = Len(q) + Len(v) BY <1>2, ConcatProperties
  <2>3. \A i \in 1 .. Len(q) : (q \o v)[i] = q[i] BY <1>1, <1>2, <2>1, SMTT(60)
  <2>4. ASSUME NEW i \in 1 .. Len(v) PROVE (q \o v)[Len(q) + i] = v[i]
    <3> DEFINE j == Len(q) + i
    <3>1. j \in 1 .. Len(q) + Len(v) /\ ~(j <= Len(q)) /\ j - Len(q) = i BY <1>1, <1>2
    <3> HIDE DEF j
    <3>2. (q \o v)[j] = v[i] BY <2>1, <3>1
    <3> QED BY <3>2 DEF j
  <2> QED BY <2>2, <2>3, <2>4
<1>4. Rebased(q, k, t) = q \o v BY DEF Rebased, v
<1>5. IsRebased(X, q, k, t, q \o v) BY <1>1, <1>2, <1>3 DEF IsRebased
<1> QED BY <1>4, <1>5

LEMMA RebaseAppend ==
    ASSUME NEW X, NEW q \in Seq(X), NEW t \in Seq(X), NEW e \in X, NEW k \in 0 .. Len(t)
    PROVE  Rebased(q, k, Append(t, e)) = Append(Rebased(q, k, t), e)
<1> DEFINE u == Append(t, e)
           a == Rebased(q, k, u)
           b == Rebased(q, k, t)
           c == Append(b, e)
<1>1. Len(q) \in Nat /\ Len(t) \in Nat /\ k \in Nat /\ k <= Len(t) OBVIOUS
<1>2. /\ u \in Seq(X) /\ Len(u) = Len(t) + 1 /\ \A i \in 1 .. Len(t) : u[i] = t[i]
      /\ u[Len(t) + 1] = e
  BY AppendProperties
<1> HIDE DEF u
<1>3. /\ a \in Seq(X) /\ Len(a) = Len(q) + Len(t) + 1 - k
      /\ \A i \in 1 .. Len(q) : a[i] = q[i]
      /\ \A i \in 1 .. Len(t) + 1 - k : a[Len(q) + i] = u[k + i]
  <2>1. k \in 0 .. Len(u) BY <1>1, <1>2
  <2>2. u \in Seq(X) BY <1>2
  <2>3. /\ a \in Seq(X) /\ Len(a) = Len(q) + Len(u) - k
        /\ \A i \in 1 .. Len(q) : a[i] = q[i]
        /\ \A i \in 1 .. Len(u) - k : a[Len(q) + i] = u[k + i]
    <3>1. IsRebased(X, q, k, u, a) BY <2>1, <2>2, RebaseIs
    <3> HIDE DEF a
    <3> QED BY <3>1 DEF IsRebased
  <2> HIDE DEF a
  <2> QED BY <1>1, <1>2, <2>3
<1>4. /\ b \in Seq(X) /\ Len(b) = Len(q) + Len(t) - k
      /\ \A i \in 1 .. Len(q) : b[i] = q[i]
      /\ \A i \in 1 .. Len(t) - k : b[Len(q) + i] = t[k + i]
  <2>1. IsRebased(X, q, k, t, b) BY RebaseIs
  <2> HIDE DEF b
  <2> QED BY <2>1 DEF IsRebased
<1> HIDE DEF a, b
<1>5. /\ c \in Seq(X) /\ Len(c) = Len(b) + 1 /\ \A i \in 1 .. Len(b) : c[i] = b[i]
      /\ c[Len(b) + 1] = e
  BY <1>4, AppendProperties
<1> HIDE DEF c
<1>6. Len(a) = Len(c) /\ Len(a) \in Nat BY <1>1, <1>3, <1>4, <1>5
<1>7. ASSUME NEW i \in 1 .. Len(a) PROVE a[i] = c[i]
  <2>1. CASE i <= Len(q)
    <3>1. i \in 1 .. Len(q) /\ i \in 1 .. Len(b) BY <1>1, <1>3, <1>4, <2>1
    <3> QED BY <1>3, <1>4, <1>5, <3>1
  <2>2. CASE i > Len(q)
    <3> DEFINE j == i - Len(q)
    <3>1. j \in 1 .. Len(t) + 1 - k /\ i = Len(q) + j BY <1>1, <1>3, <2>2
    <3> HIDE DEF j
    <3>2. a[i] = u[k + j] BY <1>3, <3>1
    <3>3. CASE j = Len(t) + 1 - k
      <4>1. k + j = Len(t) + 1 /\ i = Len(b) + 1 BY <1>1, <1>4, <3>1, <3>3
      <4> QED BY <1>2, <1>5, <3>2, <4>1
    <3>4. CASE j # Len(t) + 1 - k
      <4>3. j \in Nat /\ 1 <= j /\ j <= Len(t) - k BY <1>1, <3>1, <3>4
      <4>4. Len(b) = Len(q) + Len(t) - k BY <1>4
      <4>1. j \in 1 .. Len(t) - k /\ k + j \in 1 .. Len(t) /\ i \in 1 .. Len(b)
        BY <1>1, <3>1, <4>3, <4>4
      <4>2. c[i] = t[k + j] BY <1>4, <1>5, <3>1, <4>1
      <4> QED BY <1>2, <3>2, <4>1, <4>2
    <3> QED BY <3>3, <3>4
  <2>3. i <= Len(q) \/ i > Len(q) BY <1>1, <1>6
  <2> QED BY <2>1, <2>2, <2>3
<1>8. a = [i \in 1 .. Len(a) |-> a[i]] /\ c = [i \in 1 .. Len(a) |-> c[i]]
  BY <1>3, <1>5, <1>6
<1> QED BY <1>7, <1>8 DEF a, b, c, u

\* What hangs below n has a path that begins with the path of n.
LEMMA SubtreePrefix ==
    ASSUME Shape(nodes), Titled(nodes), NEW P, PathsOn(nodes, DOMAIN nodes, P),
           NEW n \in DOMAIN nodes, n # root
    PROVE  /\ root \notin Subtree(n)
           /\ \A m \in DOMAIN nodes : m \in Subtree(n) <=> IsPrefix(P[n], P[m])
<1> DEFINE G == Subtree(n)
<1>1. /\ n \in G /\ G \subseteq DOMAIN nodes /\ \A x \in G : x = n \/ nodes[x].parent \in G
      /\ \A x \in G : Range(nodes[x].children) \subseteq G
  BY SubtreeClosed DEF Below, ChildClosed
<1>2. root \in DOMAIN nodes /\ nodes[root].parent = NULL /\ NULL \notin DOMAIN nodes
  BY RamfsAssumption DEF Shape, NodesOK
<1>3. root \notin G BY <1>1, <1>2
<1>4. \A m \in DOMAIN nodes : nodes[m].parent \in G => m \in G
  BY <1>1 DEF Shape, LinksOK
<1>5. ASSUME NEW m \in DOMAIN nodes, m # root
      PROVE  /\ nodes[m].parent \in DOMAIN nodes /\ nodes[m].name \in NodeName
             /\ P[m] = Append(P[nodes[m].parent], nodes[m].name)
             /\ Len(P[m]) = Len(P[nodes[m].parent]) + 1
  <2>1. nodes[m].parent \in DOMAIN nodes BY <1>5, HasParent
  <2>2. nodes[m].name \in NodeName BY <1>5 DEF Titled, NodeName
  <2>3. P[nodes[m].parent] \in Seq(NodeName) /\ P[m] = Append(P[nodes[m].parent], nodes[m].name)
    BY <1>5, <2>1 DEF PathsOn
  <2> QED BY <2>1, <2>2, <2>3, AppendIs
<1>6. P[root] = <<>> /\ \A m \in DOMAIN nodes : P[m] \in Seq(NodeName) /\ Len(P[m]) \in Nat
  BY <1>2 DEF PathsOn
<1>7. \A m, x \in DOMAIN nodes : P[m] = P[x] => m = x BY PathsDiffer
<1> HIDE DEF G
<1>8. \A m \in G : IsPrefix(P[n], P[m])
  <2> DEFINE S == {m \in G : ~IsPrefix(P[n], P[m])}
  <2>1. ParentClosed(nodes, S)
    <3> SUFFICES ASSUME NEW m \in S, nodes[m].parent # NULL, nodes[m].parent \notin S PROVE FALSE
      BY DEF ParentClosed
    <3>1. m \in DOMAIN nodes /\ m # root BY <1>1, <1>3
    <3>2. P[m] \in Seq(NodeName) /\ P[n] \in Seq(NodeName) BY <1>6, <3>1
    <3>3. m # n
      <4>1. nodes[m].name \in NodeName BY <1>5, <3>1
      <4>2. IsPrefix(P[n], P[n]) BY <3>2, <4>1, PrefixAppend
      <4> QED BY <4>2
    <3>4. nodes[m].parent \in G BY <1>1, <3>3
    <3>5. IsPrefix(P[n], P[nodes[m].parent]) BY <3>4
    <3>6. P[nodes[m].parent] \in Seq(NodeName) /\ nodes[m].name \in NodeName BY <1>5, <1>6, <3>1
    <3>7. IsPrefix(P[n], Append(P[nodes[m].parent], nodes[m].name))
      BY <3>2, <3>5, <3>6, PrefixAppend
    <3> QED BY <1>5, <3>1, <3>7
  <2>2. root \notin S BY <1>3
  <2>3. S = {}
    <3>1. S \in SUBSET DOMAIN nodes BY <1>1
    <3> HIDE DEF S
    <3> QED BY <2>1, <2>2, <3>1 DEF Shape, Rooted
  <2> QED BY <2>3
<1>9. \A m \in DOMAIN nodes : IsPrefix(P[n], P[m]) => m \in G
  <2> DEFINE S == {m \in DOMAIN nodes : m \notin G /\ IsPrefix(P[n], P[m])}
  <2>1. ASSUME NEW m \in S
        PROVE  m # root /\ nodes[m].parent \in S
    <3>1. m \in DOMAIN nodes /\ m \notin G /\ m # n /\ IsPrefix(P[n], P[m]) BY <1>1
    <3>2. P[m] \in Seq(NodeName) /\ P[n] \in Seq(NodeName) BY <1>6, <3>1
    <3>3. nodes[n].name \in NodeName BY <1>5
    <3>4. Len(P[n]) <= Len(P[m]) /\ Len(P[n]) # Len(P[m])
      <4>1. Len(P[n]) <= Len(P[m]) /\ (Len(P[n]) = Len(P[m]) => P[n] = P[m])
        BY <3>1, <3>2, <3>3, PrefixAppend
      <4> QED BY <1>7, <3>1, <4>1
    <3>5. m # root
      <4>1. Len(P[root]) = 0 BY <1>6
      <4>2. Len(P[n]) \in Nat BY <1>6
      <4> QED BY <3>4, <4>1, <4>2
    <3> DEFINE u == nodes[m].parent
    <3>6. /\ u \in DOMAIN nodes /\ nodes[m].name \in NodeName /\ P[u] \in Seq(NodeName)
          /\ P[m] = Append(P[u], nodes[m].name) /\ Len(P[m]) = Len(P[u]) + 1
      BY <1>5, <1>6, <3>1, <3>5
    <3>7. IsPrefix(P[n], P[u])
      <4> HIDE DEF u
      <4> QED BY <3>1, <3>2, <3>4, <3>6, PrefixAppend
    <3>8. u \notin G BY <1>4, <3>1
    <3> QED BY <3>5, <3>6, <3>7, <3>8
  <2>2. ParentClosed(nodes, S) BY <2>1 DEF ParentClosed
  <2>3. root \notin S BY <2>1
  <2>4. S = {}
    <3>1. S \in SUBSET DOMAIN nodes OBVIOUS
    <3> HIDE DEF S
    <3> QED BY <2>2, <2>3, <3>1 DEF Shape, Rooted
  <2> QED BY <2>4
<1> QED BY <1>3, <1>8, <1>9 DEF G

\* A node has its ancestors above it.
LEMMA AncestorAbove ==
    ASSUME Shape(nodes), NEW n \in DOMAIN nodes, n # root, NEW dir \in Subtree(n)
    PROVE  n \in Ancestors(dir)
<1> DEFINE G == Subtree(n)
           A == Ancestors(dir)
           S == A \cap G
<1>1. n \in G /\ G \subseteq DOMAIN nodes /\ \A x \in G : x = n \/ nodes[x].parent \in G
  BY SubtreeClosed DEF Below
<1>2. dir \in A /\ A \subseteq DOMAIN nodes /\ ParentClosed(nodes, A)
  <2>1. dir \in DOMAIN nodes BY <1>1
  <2> QED BY <2>1, AncestorsClosed DEF Shape
<1>3. nodes[root].parent = NULL /\ NULL \notin DOMAIN nodes
  BY RamfsAssumption DEF Shape, NodesOK
<1> HIDE DEF G, A
<1>4. ASSUME n \notin A PROVE FALSE
  <2>1. ParentClosed(nodes, S) BY <1>1, <1>2, <1>4 DEF ParentClosed
  <2>2. dir \in S /\ S \in SUBSET DOMAIN nodes BY <1>1, <1>2 DEF G
  <2>3. root \in S
    <3> HIDE DEF S
    <3> QED BY <2>1, <2>2 DEF Shape, Rooted
  <2> QED BY <1>1, <1>3, <2>3
<1> QED BY <1>4 DEF A

-----------------------------------------------------------------------------
(* The tree the nodes stand for.                                            *)

EntryOf(nds, bfs, n) == [type |-> nds[n].type, text |-> ContentsOf(nds, bfs, n)]

\* t has the entry of every node at the node's path.
Depicts(t, nds, bfs) ==
    /\ t = [p \in DOMAIN t |-> t[p]] /\ DOMAIN t = {PathOf(nds)[n] : n \in DOMAIN nds}
    /\ \A n \in DOMAIN nds : t[PathOf(nds)[n]] = EntryOf(nds, bfs, n)

LEMMA AsTreeDepicts == TitledInv => Depicts(AsTree, nodes, bufs)
<1> SUFFICES ASSUME TitledInv PROVE Depicts(AsTree, nodes, bufs) OBVIOUS
<1> DEFINE P == PathOf(nodes)
           E(n) == [type |-> nodes[n].type, text |-> Contents(n)]
<1>1. Shape(nodes) /\ Titled(nodes) BY DEF TitledInv, IInv
<1>2. \A n \in DOMAIN nodes : FullPath(n) = P[n] BY <1>1, FullPathIs
<1>3. \A n \in DOMAIN nodes : E(n) = EntryOf(nodes, bufs, n)
  BY DEF EntryOf, Contents, ContentsOf
<1>4. \A m, n \in DOMAIN nodes : P[m] = P[n] => m = n BY <1>1, PathOfIs, PathsDiffer
<1> HIDE DEF P, E
<1>5. AsTree = [p \in {FullPath(n) : n \in DOMAIN nodes} |->
                  E(CHOOSE n \in DOMAIN nodes : FullPath(n) = p)]
  BY DEF AsTree, E
<1>6. DOMAIN AsTree = {P[n] : n \in DOMAIN nodes} BY <1>2, <1>5
<1>7. AsTree = [p \in DOMAIN AsTree |-> AsTree[p]] BY <1>5
<1>8. ASSUME NEW n \in DOMAIN nodes PROVE AsTree[P[n]] = EntryOf(nodes, bufs, n)
  <2> DEFINE c == CHOOSE m \in DOMAIN nodes : FullPath(m) = P[n]
  <2>1. c \in DOMAIN nodes /\ FullPath(c) = P[n] BY <1>2
  <2>2. AsTree[P[n]] = E(c) BY <1>2, <1>5
  <2> HIDE DEF c
  <2>3. c = n BY <1>2, <1>4, <2>1
  <2> QED BY <1>3, <2>2, <2>3
<1> QED BY <1>6, <1>7, <1>8 DEF Depicts, P

LEMMA AsTreeDepictsNext == TitledInv' => Depicts(AsTree', nodes', bufs')
<1>1. (TitledInv => Depicts(AsTree, nodes, bufs))' BY AsTreeDepicts, PTL
<1> QED BY <1>1

LEMMA TextsAreData == TitledInv => \A n \in DOMAIN nodes : ContentsOf(nodes, bufs, n) \in Seq(Data)
<1>1. \A n : Contents(n) = ContentsOf(nodes, bufs, n) BY DEF Contents, ContentsOf
<1>2. TitledInv => \A n \in DOMAIN nodes : Contents(n) \in Seq(Data)
  BY ContentsData DEF TitledInv, IInv
<1> QED BY <1>1, <1>2

LEMMA TextsAreDataNext ==
    TitledInv' => \A n \in DOMAIN nodes' : ContentsOf(nodes', bufs', n) \in Seq(Data)
<1>1. (TitledInv => \A n \in DOMAIN nodes : ContentsOf(nodes, bufs, n) \in Seq(Data))'
  BY TextsAreData, PTL
<1> QED BY <1>1

\* What is known of the trees before and after a step.
Depicted(t, nds, bfs, P) ==
    /\ Shape(nds) /\ Titled(nds) /\ PathsOn(nds, DOMAIN nds, P)
    /\ t = [p \in DOMAIN t |-> t[p]] /\ DOMAIN t = {P[n] : n \in DOMAIN nds}
    /\ \A n \in DOMAIN nds : t[P[n]] = EntryOf(nds, bfs, n)
    /\ \A n \in DOMAIN nds : ContentsOf(nds, bfs, n) \in Seq(Data)
    /\ \A m, n \in DOMAIN nds : P[m] = P[n] => m = n

LEMMA EntryAt ==
    ASSUME NEW t, NEW nds, NEW bfs, NEW P, Depicted(t, nds, bfs, P), NEW n \in DOMAIN nds
    PROVE  /\ P[n] \in DOMAIN t /\ t[P[n]] = EntryOf(nds, bfs, n)
           /\ t[P[n]].type = nds[n].type /\ t[P[n]].text = ContentsOf(nds, bfs, n)
<1>1. P[n] \in DOMAIN t BY DEF Depicted
<1>2. t[P[n]] = EntryOf(nds, bfs, n) BY DEF Depicted
<1>3. /\ EntryOf(nds, bfs, n).type = nds[n].type
      /\ EntryOf(nds, bfs, n).text = ContentsOf(nds, bfs, n)
  BY DEF EntryOf
<1> QED BY <1>1, <1>2, <1>3

LEMMA BeforeAndAfter ==
    ASSUME TitledInv, TitledInv'
    PROVE  /\ Depicted(AsTree, nodes, bufs, PathOf(nodes))
           /\ Depicted(AsTree', nodes', bufs', PathOf(nodes'))
<1>1. Shape(nodes) /\ Titled(nodes) /\ Shape(nodes') /\ Titled(nodes') BY DEF TitledInv, IInv
<1>2. /\ PathsOn(nodes, DOMAIN nodes, PathOf(nodes))
      /\ PathsOn(nodes', DOMAIN nodes', PathOf(nodes'))
  BY <1>1, PathOfIs
<1>3. /\ \A m, n \in DOMAIN nodes : PathOf(nodes)[m] = PathOf(nodes)[n] => m = n
      /\ \A m, n \in DOMAIN nodes' : PathOf(nodes')[m] = PathOf(nodes')[n] => m = n
  BY <1>1, <1>2, PathsDiffer
<1>4. Depicts(AsTree, nodes, bufs) /\ Depicts(AsTree', nodes', bufs')
  BY AsTreeDepicts, AsTreeDepictsNext
<1>5. Depicted(AsTree, nodes, bufs, PathOf(nodes))
  BY <1>1, <1>2, <1>3, <1>4, TextsAreData DEF Depicted, Depicts
<1>6. Depicted(AsTree', nodes', bufs', PathOf(nodes'))
  BY <1>1, <1>2, <1>3, <1>4, TextsAreDataNext DEF Depicted, Depicts
<1> QED BY <1>5, <1>6

\* Nodes that stay where they are keep their paths.
LEMMA SamePaths ==
    ASSUME NEW a, NEW b, Shape(a), Shape(b),
           \A m \in DOMAIN a : m \in DOMAIN b /\ SamePlace(b[m], a[m]),
           NEW P, PathsOn(a, DOMAIN a, P), NEW Q, PathsOn(b, DOMAIN b, Q)
    PROVE  \A m \in DOMAIN a : Q[m] = P[m]
<1> DEFINE R == [m \in DOMAIN a |-> Q[m]]
<1>1. R \in [DOMAIN a -> Seq(NodeName)] BY DEF PathsOn
<1>2. ASSUME NEW m \in DOMAIN a
      PROVE  R[m] = IF m = root THEN <<>> ELSE Append(R[a[m].parent], a[m].name)
  <2>1. R[m] = IF m = root THEN <<>> ELSE Append(Q[a[m].parent], a[m].name)
    BY DEF PathsOn, SamePlace
  <2>2. m # root => a[m].parent \in DOMAIN a BY HasParent
  <2>3. m # root => R[a[m].parent] = Q[a[m].parent] BY <2>2
  <2> HIDE DEF R
  <2> QED BY <2>1, <2>3
<1> HIDE DEF R
<1>3. PathsOn(a, DOMAIN a, R) BY <1>1, <1>2 DEF PathsOn
<1>4. R = P BY <1>3, PathsUnique
<1> QED BY <1>4 DEF R

LEMMA StandsIsStutter ==
    ASSUME TitledInv, TitledInv', Stands
    PROVE  AsTree' = AsTree
<1> DEFINE P == PathOf(nodes)
           t == AsTree
           u == AsTree'
<1>1. Depicted(t, nodes, bufs, P) /\ Depicted(u, nodes', bufs', P)
  BY BeforeAndAfter DEF Stands
<1>2. \A n \in DOMAIN nodes : EntryOf(nodes', bufs', n) = EntryOf(nodes, bufs, n)
  BY DEF Stands, SameText, EntryOf
<1>3. nodes' = nodes BY DEF Stands
<1> HIDE DEF P, t, u
<1>4. DOMAIN u = DOMAIN t BY <1>1, <1>3 DEF Depicted
<1>5. ASSUME NEW p \in DOMAIN t PROVE u[p] = t[p]
  <2>1. PICK n \in DOMAIN nodes : p = P[n] BY <1>1 DEF Depicted
  <2> QED BY <1>1, <1>2, <1>3, <2>1 DEF Depicted
<1>6. t = [p \in DOMAIN t |-> t[p]] /\ u = [p \in DOMAIN u |-> u[p]] BY <1>1 DEF Depicted
<1>7. u = t BY <1>4, <1>5, <1>6
<1> QED BY <1>7 DEF u, t

LEMMA RewriteIsWrite ==
    ASSUME TitledInv, TitledInv', NEW f, Rewritten(f)
    PROVE  \E p \in DOMAIN AsTree : Tree!Write(p)
<1> DEFINE P == PathOf(nodes)
           Q == PathOf(nodes')
           t == AsTree
           u == AsTree'
<1>1. Depicted(t, nodes, bufs, P) /\ Depicted(u, nodes', bufs', Q) BY BeforeAndAfter
<1>2. /\ f \in DOMAIN nodes /\ nodes[f].type = "file" /\ DOMAIN nodes' = DOMAIN nodes
      /\ \A m \in DOMAIN nodes : /\ nodes'[m].type = nodes[m].type
                                 /\ nodes'[m].parent = nodes[m].parent
                                 /\ nodes'[m].name = nodes[m].name
      /\ \A n \in DOMAIN nodes : n # f => ContentsOf(nodes', bufs', n) = ContentsOf(nodes, bufs, n)
  BY DEF Rewritten, SameLinks, SamePlace, SameText
<1> HIDE DEF P, Q, t, u
<1>3. Q = P
  <2>1. PathsOn(nodes, DOMAIN nodes, Q) BY <1>1, <1>2 DEF Depicted, PathsOn
  <2> QED BY <1>1, <2>1, PathsUnique DEF Depicted
<1>4. DOMAIN u = DOMAIN t BY <1>1, <1>2, <1>3 DEF Depicted
<1>5. P[f] \in DOMAIN t /\ t[P[f]].type = "file" BY <1>1, <1>2, EntryAt
<1>6. u[P[f]].type = "file" /\ u[P[f]] \in [type : {"file", "dir"}, text : Seq(Data)]
  <2>1. u[P[f]] = EntryOf(nodes', bufs', f) BY <1>1, <1>2, <1>3 DEF Depicted
  <2>2. ContentsOf(nodes', bufs', f) \in Seq(Data) BY <1>1, <1>2 DEF Depicted
  <2>3. nodes'[f].type = "file" BY <1>2
  <2> QED BY <2>1, <2>2, <2>3 DEF EntryOf
<1>7. ASSUME NEW p \in DOMAIN t \ {P[f]} PROVE p \in DOMAIN u /\ u[p] = t[p]
  <2>1. PICK n \in DOMAIN nodes : p = P[n] BY <1>1 DEF Depicted
  <2>2. n # f BY <2>1
  <2>3. EntryOf(nodes', bufs', n) = EntryOf(nodes, bufs, n) BY <1>2, <2>2 DEF EntryOf
  <2>4. t[p] = EntryOf(nodes, bufs, n) BY <1>1, <2>1, EntryAt
  <2>5. u[p] = EntryOf(nodes', bufs', n) BY <1>1, <1>2, <1>3, <2>1, EntryAt
  <2> QED BY <1>4, <2>3, <2>4, <2>5
<1>8. Tree!Write(P[f])
  BY <1>4, <1>5, <1>6, <1>7 DEF Tree!Write, Tree!IsDir, Tree!Entry, Tree!Keeps, t, u
<1> QED BY <1>5, <1>8 DEF t

LEMMA MadeIsCreate ==
    ASSUME TitledInv, TitledInv', NEW n, NEW dir, NEW name, NEW type, Made(n, dir, name, type)
    PROVE  \E q \in DOMAIN AsTree' \ {<<>>} : Tree!Create(q)
<1> DEFINE P == PathOf(nodes)
           Q == PathOf(nodes')
           t == AsTree
           u == AsTree'
           q == Q[n]
<1>1. Depicted(t, nodes, bufs, P) /\ Depicted(u, nodes', bufs', Q) BY BeforeAndAfter
<1>2. /\ n \notin DOMAIN nodes /\ dir \in DOMAIN nodes /\ nodes[dir].type = "dir" /\ name \in Names
      /\ type \in {"file", "dir"} /\ DOMAIN nodes' = DOMAIN nodes \cup {n}
      /\ nodes'[n].parent = dir /\ nodes'[n].name = name
      /\ nodes'[n].type = type /\ nodes'[n].data = NULL
      /\ \A m \in DOMAIN nodes : /\ nodes'[m].type = nodes[m].type
                                 /\ nodes'[m].parent = nodes[m].parent
                                 /\ nodes'[m].name = nodes[m].name
      /\ \A m \in DOMAIN nodes : ContentsOf(nodes', bufs', m) = ContentsOf(nodes, bufs, m)
  BY DEF Made, Created, SameFile, Hung, SamePlace, SameText
<1>3. n # root BY <1>1, <1>2 DEF Depicted, Shape, NodesOK
<1> HIDE DEF P, Q, t, u
<1>4. \A m \in DOMAIN nodes : Q[m] = P[m]
  <2>1. \A m \in DOMAIN nodes : m \in DOMAIN nodes' /\ SamePlace(nodes'[m], nodes[m])
    BY <1>2 DEF SamePlace
  <2>2. /\ Shape(nodes') /\ Shape(nodes)
        /\ PathsOn(nodes', DOMAIN nodes', Q) /\ PathsOn(nodes, DOMAIN nodes, P)
    BY <1>1 DEF Depicted
  <2> QED BY <2>1, <2>2, SamePaths
<1>5. /\ q \in DOMAIN u /\ q # <<>> /\ Front(q) = P[dir]
  <2>1. q = Append(P[dir], name) BY <1>1, <1>2, <1>3, <1>4 DEF Depicted, PathsOn
  <2>2. P[dir] \in Seq(NodeName) /\ name \in NodeName BY <1>1, <1>2 DEF Depicted, PathsOn, NodeName
  <2>3. q \in DOMAIN u BY <1>1, <1>2 DEF Depicted
  <2> QED BY <2>1, <2>2, <2>3, AppendIs
<1>6. q \notin DOMAIN t
  <2> SUFFICES ASSUME NEW m \in DOMAIN nodes, q = P[m] PROVE FALSE BY <1>1 DEF Depicted
  <2>1. Q[m] = Q[n] /\ m # n BY <1>2, <1>4
  <2> QED BY <1>1, <1>2, <2>1 DEF Depicted
<1>7. DOMAIN u = DOMAIN t \cup {q}
  <2>1. DOMAIN u = {Q[m] : m \in DOMAIN nodes \cup {n}} BY <1>1, <1>2 DEF Depicted
  <2>2. DOMAIN t = {P[m] : m \in DOMAIN nodes} BY <1>1 DEF Depicted
  <2> QED BY <1>4, <2>1, <2>2
<1>8. P[dir] \in DOMAIN t /\ t[P[dir]].type = "dir" BY <1>1, <1>2, EntryAt
<1>9. u[q].text = <<>> /\ u[q] \in [type : {"file", "dir"}, text : Seq(Data)]
  <2>1. u[q] = EntryOf(nodes', bufs', n) BY <1>1, <1>2 DEF Depicted
  <2>2. ContentsOf(nodes', bufs', n) = <<>> BY <1>2 DEF ContentsOf
  <2>3. <<>> \in Seq(Data) BY EmptySeq
  <2> QED BY <1>2, <2>1, <2>2, <2>3 DEF EntryOf
<1>10. ASSUME NEW p \in DOMAIN t PROVE p \in DOMAIN u /\ u[p] = t[p]
  <2>1. PICK m \in DOMAIN nodes : p = P[m] BY <1>1 DEF Depicted
  <2>2. EntryOf(nodes', bufs', m) = EntryOf(nodes, bufs, m) BY <1>2 DEF EntryOf
  <2>3. u[Q[m]] = EntryOf(nodes', bufs', m) BY <1>1, <1>2 DEF Depicted
  <2>4. t[P[m]] = EntryOf(nodes, bufs, m) BY <1>1 DEF Depicted
  <2> QED BY <1>4, <1>7, <2>1, <2>2, <2>3, <2>4
<1> HIDE DEF q
<1>11. Tree!Create(q)
  BY <1>5, <1>6, <1>7, <1>8, <1>9, <1>10
     DEF Tree!Create, Tree!IsDir, Tree!Entry, Tree!Keeps, Tree!Front, Front, t, u
<1> QED BY <1>5, <1>11 DEF u

LEMMA RemovedIsUnlink ==
    ASSUME TitledInv, TitledInv', NEW n, Removed(n)
    PROVE  \E p \in DOMAIN AsTree : Tree!Unlink(p)
<1> DEFINE P == PathOf(nodes)
           Q == PathOf(nodes')
           t == AsTree
           u == AsTree'
           G == Subtree(n)
           B == {p \in DOMAIN t : IsPrefix(P[n], p)}
<1>1. Depicted(t, nodes, bufs, P) /\ Depicted(u, nodes', bufs', Q) BY BeforeAndAfter
<1>2. /\ n \in DOMAIN nodes /\ n # root /\ DOMAIN nodes' = DOMAIN nodes \ G
      /\ \A m \in DOMAIN nodes' : /\ nodes'[m].type = nodes[m].type
                                  /\ SamePlace(nodes[m], nodes'[m])
                                  /\ ContentsOf(nodes', bufs', m) = ContentsOf(nodes, bufs, m)
  BY DEF Removed, SameFile, SamePlace, SameText
<1> HIDE DEF P, Q, t, u
<1>3. \A m \in DOMAIN nodes' : P[m] = Q[m]
  <2>1. \A m \in DOMAIN nodes' : m \in DOMAIN nodes /\ SamePlace(nodes[m], nodes'[m]) BY <1>2
  <2>2. /\ Shape(nodes') /\ Shape(nodes)
        /\ PathsOn(nodes', DOMAIN nodes', Q) /\ PathsOn(nodes, DOMAIN nodes, P)
    BY <1>1 DEF Depicted
  <2> QED BY <2>1, <2>2, SamePaths
<1>4. \A m \in DOMAIN nodes : m \in G <=> IsPrefix(P[n], P[m])
  BY <1>1, <1>2, SubtreePrefix DEF Depicted
<1> HIDE DEF G
<1>5. DOMAIN t = {P[m] : m \in DOMAIN nodes} /\ DOMAIN u = {Q[m] : m \in DOMAIN nodes'}
  BY <1>1 DEF Depicted
<1>6. DOMAIN u = DOMAIN t \ B
  <2>1. ASSUME NEW p \in DOMAIN u PROVE p \in DOMAIN t \ B
    <3>1. PICK m \in DOMAIN nodes' : p = Q[m] BY <1>5
    <3>2. m \in DOMAIN nodes /\ m \notin G /\ p = P[m] BY <1>2, <1>3, <3>1
    <3> QED BY <1>4, <1>5, <3>2
  <2>2. ASSUME NEW p \in DOMAIN t \ B PROVE p \in DOMAIN u
    <3>1. PICK m \in DOMAIN nodes : p = P[m] BY <1>5
    <3>2. m \notin G BY <1>4, <3>1
    <3> QED BY <1>2, <1>3, <1>5, <3>1, <3>2
  <2> QED BY <2>1, <2>2
<1>7. ASSUME NEW p \in DOMAIN t \ B PROVE p \in DOMAIN u /\ u[p] = t[p]
  <2>1. PICK m \in DOMAIN nodes' : p = Q[m] BY <1>5, <1>6
  <2>2. m \in DOMAIN nodes /\ p = P[m] BY <1>2, <1>3, <2>1
  <2>3. t[p] = EntryOf(nodes, bufs, m) BY <1>1, <2>2, EntryAt
  <2>4. u[p] = EntryOf(nodes', bufs', m) BY <1>1, <2>1, EntryAt
  <2>5. EntryOf(nodes', bufs', m) = EntryOf(nodes, bufs, m) BY <1>2 DEF EntryOf
  <2> QED BY <1>6, <2>3, <2>4, <2>5
<1>8. P[n] \in DOMAIN t /\ P[n] # <<>>
  <2>1. root \in DOMAIN nodes /\ P[root] = <<>> BY <1>1 DEF Depicted, Shape, NodesOK, PathsOn
  <2>2. \A m, x \in DOMAIN nodes : P[m] = P[x] => m = x BY <1>1 DEF Depicted
  <2> QED BY <1>2, <1>5, <2>1, <2>2
<1>9. Tree!Below(P[n], DOMAIN t) = B BY DEF Tree!Below, Tree!IsPrefix, IsPrefix
<1> HIDE DEF B
<1>10. Tree!Unlink(P[n])
  BY <1>6, <1>7, <1>8, <1>9 DEF Tree!Unlink, Tree!Keeps, t, u
<1> QED BY <1>8, <1>10 DEF t

LEMMA ShiftedPaths ==
    ASSUME Depicted(AsTree, nodes, bufs, PathOf(nodes)),
           Depicted(AsTree', nodes', bufs', PathOf(nodes')),
           NEW n, NEW dir, NEW name, Shifted(n, dir, name)
    PROVE  LET P == PathOf(nodes)
               q == Append(P[dir], name)
           IN  /\ dir \notin Subtree(n)
               /\ \A m \in DOMAIN nodes :
                    PathOf(nodes')[m] = IF m \in Subtree(n) THEN Rebased(q, Len(P[n]), P[m])
                                        ELSE P[m]
<1> DEFINE P == PathOf(nodes)
           Q == PathOf(nodes')
           t == AsTree
           u == AsTree'
           G == Subtree(n)
           q == Append(P[dir], name)
           k == Len(P[n])
           R == [m \in DOMAIN nodes |-> IF m \in G THEN Rebased(q, k, P[m]) ELSE P[m]]
<1>1. /\ n \in DOMAIN nodes /\ n # root /\ dir \in DOMAIN nodes /\ name \in Names
      /\ n \notin Ancestors(dir)
      /\ DOMAIN nodes' = DOMAIN nodes /\ nodes'[n].parent = dir /\ nodes'[n].name = name
      /\ \A m \in DOMAIN nodes : m # n => /\ nodes'[m].parent = nodes[m].parent
                                          /\ nodes'[m].name = nodes[m].name
  BY DEF Shifted, Hung, Others, SamePlace
<1>2. Depicted(t, nodes, bufs, P) /\ Depicted(u, nodes', bufs', Q) OBVIOUS
<1> HIDE DEF P, Q, t, u
<1>3. /\ Shape(nodes) /\ Titled(nodes) /\ PathsOn(nodes, DOMAIN nodes, P)
      /\ Shape(nodes') /\ PathsOn(nodes', DOMAIN nodes', Q)
  BY <1>2 DEF Depicted
<1>4. dir \notin G BY <1>1, <1>3, AncestorAbove
<1>5. /\ root \notin G /\ \A m \in DOMAIN nodes : m \in G <=> IsPrefix(P[n], P[m])
  BY <1>1, <1>3, SubtreePrefix
<1>6. /\ n \in G /\ G \subseteq DOMAIN nodes /\ \A x \in G : x = n \/ nodes[x].parent \in G
      /\ \A x \in G : Range(nodes[x].children) \subseteq G
  BY <1>1, <1>3, SubtreeClosed DEF Below, ChildClosed
<1>7. \A m \in DOMAIN nodes : nodes[m].parent \in G => m \in G
  BY <1>3, <1>6 DEF Shape, LinksOK
<1> HIDE DEF G
<1>8. \A m \in DOMAIN nodes : P[m] \in Seq(NodeName) /\ Len(P[m]) \in Nat BY <1>3 DEF PathsOn
<1>9. q \in Seq(NodeName) /\ k \in Nat
  <2>1. name \in NodeName BY <1>1 DEF NodeName
  <2> QED BY <1>1, <1>8, <2>1, AppendIs
<1>10. \A m \in G : k \in 0 .. Len(P[m])
  <2> SUFFICES ASSUME NEW m \in G PROVE k \in 0 .. Len(P[m]) OBVIOUS
  <2>1. IsPrefix(P[n], P[m]) /\ m \in DOMAIN nodes BY <1>5, <1>6
  <2>2. Len(P[n]) <= Len(P[m]) BY <2>1 DEF IsPrefix
  <2> QED BY <1>8, <1>9, <2>1, <2>2
<1>11. ASSUME NEW m \in DOMAIN nodes, m # root
       PROVE  /\ nodes[m].parent \in DOMAIN nodes /\ nodes[m].name \in NodeName
              /\ P[m] = Append(P[nodes[m].parent], nodes[m].name)
  <2>1. nodes[m].parent \in DOMAIN nodes BY <1>3, <1>11, HasParent
  <2>2. nodes[m].name \in NodeName BY <1>3, <1>11 DEF Titled, NodeName
  <2> QED BY <1>3, <1>11, <2>1, <2>2 DEF PathsOn
<1>12. /\ \A m \in G : R[m] = Rebased(q, k, P[m])
       /\ \A m \in DOMAIN nodes : m \notin G => R[m] = P[m]
       /\ DOMAIN R = DOMAIN nodes /\ R = [m \in DOMAIN nodes |-> R[m]]
  BY <1>6
<1> HIDE DEF R, q, k
<1>13. R \in [DOMAIN nodes -> Seq(NodeName)]
  <2>1. ASSUME NEW m \in DOMAIN nodes PROVE R[m] \in Seq(NodeName)
    <3>1. CASE m \in G
      <4>1. IsRebased(NodeName, q, k, P[m], Rebased(q, k, P[m])) BY <1>8, <1>9, <1>10, <3>1, RebaseIs
      <4> QED BY <1>12, <3>1, <4>1 DEF IsRebased
    <3>2. CASE m \notin G BY <1>8, <1>12, <3>2
    <3> QED BY <3>1, <3>2
  <2> QED BY <1>12, <2>1
<1>14. ASSUME NEW m \in DOMAIN nodes
       PROVE  R[m] = IF m = root THEN <<>> ELSE Append(R[nodes'[m].parent], nodes'[m].name)
  <2>1. CASE m = root
    <3>1. R[m] = P[m] BY <1>5, <1>12, <2>1
    <3>2. P[root] = <<>> BY <1>3, <2>1 DEF PathsOn
    <3> QED BY <2>1, <3>1, <3>2
  <2>2. CASE m = n
    <3>1. R[n] = Rebased(q, k, P[n]) BY <1>6, <1>12
    <3>2. Rebased(q, k, P[n]) = q
      <4>1. SubSeq(P[n], k + 1, k) = <<>> BY <1>1, <1>8, <1>9
      <4>2. q \o <<>> = q BY <1>9
      <4> QED BY <4>1, <4>2 DEF Rebased, k
    <3>3. R[dir] = P[dir] BY <1>1, <1>4, <1>12
    <3> QED BY <1>1, <2>2, <3>1, <3>2, <3>3 DEF q
  <2>3. CASE m # n /\ m # root /\ m \in G
    <3> DEFINE v == nodes[m].parent
               e == nodes[m].name
    <3>1. v \in G /\ v \in DOMAIN nodes /\ e \in NodeName /\ P[m] = Append(P[v], e)
      BY <1>6, <1>11, <2>3
    <3>2. nodes'[m].parent = v /\ nodes'[m].name = e BY <1>1, <2>3
    <3> HIDE DEF v, e
    <3>3. P[v] \in Seq(NodeName) /\ k \in 0 .. Len(P[v]) BY <1>8, <1>10, <3>1
    <3>4. Rebased(q, k, Append(P[v], e)) = Append(Rebased(q, k, P[v]), e)
      BY <1>9, <3>1, <3>3, RebaseAppend
    <3> QED BY <1>12, <2>3, <3>1, <3>2, <3>4
  <2>4. CASE m # n /\ m # root /\ m \notin G
    <3>1. /\ nodes[m].parent \in DOMAIN nodes /\ nodes[m].parent \notin G
          /\ P[m] = Append(P[nodes[m].parent], nodes[m].name)
      BY <1>7, <1>11, <2>4
    <3> QED BY <1>1, <1>12, <2>4, <3>1
  <2> QED BY <2>1, <2>2, <2>3, <2>4
<1>15. PathsOn(nodes', DOMAIN nodes', R) BY <1>1, <1>13, <1>14 DEF PathsOn
<1>16. R = Q BY <1>3, <1>15, PathsUnique
<1>17. \A m \in DOMAIN nodes : Q[m] = IF m \in G THEN Rebased(q, k, P[m]) ELSE P[m]
  BY <1>12, <1>16
<1> QED BY <1>4, <1>17 DEF P, Q, G, q, k

LEMMA ShiftedIsMove ==
    ASSUME TitledInv, TitledInv', NEW n, NEW dir, NEW name, Shifted(n, dir, name)
    PROVE  \E q \in DOMAIN AsTree' \ {<<>>} : \E p \in DOMAIN AsTree : Tree!Move(p, q)
<1> DEFINE P == PathOf(nodes)
           Q == PathOf(nodes')
           t == AsTree
           u == AsTree'
           G == Subtree(n)
           q == Append(P[dir], name)
           k == Len(P[n])
           B == {p \in DOMAIN t : IsPrefix(P[n], p)}
<1>1. /\ n \in DOMAIN nodes /\ n # root /\ dir \in DOMAIN nodes /\ name \in Names
      /\ nodes[dir].type = "dir" /\ NoChild(dir, name) /\ DOMAIN nodes' = DOMAIN nodes
      /\ \A m \in DOMAIN nodes : /\ nodes'[m].type = nodes[m].type
                                 /\ ContentsOf(nodes', bufs', m) = ContentsOf(nodes, bufs, m)
  BY DEF Shifted, SameFile, SameText
<1>2. Depicted(t, nodes, bufs, P) /\ Depicted(u, nodes', bufs', Q) BY BeforeAndAfter
<1>3. /\ dir \notin G
      /\ \A m \in DOMAIN nodes : Q[m] = IF m \in G THEN Rebased(q, k, P[m]) ELSE P[m]
  BY <1>2, ShiftedPaths
<1> HIDE DEF P, Q, t, u
<1>4. /\ Shape(nodes) /\ Titled(nodes) /\ PathsOn(nodes, DOMAIN nodes, P)
      /\ DOMAIN t = {P[m] : m \in DOMAIN nodes} /\ DOMAIN u = {Q[m] : m \in DOMAIN nodes}
      /\ \A m, x \in DOMAIN nodes : P[m] = P[x] => m = x
  BY <1>1, <1>2 DEF Depicted
<1>5. \A m \in DOMAIN nodes : m \in G <=> IsPrefix(P[n], P[m]) BY <1>1, <1>4, SubtreePrefix
<1>6. n \in G /\ G \subseteq DOMAIN nodes BY <1>1, <1>4, SubtreeClosed DEF Below
<1> HIDE DEF G
<1>7. /\ P[dir] \in Seq(NodeName) /\ P[n] \in Seq(NodeName) /\ name \in NodeName
      /\ k \in Nat
  <2>1. P \in [DOMAIN nodes -> Seq(NodeName)] BY <1>4 DEF PathsOn
  <2>2. P[dir] \in Seq(NodeName) /\ P[n] \in Seq(NodeName) BY <1>1, <2>1
  <2>3. name \in NodeName BY <1>1 DEF NodeName
  <2> QED BY <2>2, <2>3
<1>8. q \in Seq(NodeName) /\ q # <<>> /\ Front(q) = P[dir] /\ Last(q) = name
      /\ Len(q) = Len(P[dir]) + 1
  BY <1>7, AppendIs
<1>9. P[n] \in DOMAIN t /\ P[n] # <<>>
  <2>1. root \in DOMAIN nodes /\ P[root] = <<>> BY <1>4 DEF Shape, NodesOK, PathsOn
  <2> QED BY <1>1, <1>4, <2>1
\* The new place is free and not below the node itself.
<1>10. q \notin DOMAIN t
  <2> SUFFICES ASSUME NEW m \in DOMAIN nodes, q = P[m] PROVE FALSE BY <1>4
  <2>1. m # root BY <1>4, <1>8 DEF PathsOn
  <2>2. nodes[m].parent \in DOMAIN nodes BY <1>4, <2>1, HasParent
  <2>3. /\ P[nodes[m].parent] \in Seq(NodeName) /\ nodes[m].name \in NodeName
        /\ P[m] = Append(P[nodes[m].parent], nodes[m].name)
    BY <1>4, <2>1, <2>2 DEF PathsOn, Titled, NodeName
  <2>4. Front(P[m]) = P[nodes[m].parent] /\ Last(P[m]) = nodes[m].name BY <2>3, AppendIs
  <2>5. nodes[m].parent = dir /\ nodes[m].name = name
    <3> HIDE DEF q
    <3> QED BY <1>1, <1>4, <1>8, <2>2, <2>4
  <2> QED BY <1>1, <2>5 DEF NoChild
<1>11. ~IsPrefix(P[n], q)
  <2> SUFFICES ASSUME IsPrefix(P[n], q) PROVE FALSE OBVIOUS
  <2>1. CASE Len(P[n]) = Len(q)
    <3>1. P[n] = q
      <4> HIDE DEF q
      <4> QED BY <1>7, <1>8, <2>1, PrefixAppend
    <3> QED BY <1>9, <1>10, <3>1
  <2>2. CASE Len(P[n]) # Len(q)
    <3>1. IsPrefix(P[n], P[dir]) BY <1>7, <1>8, <2>2, PrefixAppend
    <3> QED BY <1>1, <1>3, <1>5, <3>1
  <2> QED BY <2>1, <2>2
<1>12. P[dir] \in DOMAIN t /\ t[P[dir]].type = "dir" BY <1>1, <1>2, EntryAt
<1> DEFINE moved(r) == q \o SubSeq(r, k + 1, Len(r))
<1>13. \A m \in G : Q[m] = moved(P[m]) BY <1>3, <1>6 DEF Rebased
<1>14. \A m \in DOMAIN nodes : m \notin G => Q[m] = P[m] BY <1>3
<1>15. Q[n] = q
  <2>1. Q[n] = q \o SubSeq(P[n], k + 1, k) BY <1>6, <1>13
  <2>2. SubSeq(P[n], k + 1, k) = <<>> BY <1>7
  <2>3. q \o <<>> = q
    <3> HIDE DEF q
    <3> QED BY <1>8
  <2> QED BY <2>1, <2>2, <2>3
<1> HIDE DEF moved, q
<1>16. ASSUME NEW m \in DOMAIN nodes PROVE u[Q[m]] = t[P[m]]
  <2>1. t[P[m]] = EntryOf(nodes, bufs, m) BY <1>2, EntryAt
  <2>2. u[Q[m]] = EntryOf(nodes', bufs', m) BY <1>1, <1>2, EntryAt
  <2>3. EntryOf(nodes', bufs', m) = EntryOf(nodes, bufs, m) BY <1>1 DEF EntryOf
  <2> QED BY <2>1, <2>2, <2>3
<1>17. \A p \in B : \E m \in G : p = P[m] BY <1>4, <1>5
<1>18. \A p \in DOMAIN t \ B : \E m \in DOMAIN nodes \ G : p = P[m] BY <1>4, <1>5
<1>19. \A m \in G : P[m] \in B BY <1>4, <1>5, <1>6
<1>20. \A m \in DOMAIN nodes \ G : P[m] \in DOMAIN t \ B BY <1>4, <1>5
<1> HIDE DEF B
<1>21. DOMAIN u = (DOMAIN t \ B) \cup {moved(r) : r \in B}
  <2>1. ASSUME NEW p \in DOMAIN u PROVE p \in (DOMAIN t \ B) \cup {moved(r) : r \in B}
    <3>1. PICK m \in DOMAIN nodes : p = Q[m] BY <1>4
    <3>2. CASE m \in G
      <4>1. p = moved(P[m]) /\ P[m] \in B BY <1>13, <1>19, <3>1, <3>2
      <4> QED BY <4>1
    <3>3. CASE m \notin G BY <1>14, <1>20, <3>1, <3>3
    <3> QED BY <3>2, <3>3
  <2>2. ASSUME NEW p \in DOMAIN t \ B PROVE p \in DOMAIN u
    <3>1. PICK m \in DOMAIN nodes \ G : p = P[m] BY <1>18
    <3> QED BY <1>4, <1>14, <3>1
  <2>3. ASSUME NEW r \in B PROVE moved(r) \in DOMAIN u
    <3>1. PICK m \in G : r = P[m] BY <1>17
    <3> QED BY <1>4, <1>6, <1>13, <3>1
  <2> QED BY <2>1, <2>2, <2>3
<1>22. ASSUME NEW r \in B PROVE u[moved(r)] = t[r]
  <2>1. PICK m \in G : r = P[m] BY <1>17
  <2> QED BY <1>6, <1>13, <1>16, <2>1
<1>23. ASSUME NEW p \in DOMAIN t \ B PROVE p \in DOMAIN u /\ u[p] = t[p]
  <2>1. PICK m \in DOMAIN nodes \ G : p = P[m] BY <1>18
  <2> QED BY <1>14, <1>16, <1>21, <2>1
<1>24. Tree!Below(P[n], DOMAIN t) = B BY DEF Tree!Below, Tree!IsPrefix, IsPrefix, B
<1>25. ~Tree!IsPrefix(P[n], q) /\ Tree!Front(q) = P[dir]
  BY <1>8, <1>11 DEF Tree!IsPrefix, IsPrefix, Tree!Front, Front
<1>26. Tree!IsDir(Tree!Front(q)) BY <1>12, <1>25 DEF Tree!IsDir, t
<1>27. Tree!Move(P[n], q)
  BY <1>9, <1>10, <1>21, <1>22, <1>23, <1>24, <1>25, <1>26
     DEF Tree!Move, Tree!Keeps, moved, k, t, u
<1>28. q \in DOMAIN u \ {<<>>} BY <1>1, <1>4, <1>8, <1>15
<1> QED BY <1>9, <1>27, <1>28 DEF t, u

-----------------------------------------------------------------------------
(* The commands implement the abstract tree.                                *)

LEMMA TreeStep == TitledInv /\ TitledInv' /\ Effect => [Tree!Next]_AsTree
<1> SUFFICES ASSUME TitledInv, TitledInv', Effect, AsTree' # AsTree PROVE Tree!Next OBVIOUS
<1>1. CASE Stands BY <1>1, StandsIsStutter
<1>2. ASSUME NEW p, NEW dir, NEW name, NEW type, Made(p, dir, name, type) PROVE Tree!Next
  BY <1>2, MadeIsCreate DEF Tree!Next
<1>3. ASSUME NEW n, Removed(n) PROVE Tree!Next BY <1>3, RemovedIsUnlink DEF Tree!Next
<1>4. ASSUME NEW n, NEW dir, NEW name, Shifted(n, dir, name) PROVE Tree!Next
  BY <1>4, ShiftedIsMove DEF Tree!Next
<1>5. ASSUME NEW f, Rewritten(f) PROVE Tree!Next BY <1>5, RewriteIsWrite DEF Tree!Next
<1> QED BY <1>1, <1>2, <1>3, <1>4, <1>5 DEF Effect

LEMMA TreeInit == Init => Tree!Init
<1> SUFFICES ASSUME Init PROVE Tree!Init OBVIOUS
<1> DEFINE P == PathOf(nodes)
           t == AsTree
<1>1. /\ Titled(nodes) /\ Shape(nodes)
      /\ \A n \in DOMAIN nodes : nodes[n].type = "dir" /\ nodes[n].data = NULL
  BY InitTitled, InitInv DEF IInv
<1>2. TitledInv BY <1>1, InitInv DEF TitledInv
<1>3. /\ PathsOn(nodes, DOMAIN nodes, P) /\ DOMAIN t = {P[n] : n \in DOMAIN nodes}
      /\ \A n \in DOMAIN nodes : t[P[n]] = EntryOf(nodes, bufs, n)
  BY <1>1, <1>2, PathOfIs, AsTreeDepicts DEF Depicts
<1> HIDE DEF P, t
<1>4. <<>> \in DOMAIN t BY <1>1, <1>3 DEF PathsOn, Shape, NodesOK
<1>5. \A p \in DOMAIN t : t[p] = [type |-> "dir", text |-> <<>>]
  <2>1. \A n \in DOMAIN nodes : EntryOf(nodes, bufs, n) = [type |-> "dir", text |-> <<>>]
    BY <1>1 DEF EntryOf, ContentsOf
  <2> QED BY <1>3, <2>1
<1>6. ASSUME NEW p \in DOMAIN t, p # <<>> PROVE Tree!Front(p) \in DOMAIN t
  <2>1. PICK n \in DOMAIN nodes : p = P[n] BY <1>3
  <2>2. n # root BY <1>3, <1>6, <2>1 DEF PathsOn
  <2>3. nodes[n].parent \in DOMAIN nodes BY <1>1, <2>2, HasParent
  <2>4. /\ P[nodes[n].parent] \in Seq(NodeName) /\ nodes[n].name \in NodeName
        /\ P[n] = Append(P[nodes[n].parent], nodes[n].name)
    BY <1>1, <1>3, <2>2, <2>3 DEF PathsOn, Titled, NodeName
  <2>5. Front(p) = P[nodes[n].parent] BY <2>1, <2>4, AppendIs
  <2>6. Tree!Front(p) = Front(p) BY DEF Tree!Front, Front
  <2> QED BY <1>3, <2>3, <2>5, <2>6
<1>7. \A p \in DOMAIN t : t[p].type = "dir" BY <1>5
<1> QED BY <1>4, <1>5, <1>6, <1>7 DEF Tree!Init, Tree!IsDir, t

\* The filesystem implements the abstract tree of FileTree: whatever is typed
\* and however often kmalloc() refuses, a step creates, rewrites, removes or
\* moves one entry with everything below it, or changes nothing, as long as no
\* path that is typed ends in a name too long for a node.
THEOREM TreeRefined ==
    ASSUME PathsFit
    PROVE  Spec => FileTreeHolds
<1>1. TitledInv /\ [Next]_vars => TitledInv' /\ [Tree!Next]_AsTree
  BY TitledNext, TreeStep
<1> QED BY <1>1, TreeInit, TitledInductive, PTL DEF Spec, FileTreeHolds, Tree!Spec
=============================================================================
