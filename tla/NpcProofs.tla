----------------------------- MODULE NpcProofs -----------------------------
(***************************************************************************)
(* Proofs about Npc, for any behaviour tree and any places round a target: *)
(* the three invariants of NpcFlow and the action property NeverBack.      *)
(*                                                                         *)
(* The library's induction theorems take an operator, which no prover      *)
(* instantiates: here an induction is over the nodes in a set.             *)
(***************************************************************************)
EXTENDS Npc, WellFoundedInduction, TLAPS

-----------------------------------------------------------------------------
(* Recursive functions.                                                    *)

\* What G makes of an argument x and of a function depends on the values of
\* the function at B[x].
Local(G, B, D, F) ==
    \A x \in D : \A f, g \in F :
        (\A y \in B[x] : f[y] = g[y]) => G[x][f] = G[x][g]

\* G defines a function from D to V in which no argument depends on itself.
Defines(G, B, D, F, V) ==
    /\ B \in [D -> SUBSET D]
    /\ \A S \in (SUBSET D) \ {{}} : \E x \in S : B[x] \cap S = {}
    /\ V # {} /\ F = [D -> V]
    /\ \A x \in D, f \in F : G[x][f] \in V
    /\ Local(G, B, D, F)

\* There is the function G defines.
LEMMA Recursion ==
    ASSUME NEW G, NEW B, NEW D, NEW F, NEW V, Defines(G, B, D, F, V)
    PROVE  \E f \in F : \A x \in D : f[x] = G[x][f]
<1>0. ASSUME NEW x \in D, NEW f \in F, NEW g \in F,
             \A y \in B[x] : f[y] = g[y]
      PROVE  G[x][f] = G[x][g]
  BY ONLY <1>0, Defines(G, B, D, F, V) DEF Local, Defines
<1>8. /\ B \in [D -> SUBSET D] /\ V # {} /\ F = [D -> V]
      /\ \A x \in D, f \in F : G[x][f] \in V
  BY DEF Defines
<1>9. \A S \in (SUBSET D) \ {{}} : \E x \in S : B[x] \cap S = {}
  BY DEF Defines
<1> DEFINE \* f is right on the set C, on which it depends on nothing else
           Right(C, f) == \A x \in C : B[x] \subseteq C /\ f[x] = G[x][f]
           Known(x) == \E C \in SUBSET D, f \in F : x \in C /\ Right(C, f)
           Value(x, v) == \E C \in SUBSET D, f \in F :
                             x \in C /\ Right(C, f) /\ f[x] = v
<1>1. ASSUME NEW C1 \in SUBSET D, NEW f1 \in F, Right(C1, f1),
             NEW C2 \in SUBSET D, NEW f2 \in F, Right(C2, f2)
      PROVE  \A x \in C1 \cap C2 : f1[x] = f2[x]
  <2> DEFINE S == {x \in C1 \cap C2 : f1[x] # f2[x]}
  <2> SUFFICES ASSUME S # {} PROVE FALSE
    OBVIOUS
  <2>1. S \in (SUBSET D) \ {{}}
    OBVIOUS
  <2> PICK x \in S : B[x] \cap S = {}
    BY <1>9, <2>1
  <2>2. \A y \in B[x] : f1[y] = f2[y]
    BY <1>1
  <2>3. G[x][f1] = G[x][f2]
    <3> HIDE DEF S, Right
    <3>1. x \in D
      BY DEF S
    <3> QED BY ONLY <1>0, <2>2, <3>1, f1 \in F, f2 \in F
  <2> QED BY <1>1, <2>3
<1>2. PICK v0 : v0 \in V
  BY <1>8
<1> DEFINE h == [x \in D |-> IF Known(x) THEN CHOOSE v \in V : Value(x, v) ELSE v0]
<1>3. \A x \in D : Known(x) => h[x] \in V /\ Value(x, h[x])
  <2> TAKE x \in D
  <2> HAVE Known(x)
  <2>1. \E v \in V : Value(x, v)
    <3> PICK C \in SUBSET D, f \in F : x \in C /\ Right(C, f)
      OBVIOUS
    <3>1. Value(x, f[x])
      OBVIOUS
    <3>2. f[x] \in V
      BY <1>8
    <3> HIDE DEF Value
    <3> QED BY <3>1, <3>2
  <2> HIDE DEF Value, Known
  <2> QED BY <2>1
<1>4. h \in F
  <2>1. \A x \in D : ~Known(x) => h[x] = v0
    OBVIOUS
  <2> HIDE DEF Known, Value
  <2> QED BY <1>8, <1>2, <1>3, <2>1
<1>5. ASSUME NEW C \in SUBSET D, NEW f \in F, Right(C, f)
      PROVE  \A x \in C : h[x] = f[x]
  <2> TAKE x \in C
  <2>1. Known(x)
    BY <1>5
  <2>2. Value(x, h[x])
    BY <1>3, <2>1
  <2>3. PICK C1 \in SUBSET D, f1 \in F :
            x \in C1 /\ Right(C1, f1) /\ f1[x] = h[x]
    BY <2>2
  <2> HIDE DEF Right, h, Known, Value
  <2> QED BY <1>1, <1>5, <2>3
<1> DEFINE K == {x \in D : Known(x)}
<1>6. Right(K, h)
  <2> SUFFICES ASSUME NEW x \in K PROVE B[x] \subseteq K /\ h[x] = G[x][h]
    OBVIOUS
  <2>1. PICK C \in SUBSET D, f \in F : x \in C /\ Right(C, f)
    OBVIOUS
  <2>2. C \subseteq K /\ B[x] \subseteq C /\ f[x] = G[x][f]
    BY <2>1
  <2>3. \A y \in C : h[y] = f[y]
    <3> HIDE DEF h, Right
    <3> QED BY <1>5, <2>1
  <2> HIDE DEF h, K, Right
  <2>4. G[x][h] = G[x][f]
    BY <1>0, <1>4, <2>1, <2>2, <2>3
  <2> QED BY <2>1, <2>2, <2>3, <2>4
<1>7. K = D
  <2> SUFFICES ASSUME D \ K # {} PROVE FALSE
    OBVIOUS
  <2>1. D \ K \in (SUBSET D) \ {{}}
    OBVIOUS
  <2>2. PICK x \in D \ K : B[x] \cap (D \ K) = {}
    BY <1>9, <2>1
  <2> DEFINE k == [h EXCEPT ![x] = G[x][h]]
  <2>3. B[x] \subseteq K /\ x \notin K /\ x \in D
    BY <1>8, <2>2
  <2>4. k \in F /\ k[x] = G[x][h] /\ \A y \in K : k[y] = h[y]
    <3> HIDE DEF h, K
    <3> QED BY <1>8, <1>4, <2>3
  <2>5. Right(K \cup {x}, k)
    <3> HIDE DEF h, k, K
    <3>1. \A y \in K : B[y] \subseteq K /\ h[y] = G[y][h]
      BY <1>6
    <3>2. \A y \in K : y \in D
      BY DEF K
    <3>3. \A y \in K \cup {x} : B[y] \subseteq K /\ G[y][k] = G[y][h]
      <4> SUFFICES ASSUME NEW y \in K \cup {x}
                   PROVE  B[y] \subseteq K /\ G[y][k] = G[y][h]
        OBVIOUS
      <4>1. B[y] \subseteq K /\ y \in D
        BY <2>3, <3>1, <3>2
      <4>2. \A z \in B[y] : k[z] = h[z]
        BY <2>4, <4>1
      <4> QED BY ONLY <1>0, <1>4, <2>4, <4>1, <4>2
    <3> QED BY <2>3, <2>4, <3>1, <3>3
  <2>6. K \cup {x} \in SUBSET D
    BY <2>3
  <2>7. Known(x)
    <3> HIDE DEF h, k, K, Right
    <3> QED BY <2>4, <2>5, <2>6
  <2> QED BY <2>3, <2>7
<1> HIDE DEF h, K
<1> QED BY <1>4, <1>6, <1>7

-----------------------------------------------------------------------------
(* The tree.                                                               *)

Closed(S) == \A n \in S \cap Composites : ChildrenOf(n) \subseteq S

\* A node and what hangs under it.
Below(n) == {m \in Nodes : \A S \in SUBSET Nodes : n \in S /\ Closed(S) => m \in S}

Hangs(x, p, i) == p \in Composites /\ i \in DOMAIN Children[p] /\ x = Children[p][i]

\* What NpcAssumption says of the tree.
LEMMA TreeFacts ==
    /\ Root \in Nodes /\ Tasks \subseteq Nodes /\ Composites \subseteq Nodes
    /\ Tasks \cap Composites = {} /\ Tasks \cup Composites = Nodes
    /\ \A p \in Composites :
          /\ Children[p] \in Seq(Nodes) /\ Len(Children[p]) \in Nat
          /\ DOMAIN Children[p] = 1..Len(Children[p])
          /\ \A i \in DOMAIN Children[p] : Children[p][i] \in Nodes
                                         /\ Children[p][i] \in ChildrenOf(p)
          /\ ChildrenOf(p) \subseteq Nodes
    /\ \A x, p, i : Hangs(x, p, i) => x \in Nodes /\ x # Root
    /\ \A x, p, q, i, j : Hangs(x, p, i) /\ Hangs(x, q, j) => p = q /\ i = j
<1>1. /\ Root \in Nodes /\ Children \in [Composites -> Seq(Nodes)]
      /\ \A m \in Composites : Root \notin ChildrenOf(m)
      /\ \A m, n \in Composites :
            \A i \in DOMAIN Children[m], j \in DOMAIN Children[n] :
               Children[m][i] = Children[n][j] => m = n /\ i = j
  BY NpcAssumption DEF IsTree
<1>2. /\ Tasks \subseteq Nodes /\ Composites \subseteq Nodes
      /\ Tasks \cap Composites = {} /\ Tasks \cup Composites = Nodes
  BY DEF Tasks, Composites
<1>3. ASSUME NEW p \in Composites
      PROVE  /\ Children[p] \in Seq(Nodes) /\ Len(Children[p]) \in Nat
             /\ DOMAIN Children[p] = 1..Len(Children[p])
             /\ \A i \in DOMAIN Children[p] : Children[p][i] \in Nodes
                                            /\ Children[p][i] \in ChildrenOf(p)
             /\ ChildrenOf(p) \subseteq Nodes
  <2>1. Children[p] \in Seq(Nodes)
    BY <1>1
  <2> QED BY <2>1 DEF ChildrenOf
<1>4. \A x, p, i : Hangs(x, p, i) => x \in Nodes /\ x # Root
  BY <1>1, <1>3 DEF Hangs
<1>5. \A x, p, q, i, j : Hangs(x, p, i) /\ Hangs(x, q, j) => p = q /\ i = j
  BY <1>1 DEF Hangs
<1> QED BY <1>1, <1>2, <1>3, <1>4, <1>5

\* Induction up the tree.
LEMMA FromRoot ==
    ASSUME NEW S \in SUBSET Nodes, Root \in S,
           \A n \in S \cap Composites : ChildrenOf(n) \subseteq S
    PROVE  S = Nodes
  BY NpcAssumption DEF IsTree

\* Induction from the leaves.
LEMMA FromLeaves ==
    ASSUME NEW S \in SUBSET Nodes,
           \A n \in Nodes : (n \in Composites => ChildrenOf(n) \subseteq S) => n \in S
    PROVE  S = Nodes
<1> SUFFICES ASSUME Nodes \ S # {} PROVE FALSE
  OBVIOUS
<1>1. Nodes \ S \in (SUBSET Nodes) \ {{}}
  OBVIOUS
<1> PICK n \in Nodes \ S : n \in Composites => ChildrenOf(n) \cap (Nodes \ S) = {}
  BY <1>1, NpcAssumption DEF IsTree
<1>2. n \in Composites => ChildrenOf(n) \subseteq S
  BY TreeFacts
<1> QED BY <1>2

\* Every node but the root hangs somewhere.
LEMMA Parent == \A x \in Nodes \ {Root} : \E p, i : Hangs(x, p, i)
<1> DEFINE S == {x \in Nodes : x = Root \/ \E p, i : Hangs(x, p, i)}
<1>1. Root \in S
  BY TreeFacts
<1>2. ASSUME NEW n \in S \cap Composites PROVE ChildrenOf(n) \subseteq S
  <2> SUFFICES ASSUME NEW c \in ChildrenOf(n) PROVE c \in S
    OBVIOUS
  <2>1. PICK i \in DOMAIN Children[n] : c = Children[n][i]
    BY DEF ChildrenOf
  <2>2. Hangs(c, n, i)
    BY <2>1 DEF Hangs
  <2> QED BY <2>2, TreeFacts
<1>3. S = Nodes
  <2>1. S \in SUBSET Nodes
    OBVIOUS
  <2> HIDE DEF S
  <2> QED BY <1>1, <1>2, <2>1, FromRoot
<1> QED BY <1>3

\* Induction from the root, over the parent of a node.
LEMMA FromParent ==
    ASSUME NEW S \in SUBSET Nodes, Root \in S,
           \A x, p, i : Hangs(x, p, i) /\ p \in S => x \in S
    PROVE  S = Nodes
<1>1. ASSUME NEW n \in S \cap Composites PROVE ChildrenOf(n) \subseteq S
  BY DEF ChildrenOf, Hangs
<1> QED BY <1>1, FromRoot

\* What hangs under a node.
LEMMA BelowFacts ==
    ASSUME NEW n \in Nodes
    PROVE  /\ Below(n) \subseteq Nodes /\ n \in Below(n)
           /\ \A x, p, i : Hangs(x, p, i) /\ p \in Below(n) => x \in Below(n)
           /\ \A x, p, i : Hangs(x, p, i) /\ x \in Below(n) => x = n \/ p \in Below(n)
           /\ \A S \in SUBSET Nodes :
                 n \in S /\ (\A x, p, i : Hangs(x, p, i) /\ p \in S => x \in S)
                    => Below(n) \subseteq S
<1>1. Below(n) \subseteq Nodes /\ n \in Below(n)
  BY DEF Below
<1>2. \A S \in SUBSET Nodes :
         Closed(S) <=> \A x, p, i : Hangs(x, p, i) /\ p \in S => x \in S
  BY DEF Closed, ChildrenOf, Hangs
<1>3. ASSUME NEW x, NEW p, NEW i, Hangs(x, p, i), p \in Below(n)
      PROVE  x \in Below(n)
  <2>1. x \in Nodes
    BY <1>3, TreeFacts
  <2>2. ASSUME NEW S \in SUBSET Nodes, n \in S, Closed(S) PROVE x \in S
    BY <1>2, <1>3, <2>2 DEF Below
  <2> QED BY <2>1, <2>2 DEF Below
<1>4. ASSUME NEW S \in SUBSET Nodes, n \in S,
             \A x, p, i : Hangs(x, p, i) /\ p \in S => x \in S
      PROVE  Below(n) \subseteq S
  BY <1>2, <1>4 DEF Below
<1>5. ASSUME NEW x, NEW p, NEW i, Hangs(x, p, i), x \in Below(n),
             x # n, p \notin Below(n)
      PROVE  FALSE
  <2> DEFINE S == Below(n) \ {x}
  <2>1. S \in SUBSET Nodes /\ n \in S
    BY <1>1, <1>5
  <2>2. ASSUME NEW y, NEW q, NEW j, Hangs(y, q, j), q \in S PROVE y \in S
    <3>1. y \in Below(n)
      BY <1>3, <2>2
    <3>2. y # x
      BY <1>5, <2>2, TreeFacts
    <3> QED BY <3>1, <3>2
  <2>3. Below(n) \subseteq S
    <3> HIDE DEF S
    <3> QED BY <1>4, <2>1, <2>2
  <2> QED BY <1>5, <2>3
<1> QED BY <1>1, <1>3, <1>4, <1>5

LEMMA BelowTransitive ==
    ASSUME NEW n \in Nodes, NEW m \in Below(n) PROVE Below(m) \subseteq Below(n)
<1>1. m \in Nodes
  BY BelowFacts
<1> QED BY <1>1, BelowFacts

\* No node hangs under itself.
LEMMA NoCycle ==
    ASSUME NEW x, NEW p, NEW i, Hangs(x, p, i) PROVE p \notin Below(x)
<1> SUFFICES ASSUME p \in Below(x) PROVE FALSE
  OBVIOUS
<1>1. x \in Nodes /\ p \in Nodes /\ p \in Composites /\ x \in ChildrenOf(p)
  BY TreeFacts DEF Hangs
<1> DEFINE C == {m \in Below(x) : p \in Below(m)}
           S == Nodes \ C
<1>2. C \subseteq Nodes /\ x \in C
  BY <1>1, BelowFacts
<1>3. ASSUME NEW n \in Nodes, n \in Composites => ChildrenOf(n) \subseteq S
      PROVE  n \in S
  <2> SUFFICES ASSUME n \in C PROVE FALSE
    OBVIOUS
  <2>1. p # n
    BY <1>1, <1>2, <1>3
  <2> DEFINE T == {n} \cup UNION {Below(c) : c \in IF n \in Composites
                                              THEN ChildrenOf(n) ELSE {}}
  <2>2. T \in SUBSET Nodes /\ n \in T
    BY BelowFacts, TreeFacts
  <2>3. ASSUME NEW y, NEW q, NEW j, Hangs(y, q, j), q \in T PROVE y \in T
    <3>1. CASE q = n
      <4>1. n \in Composites /\ y \in ChildrenOf(n) /\ y \in Nodes
        BY <2>3, <3>1, TreeFacts DEF Hangs
      <4> QED BY <4>1, BelowFacts
    <3>2. CASE q # n
      <4> PICK c : n \in Composites /\ c \in ChildrenOf(n) /\ q \in Below(c)
        BY <2>3, <3>2
      <4>1. y \in Below(c)
        BY <2>3, BelowFacts, TreeFacts
      <4> QED BY <4>1
    <3> QED BY <3>1, <3>2
  <2>4. Below(n) \subseteq T
    <3> HIDE DEF T
    <3> QED BY <2>2, <2>3, BelowFacts
  <2> PICK c : n \in Composites /\ c \in ChildrenOf(n) /\ p \in Below(c)
    BY <2>1, <2>4
  <2>5. c \in Below(x)
    <3>1. PICK k : Hangs(c, n, k)
      BY DEF ChildrenOf, Hangs
    <3> QED BY <1>1, <3>1, BelowFacts
  <2> QED BY <1>3, <2>5
<1>4. S = Nodes
  <2>1. S \in SUBSET Nodes
    OBVIOUS
  <2> HIDE DEF S
  <2> QED BY <1>3, <2>1, FromLeaves
<1> QED BY <1>2, <1>4

\* What hangs under two children of a node is different.
LEMMA Siblings ==
    ASSUME NEW p, NEW i, NEW j, NEW x, NEW y,
           Hangs(x, p, i), Hangs(y, p, j), i # j
    PROVE  Below(x) \cap Below(y) = {}
<1> DEFINE S == {m \in Nodes : ~(m \in Below(x) /\ m \in Below(y))}
<1>1. x \in Nodes /\ y \in Nodes /\ x # Root /\ y # Root /\ x # y
  BY TreeFacts
<1>2. ASSUME NEW z, NEW q, NEW k, Hangs(z, q, k), z \in Below(x), z \in Below(y)
      PROVE  q \in Below(x) /\ q \in Below(y)
  <2>1. z = x => q = p
    BY <1>2, TreeFacts
  <2>2. z = y => q = p
    BY <1>2, TreeFacts
  <2>3. z # y
    BY <1>1, <1>2, <2>2, BelowFacts, NoCycle
  <2>4. z # x
    BY <1>1, <1>2, <2>1, BelowFacts, NoCycle
  <2> QED BY <1>1, <1>2, <2>3, <2>4, BelowFacts
<1>3. Root \in S
  <2> SUFFICES ASSUME Root \in Below(x) PROVE FALSE
    BY TreeFacts
  <2> DEFINE T == Nodes \ {Root}
  <2>1. T \in SUBSET Nodes /\ x \in T
    BY <1>1
  <2>2. \A w, q, k : Hangs(w, q, k) /\ q \in T => w \in T
    BY TreeFacts
  <2>3. Below(x) \subseteq T
    <3> HIDE DEF T
    <3> QED BY <1>1, <2>1, <2>2, BelowFacts
  <2> QED BY <2>3
<1>4. S = Nodes
  <2>1. S \in SUBSET Nodes
    OBVIOUS
  <2>2. \A z, q, k : Hangs(z, q, k) /\ q \in S => z \in S
    BY <1>2, TreeFacts
  <2> HIDE DEF S
  <2> QED BY <1>3, <2>1, <2>2, FromParent
<1>5. Below(x) \subseteq Nodes
  BY <1>1, BelowFacts
<1> QED BY <1>4, <1>5

-----------------------------------------------------------------------------
(* The tasks under a node and to its right.                                *)

\* What collectNodes finds.
LEMMA TasksUnderIs ==
    /\ \A n \in Nodes : TasksUnder[n] \subseteq Tasks
    /\ \A n \in Nodes : TasksUnder[n] = IF n \in Tasks THEN {n}
                          ELSE UNION {TasksUnder[c] : c \in ChildrenOf(n)}
<1> DEFINE B == [n \in Nodes |-> IF n \in Composites THEN ChildrenOf(n) ELSE {}]
           V == SUBSET Tasks
           F == [Nodes -> V]
           G == [n \in Nodes |-> [f \in F |->
                   IF n \in Tasks THEN {n} ELSE UNION {f[c] : c \in ChildrenOf(n)}]]
           Body(f) == [n \in Nodes |->
                   IF n \in Tasks THEN {n} ELSE UNION {f[c] : c \in ChildrenOf(n)}]
<1>1. B \in [Nodes -> SUBSET Nodes]
  BY TreeFacts
<1>2. \A S \in (SUBSET Nodes) \ {{}} : \E x \in S : B[x] \cap S = {}
  <2> TAKE S \in (SUBSET Nodes) \ {{}}
  <2>1. PICK n \in S : n \in Composites => ChildrenOf(n) \cap S = {}
    BY NpcAssumption DEF IsTree
  <2> QED BY <2>1
<1>3. \A n \in Nodes, f \in F : G[n][f] \in V
  <2> SUFFICES ASSUME NEW n \in Nodes, NEW f \in F PROVE G[n][f] \in V
    OBVIOUS
  <2>1. CASE n \in Tasks
    BY <2>1
  <2>2. CASE n \notin Tasks
    <3>1. \A c \in ChildrenOf(n) : f[c] \subseteq Tasks
      BY <2>2, TreeFacts
    <3> QED BY <2>2, <3>1
  <2> QED BY <2>1, <2>2
<1>4. Local(G, B, Nodes, F)
  <2> SUFFICES ASSUME NEW n \in Nodes, NEW f \in F, NEW g \in F,
                      \A y \in B[n] : f[y] = g[y]
               PROVE  G[n][f] = G[n][g]
    BY DEF Local
  <2>1. CASE n \in Tasks
    BY <2>1
  <2>2. CASE n \notin Tasks
    <3>1. \A c \in ChildrenOf(n) : f[c] = g[c]
      BY <2>2, TreeFacts
    <3>2. {f[c] : c \in ChildrenOf(n)} = {g[c] : c \in ChildrenOf(n)}
      BY <3>1
    <3> QED BY <2>2, <3>2
  <2> QED BY <2>1, <2>2
<1> PICK f0 \in F : \A n \in Nodes : f0[n] = G[n][f0]
  <2>1. V # {} /\ F = [Nodes -> V]
    OBVIOUS
  <2> HIDE DEF B, V, F, G
  <2>2. Defines(G, B, Nodes, F, V)
    BY ONLY <1>1, <1>2, <1>3, <1>4, <2>1 DEF Defines
  <2> QED BY ONLY <2>2, Recursion
<1>5. f0 = Body(f0)
  OBVIOUS
<1>6. TasksUnder = Body(TasksUnder)
  <2> DEFINE H == CHOOSE f : f = Body(f)
  <2>1. H = Body(H)
    <3> HIDE DEF Body
    <3> QED BY <1>5
  <2>2. TasksUnder = H
    BY DEF TasksUnder
  <2> HIDE DEF H, Body
  <2> QED BY <2>1, <2>2
<1>7. \A n \in Nodes : TasksUnder[n] = IF n \in Tasks THEN {n}
                          ELSE UNION {TasksUnder[c] : c \in ChildrenOf(n)}
  BY <1>6
<1> DEFINE S == {n \in Nodes : TasksUnder[n] \subseteq Tasks}
<1>8. S = Nodes
  <2>1. S \in SUBSET Nodes
    OBVIOUS
  <2>2. ASSUME NEW n \in Nodes, n \in Composites => ChildrenOf(n) \subseteq S
        PROVE  n \in S
    <3>1. CASE n \in Tasks
      BY <1>7, <3>1
    <3>2. CASE n \in Composites
      <4>1. TasksUnder[n] = UNION {TasksUnder[c] : c \in ChildrenOf(n)}
        BY <1>7, <3>2, TreeFacts
      <4>2. \A c \in ChildrenOf(n) : TasksUnder[c] \subseteq Tasks
        BY <2>2, <3>2
      <4> QED BY <4>1, <4>2
    <3> QED BY <3>1, <3>2, TreeFacts
  <2> HIDE DEF S
  <2> QED BY <2>1, <2>2, FromLeaves
<1> QED BY <1>7, <1>8

\* They are the tasks that hang under it.
LEMMA TasksBelow == \A n \in Nodes : TasksUnder[n] = Below(n) \cap Tasks
<1>1. ASSUME NEW x, NEW p, NEW i, Hangs(x, p, i)
      PROVE  TasksUnder[x] \subseteq TasksUnder[p]
  <2>1. p \in Composites /\ p \in Nodes /\ p \notin Tasks /\ x \in ChildrenOf(p)
    BY <1>1, TreeFacts DEF Hangs
  <2>2. TasksUnder[p] = UNION {TasksUnder[c] : c \in ChildrenOf(p)}
    BY <2>1, TasksUnderIs
  <2> QED BY <2>1, <2>2
<1>2. ASSUME NEW n \in Nodes PROVE Below(n) \cap Tasks \subseteq TasksUnder[n]
  <2> DEFINE S == {m \in Nodes : TasksUnder[m] \subseteq TasksUnder[n]}
  <2>1. S \in SUBSET Nodes /\ n \in S
    OBVIOUS
  <2>2. \A x, p, i : Hangs(x, p, i) /\ p \in S => x \in S
    BY <1>1, TreeFacts
  <2>3. Below(n) \subseteq S
    <3> HIDE DEF S
    <3> QED BY <2>1, <2>2, BelowFacts
  <2>4. \A t \in Tasks : TasksUnder[t] = {t}
    BY TasksUnderIs, TreeFacts
  <2> QED BY <2>3, <2>4
<1> DEFINE S == {n \in Nodes : TasksUnder[n] \subseteq Below(n) \cap Tasks}
<1>3. S = Nodes
  <2>1. S \in SUBSET Nodes
    OBVIOUS
  <2>2. ASSUME NEW n \in Nodes, n \in Composites => ChildrenOf(n) \subseteq S
        PROVE  n \in S
    <3>1. CASE n \in Tasks
      BY <3>1, TasksUnderIs, BelowFacts
    <3>2. CASE n \in Composites
      <4>1. ASSUME NEW c \in ChildrenOf(n) PROVE TasksUnder[c] \subseteq Below(n) \cap Tasks
        <5>1. PICK i : Hangs(c, n, i)
          BY <3>2 DEF ChildrenOf, Hangs
        <5>2. c \in Below(n) /\ c \in S
          BY <2>2, <3>2, <5>1, BelowFacts
        <5> QED BY <5>2, BelowTransitive
      <4>2. TasksUnder[n] = UNION {TasksUnder[c] : c \in ChildrenOf(n)}
        BY <3>2, TasksUnderIs, TreeFacts
      <4> QED BY <4>1, <4>2
    <3> QED BY <3>1, <3>2, TreeFacts
  <2> HIDE DEF S
  <2> QED BY <2>1, <2>2, FromLeaves
<1> QED BY <1>2, <1>3

\* What getRightNodes finds.
LEMMA RightTasksIs ==
    /\ RightTasks[Root] = {}
    /\ \A x, p, i : Hangs(x, p, i) =>
          RightTasks[x] =
            RightTasks[p]
              \cup UNION {TasksUnder[Children[p][j]] : j \in (i+1)..Len(Children[p])}
<1> DEFINE Up(n) == CHOOSE m \in Composites : n \in ChildrenOf(m)
           At(n) == CHOOSE j \in DOMAIN Children[Up(n)] : Children[Up(n)][j] = n
           Beside(n) == UNION {TasksUnder[Children[Up(n)][j]] :
                                 j \in (At(n) + 1)..Len(Children[Up(n)])}
           B == [n \in Nodes |-> IF n = Root THEN {} ELSE {Up(n)}]
           V == SUBSET Tasks
           F == [Nodes -> V]
           G == [n \in Nodes |-> [f \in F |->
                   IF n = Root THEN {} ELSE f[Up(n)] \cup Beside(n)]]
           Body(f) == [n \in Nodes |->
                   IF n = Root THEN {} ELSE f[Up(n)] \cup Beside(n)]
<1>1. ASSUME NEW x, NEW p, NEW i, Hangs(x, p, i)
      PROVE  Up(x) = p /\ At(x) = i
  <2>1. p \in Composites /\ x \in ChildrenOf(p)
    BY <1>1, TreeFacts DEF Hangs
  <2>2. \A m \in Composites : x \in ChildrenOf(m) => m = p
    <3> SUFFICES ASSUME NEW m \in Composites, x \in ChildrenOf(m) PROVE m = p
      OBVIOUS
    <3>1. PICK k : Hangs(x, m, k)
      BY DEF ChildrenOf, Hangs
    <3> QED BY <1>1, <3>1, TreeFacts
  <2>3. Up(x) = p
    BY <2>1, <2>2
  <2>4. \A j \in DOMAIN Children[p] : Children[p][j] = x => j = i
    BY <1>1, <2>1, TreeFacts DEF Hangs
  <2>5. i \in DOMAIN Children[p] /\ Children[p][i] = x
    BY <1>1 DEF Hangs
  <2> HIDE DEF Up
  <2> QED BY <2>3, <2>4, <2>5
<1>2. ASSUME NEW n \in Nodes, n # Root
      PROVE  /\ Hangs(n, Up(n), At(n)) /\ Up(n) \in Nodes
             /\ Beside(n) \subseteq Tasks
  <2>1. PICK p, i : Hangs(n, p, i)
    BY <1>2, Parent
  <2>2. Up(n) = p /\ At(n) = i
    BY <1>1, <2>1
  <2> HIDE DEF Up, At
  <2>3. p \in Composites /\ i \in 1..Len(Children[p]) /\ Len(Children[p]) \in Nat
    BY <2>1, TreeFacts DEF Hangs
  <2>4. \A j \in (i+1)..Len(Children[p]) : Children[p][j] \in Nodes
    BY <2>3, TreeFacts
  <2> QED BY <2>1, <2>2, <2>3, <2>4, TreeFacts, TasksUnderIs
<1> HIDE DEF Up, At, Beside
<1>3. B \in [Nodes -> SUBSET Nodes]
  BY <1>2
<1>4. \A S \in (SUBSET Nodes) \ {{}} : \E x \in S : B[x] \cap S = {}
  <2> SUFFICES ASSUME NEW S \in (SUBSET Nodes) \ {{}},
                      \A x \in S : B[x] \cap S # {}
               PROVE  FALSE
    OBVIOUS
  <2> DEFINE C == Nodes \ S
  <2>1. C \in SUBSET Nodes /\ Root \in C
    BY TreeFacts
  <2>2. ASSUME NEW x, NEW p, NEW i, Hangs(x, p, i), p \in C PROVE x \in C
    <3>1. x \in Nodes /\ x # Root /\ Up(x) = p
      BY <1>1, <2>2, TreeFacts
    <3> QED BY <2>2, <3>1
  <2>3. C = Nodes
    <3> HIDE DEF C
    <3> QED BY <2>1, <2>2, FromParent
  <2> QED BY <2>3
<1>5. \A n \in Nodes, f \in F : G[n][f] \in V
  BY <1>2
<1>6. Local(G, B, Nodes, F)
  <2> SUFFICES ASSUME NEW n \in Nodes, NEW f \in F, NEW g \in F,
                      \A y \in B[n] : f[y] = g[y]
               PROVE  G[n][f] = G[n][g]
    BY DEF Local
  <2> QED OBVIOUS
<1> PICK f0 \in F : \A n \in Nodes : f0[n] = G[n][f0]
  <2>1. V # {} /\ F = [Nodes -> V]
    OBVIOUS
  <2> HIDE DEF B, V, F, G
  <2>2. Defines(G, B, Nodes, F, V)
    BY ONLY <1>3, <1>4, <1>5, <1>6, <2>1 DEF Defines
  <2> QED BY ONLY <2>2, Recursion
<1>7. f0 = Body(f0)
  OBVIOUS
<1>8. RightTasks = Body(RightTasks)
  <2> DEFINE H == CHOOSE f : f = Body(f)
  <2>1. H = Body(H)
    <3> HIDE DEF Body
    <3> QED BY <1>7
  <2>2. RightTasks = H
    BY DEF RightTasks, Up, At, Beside
  <2> HIDE DEF H, Body
  <2> QED BY <2>1, <2>2
<1>9. RightTasks[Root] = {}
  BY <1>8, TreeFacts
<1>10. ASSUME NEW x, NEW p, NEW i, Hangs(x, p, i)
       PROVE  RightTasks[x] =
                RightTasks[p]
                  \cup UNION {TasksUnder[Children[p][j]] : j \in (i+1)..Len(Children[p])}
  <2>1. x \in Nodes /\ x # Root /\ Up(x) = p /\ At(x) = i
    BY <1>1, <1>10, TreeFacts
  <2>2. RightTasks[x] = RightTasks[p] \cup Beside(x)
    BY <1>8, <2>1
  <2> QED BY <2>1, <2>2 DEF Beside
<1> QED BY <1>9, <1>10

\* Nothing under a node is to its right.
LEMMA NotOwnRight == \A n \in Nodes : Below(n) \cap RightTasks[n] = {}
<1> DEFINE S == {n \in Nodes : Below(n) \cap RightTasks[n] = {}}
<1>1. Root \in S
  BY TreeFacts, RightTasksIs
<1>2. ASSUME NEW x, NEW p, NEW i, Hangs(x, p, i), p \in S PROVE x \in S
  <2>1. x \in Nodes /\ x \in Below(p) /\ p \in Nodes /\ i \in 1..Len(Children[p])
        /\ Len(Children[p]) \in Nat /\ p \in Composites
    BY <1>2, BelowFacts, TreeFacts DEF Hangs
  <2>2. Below(x) \subseteq Below(p)
    BY <2>1, BelowTransitive
  <2>3. ASSUME NEW j \in (i+1)..Len(Children[p])
        PROVE  Below(x) \cap TasksUnder[Children[p][j]] = {}
    <3>1. j \in DOMAIN Children[p] /\ i # j
      BY <2>1, TreeFacts
    <3>2. Hangs(Children[p][j], p, j) /\ Children[p][j] \in Nodes
      BY <2>1, <3>1, TreeFacts DEF Hangs
    <3> QED BY <1>2, <3>1, <3>2, Siblings, TasksBelow
  <2>4. RightTasks[x] =
            RightTasks[p]
              \cup UNION {TasksUnder[Children[p][j]] : j \in (i+1)..Len(Children[p])}
    BY <1>2, RightTasksIs
  <2> QED BY <1>2, <2>1, <2>2, <2>3, <2>4
<1>3. S = Nodes
  <2>1. S \in SUBSET Nodes
    OBVIOUS
  <2> HIDE DEF S
  <2> QED BY <1>1, <1>2, <2>1, FromParent
<1> QED BY <1>3

\* What is under a child is not to the right of what is under a later one.
LEMMA NotRight ==
    ASSUME NEW p, NEW i, NEW j, NEW x, NEW y, Hangs(x, p, i), Hangs(y, p, j), i < j,
           NEW r \in TasksUnder[x], NEW t \in TasksUnder[y]
    PROVE  r \notin RightTasks[t]
<1>1. /\ x \in Nodes /\ y \in Nodes /\ p \in Nodes /\ p \in Composites
      /\ i \in 1..Len(Children[p]) /\ j \in 1..Len(Children[p])
      /\ Len(Children[p]) \in Nat
  BY TreeFacts DEF Hangs
<1>2. r \in Below(x) /\ t \in Below(y)
  BY <1>1, TasksBelow
<1>3. r \in Below(p) /\ r \notin Below(y)
  BY <1>1, <1>2, BelowFacts, BelowTransitive, Siblings
<1>4. ASSUME NEW q, NEW k, NEW z, Hangs(z, q, k), NEW w \in Nodes, r \notin Below(w),
             q \in Below(w), r \notin RightTasks[q]
      PROVE  r \notin RightTasks[z]
  <2>1. q \in Composites /\ k \in 1..Len(Children[q]) /\ Len(Children[q]) \in Nat
    BY <1>4, TreeFacts DEF Hangs
  <2>2. ASSUME NEW l \in (k+1)..Len(Children[q])
        PROVE  r \notin TasksUnder[Children[q][l]]
    <3>1. l \in DOMAIN Children[q]
      BY <2>1, TreeFacts
    <3>2. Hangs(Children[q][l], q, l) /\ Children[q][l] \in Nodes
      BY <2>1, <3>1, TreeFacts DEF Hangs
    <3>3. Children[q][l] \in Below(w)
      BY <1>4, <3>2, BelowFacts
    <3> QED BY <1>4, <3>2, <3>3, BelowTransitive, TasksBelow
  <2> QED BY <1>4, <2>2, RightTasksIs
<1>5. r \notin RightTasks[y]
  <2>1. r \notin RightTasks[p]
    BY <1>1, <1>3, NotOwnRight
  <2>2. ASSUME NEW l \in (j+1)..Len(Children[p])
        PROVE  r \notin TasksUnder[Children[p][l]]
    <3>1. l \in DOMAIN Children[p] /\ l # i
      BY <1>1, TreeFacts
    <3>2. Hangs(Children[p][l], p, l) /\ Children[p][l] \in Nodes
      BY <1>1, <3>1, TreeFacts DEF Hangs
    <3> QED BY <1>2, <3>1, <3>2, Siblings, TasksBelow
  <2> QED BY <2>1, <2>2, RightTasksIs
<1> DEFINE S == {z \in Below(y) : r \notin RightTasks[z]}
<1>6. Below(y) \subseteq S
  <2>1. S \in SUBSET Nodes /\ y \in S
    BY <1>1, <1>5, BelowFacts
  <2>2. ASSUME NEW z, NEW q, NEW k, Hangs(z, q, k), q \in S PROVE z \in S
    BY <1>1, <1>3, <1>4, <2>2, BelowFacts
  <2> HIDE DEF S
  <2> QED BY <1>1, <2>1, <2>2, BelowFacts
<1> QED BY <1>2, <1>6

-----------------------------------------------------------------------------
(* The inductive invariant.                                                *)

\* The task in progress is what the npc does, and it may still succeed.
DoesOK(s) ==
    LET t == s.ai.running IN
    /\ Kind[t] \in {"MoveTo", "Wait"} /\ s.fsm.state = Performing(t)
    /\ s.ai.latent # "InProgress" => s.ai.latent = "Succeeded" /\ s.fsm.ended
    /\ ExcuteLimit[t] > 0 => s.ai.counts[t] < ExcuteLimit[t]

\* The index of a composite leads to it.
LeadsOK(s, m) ==
    s.ai.running \in TasksUnder[m] =>
        /\ s.ai.indexes[m] \in DOMAIN Children[m]
        /\ s.ai.running \in TasksUnder[Children[m][s.ai.indexes[m]]]

\* The next tick resumes the task in progress, and finds it.
ResumesOK(s) ==
    s.ai.running # None => DoesOK(s) /\ \A m \in Composites : LeadsOK(s, m)

\* No success is missing from the counts.
CountsOK(s) ==
    \A t \in Tasks : ExcuteLimit[t] > 0 =>
        s.done[t] <= s.ai.counts[t] /\ s.done[t] <= ExcuteLimit[t]

\* The npc's place is neither free nor one of those the npcs in O hold.
PlaceOK(s, O) == s.token \notin s.free \cup O /\ O \cap s.free = {}

TypeOK == /\ Current \in NpcMembers /\ others \subseteq Tokens
          /\ tick \in BOOLEAN /\ refilled \in BOOLEAN

IInv == /\ TypeOK /\ ResumesOK(Current) /\ CountsOK(Current)
        /\ ~refilled => PlaceOK(Current, others)

-----------------------------------------------------------------------------
(* Movement and states.                                                    *)

\* The npc stays an npc, with at most a place of its own.
Kept(s, r) == /\ r \in NpcMembers
              /\ \A O \in SUBSET Tokens : PlaceOK(s, O) => PlaceOK(r, O)

\* Only the movement has changed.
OnlyMoved(s, r) == /\ Kept(s, r)
                   /\ r.ai = s.ai /\ r.fsm = s.fsm /\ r.done = s.done

LEMMA KeptTransitive ==
    ASSUME NEW s, NEW r, NEW q, Kept(s, r), Kept(r, q) PROVE Kept(s, q)
  BY DEF Kept

LEMMA MovedTransitive ==
    ASSUME NEW s, NEW r, NEW q, OnlyMoved(s, r), OnlyMoved(r, q)
    PROVE  OnlyMoved(s, q)
  BY DEF Kept, OnlyMoved

LEMMA MovedSame == ASSUME NEW s \in NpcMembers PROVE OnlyMoved(s, s)
  BY DEF Kept, OnlyMoved

\* What an npc has.
LEMMA MemberTypes ==
    ASSUME NEW s \in NpcMembers
    PROVE  /\ s.ai \in AiMembers /\ s.fsm \in FsmMembers /\ s.move \in MoveMembers
           /\ s.combat = [on |-> s.combat.on, pos |-> s.combat.pos]
           /\ s.combat.on \in BOOLEAN /\ s.combat.pos \in BOOLEAN
           /\ s.token \in Tokens \cup {None} /\ s.free \subseteq Tokens
           /\ s.done \in [Tasks -> Nat] /\ s.nextMove \in {"any", "zero", "set"}
           /\ s.here \in BOOLEAN
  BY DEF NpcMembers

LEMMA ReturnTokenOK ==
    ASSUME NEW s \in NpcMembers PROVE OnlyMoved(s, ReturnToken(s))
<1>1. None \notin Tokens
  BY NpcAssumption
<1>2. CASE s.token = None
  BY <1>2, MovedSame DEF ReturnToken
<1>3. CASE s.token # None
  <2> DEFINE r == [s EXCEPT !.free = IF s.here THEN @ \cup {s.token} ELSE @,
                            !.token = None]
  <2>1. ReturnToken(s) = r
    BY <1>3 DEF ReturnToken
  <2>2. /\ r \in NpcMembers /\ r.token = None
        /\ r.free = IF s.here THEN s.free \cup {s.token} ELSE s.free
        /\ r.ai = s.ai /\ r.fsm = s.fsm /\ r.done = s.done
    BY <1>3 DEF NpcMembers
  <2>3. s.free \subseteq Tokens
    BY DEF NpcMembers
  <2> HIDE DEF r
  <2>4. Kept(s, r)
    <3> SUFFICES ASSUME NEW O \in SUBSET Tokens, PlaceOK(s, O) PROVE PlaceOK(r, O)
      BY <2>2 DEF Kept
    <3>1. r.token \notin r.free \cup O
      BY <1>1, <2>2, <2>3, <1>3, MemberTypes DEF PlaceOK
    <3>2. O \cap r.free = {}
      BY <2>2 DEF PlaceOK
    <3> QED BY <3>1, <3>2 DEF PlaceOK
  <2> QED BY <2>1, <2>2, <2>4 DEF OnlyMoved
<1> QED BY <1>2, <1>3

\* A change of the movement alone.
LEMMA MoveOnly ==
    ASSUME NEW s \in NpcMembers, NEW m \in MoveMembers
    PROVE  OnlyMoved(s, [s EXCEPT !.move = m])
  BY DEF NpcMembers, OnlyMoved, Kept, PlaceOK

LEMMA StopOK == ASSUME NEW s \in NpcMembers PROVE OnlyMoved(s, Stop(s))
<1> DEFINE m == [s.move EXCEPT !.status = "Stop", !.point = TRUE, !.end = FALSE]
<1>1. s.move \in MoveMembers
  BY DEF NpcMembers
<1>2. m \in MoveMembers
  BY <1>1 DEF MoveMembers
<1>3. Stop(s) = s \/ Stop(s) = [s EXCEPT !.move = m]
  BY DEF Stop, NpcMembers
<1> HIDE DEF m
<1> QED BY <1>2, <1>3, MoveOnly, MovedSame

LEMMA MoveToGoalOK ==
    ASSUME NEW s \in NpcMembers, NEW path \in BOOLEAN
    PROVE  OnlyMoved(s, MoveToGoal(s, path).s)
<1> DEFINE back == IF s.move.status = "Moving" /\ s.move.type = "ToActor"
                   THEN ReturnToken(s) ELSE s
           typed == [back EXCEPT !.move.type = "Position"]
           led == [typed EXCEPT !.move.point = TRUE, !.move.end = TRUE]
           going == [led EXCEPT !.move.status = "Moving"]
           q == MoveToGoal(s, path).s
<1>1. OnlyMoved(s, back)
  BY ReturnTokenOK, MovedSame
<1>2. q = led \/ q = typed \/ q = going
  <2> HIDE DEF going, led, typed
  <2> QED BY DEF MoveToGoal, going, led, typed
<1> HIDE DEF back, q
<1>3. back \in NpcMembers /\ back.move \in MoveMembers
  BY <1>1 DEF OnlyMoved, Kept, NpcMembers
<1>4. \E m \in MoveMembers : q = [back EXCEPT !.move = m]
  <2> DEFINE m1 == [back.move EXCEPT !.type = "Position"]
             m2 == [m1 EXCEPT !.point = TRUE, !.end = TRUE]
             m3 == [m2 EXCEPT !.status = "Moving"]
  <2>1. m1 \in MoveMembers /\ m2 \in MoveMembers /\ m3 \in MoveMembers
    BY <1>3 DEF MoveMembers
  <2>2. typed = [back EXCEPT !.move = m1]
    BY <1>3 DEF NpcMembers
  <2>3. led = [back EXCEPT !.move = m2]
    BY <1>3 DEF NpcMembers
  <2>4. going = [back EXCEPT !.move = m3]
    BY <1>3 DEF NpcMembers
  <2> HIDE DEF m1, m2, m3, typed, led, going
  <2> QED BY <1>2, <2>1, <2>2, <2>3, <2>4
<1>5. OnlyMoved(back, q)
  BY <1>3, <1>4, MoveOnly
<1> QED BY <1>1, <1>5, MovedTransitive DEF q

LEMMA MoveToActorOK ==
    ASSUME NEW s \in NpcMembers, NEW token0 \in Tokens, NEW path \in BOOLEAN
    PROVE  /\ OnlyMoved(s, MoveToActor(s, token0, path).s)
           /\ MoveToActor(s, token0, path).ok \in BOOLEAN
<1> DEFINE back == ReturnToken(s)
           m == [status |-> "Moving", type |-> "ToActor", point |-> TRUE,
                 end |-> FALSE]
           gone == [TakeToken(back, token0) EXCEPT !.move = m]
           res == MoveToActor(s, token0, path)
<1>1. OnlyMoved(s, back)
  BY ReturnTokenOK
<1>2. ASSUME IsValidState(s) /\ s.here, path /\ token0 \in back.free
      PROVE  res = [s |-> gone, ok |-> TRUE]
  BY <1>2 DEF MoveToActor
<1>3. ASSUME IsValidState(s) /\ s.here, ~(path /\ token0 \in back.free)
      PROVE  res = [s |-> back, ok |-> FALSE]
  BY <1>3 DEF MoveToActor
<1>4. ASSUME ~(IsValidState(s) /\ s.here) PROVE res = [s |-> s, ok |-> FALSE]
  BY <1>4 DEF MoveToActor
<1> HIDE DEF res, back
<1>5. back \in NpcMembers
  BY <1>1 DEF OnlyMoved, Kept
<1>6. ASSUME token0 \in back.free PROVE OnlyMoved(back, gone)
  <2>1. /\ gone \in NpcMembers /\ gone.token = token0
        /\ gone.free = back.free \ {token0}
        /\ gone.ai = back.ai /\ gone.fsm = back.fsm /\ gone.done = back.done
    BY <1>5 DEF NpcMembers, MoveMembers, TakeToken
  <2> HIDE DEF gone
  <2> QED BY <1>6, <2>1 DEF OnlyMoved, Kept, PlaceOK
<1> HIDE DEF gone
<1>7. CASE ~(IsValidState(s) /\ s.here)
  <2>1. res.s = s /\ res.ok = FALSE
    BY <1>4, <1>7
  <2> QED BY <2>1, MovedSame DEF res
<1>8. CASE IsValidState(s) /\ s.here /\ path /\ token0 \in back.free
  <2>1. res.s = gone /\ res.ok = TRUE
    BY <1>2, <1>8
  <2>2. OnlyMoved(s, gone)
    BY <1>1, <1>6, <1>8, MovedTransitive
  <2> QED BY <2>1, <2>2 DEF res
<1>9. CASE IsValidState(s) /\ s.here /\ ~(path /\ token0 \in back.free)
  <2>1. res.s = back /\ res.ok = FALSE
    BY <1>3, <1>9
  <2> QED BY <1>1, <2>1 DEF res
<1> QED BY <1>7, <1>8, <1>9

\* What a change of state does to an npc that is not in a fight it leaves: the
\* tree's data stays, but for the result that waits.
OnlyLeft(s, r) ==
    /\ Kept(s, r)
    /\ r.ai.running = s.ai.running /\ r.ai.indexes = s.ai.indexes
    /\ r.ai.counts = s.ai.counts /\ r.done = s.done

\* What it does to any.
Left(s, r) ==
    /\ Kept(s, r)
    /\ r.ai.running = s.ai.running
    /\ CountsOK(s) => CountsOK(r)

LEMMA MovedLeft ==
    ASSUME NEW s, NEW r, OnlyMoved(s, r) PROVE OnlyLeft(s, r) /\ r.fsm = s.fsm
  BY DEF OnlyMoved, OnlyLeft

LEMMA OnlyLeftIsLeft == ASSUME NEW s, NEW r, OnlyLeft(s, r) PROVE Left(s, r)
  BY DEF OnlyLeft, Left, CountsOK

LEMMA OnlyLeftTransitive ==
    ASSUME NEW s, NEW r, NEW q, OnlyLeft(s, r), OnlyLeft(r, q)
    PROVE  OnlyLeft(s, q)
  BY DEF OnlyLeft, Kept

LEMMA LeftTransitive ==
    ASSUME NEW s, NEW r, NEW q, Left(s, r), Left(r, q) PROVE Left(s, q)
  BY DEF Left, Kept

LEMMA SetLatentOK ==
    ASSUME NEW s \in NpcMembers, NEW ret \in Answers
    PROVE  /\ OnlyLeft(s, SetLatent(s, ret))
           /\ SetLatent(s, ret).fsm = s.fsm
           /\ SetLatent(s, ret).ai.latent = ret
<1> DEFINE a == [s.ai EXCEPT !.latent = ret, !.dirty = TRUE]
           r == [s EXCEPT !.ai = a]
<1>1. SetLatent(s, ret) = r
  BY DEF SetLatent, NpcMembers
<1>2. s.ai \in AiMembers
  BY MemberTypes
<1>3. /\ a \in AiMembers /\ a.running = s.ai.running /\ a.indexes = s.ai.indexes
      /\ a.counts = s.ai.counts /\ a.latent = ret
  BY <1>2 DEF AiMembers
<1> HIDE DEF a
<1>4. OnlyLeft(s, r) /\ r.fsm = s.fsm /\ r.ai = a
  BY <1>3 DEF NpcMembers, OnlyLeft, Kept, PlaceOK
<1> QED BY <1>1, <1>3, <1>4

LEMMA ExitOK ==
    ASSUME NEW s \in NpcMembers PROVE OnlyLeft(s, Exit(s))
<1>1. "Failed" \in Answers
  BY DEF Answers
<1>2. OnlyLeft(s, s)
  BY MovedSame, MovedLeft
<1> QED BY <1>1, <1>2, SetLatentOK DEF Exit

LEMMA EnterCombatOK ==
    ASSUME NEW s \in NpcMembers PROVE OnlyMoved(s, EnterCombat(s))
<1> DEFINE r == [s EXCEPT !.combat = [on |-> TRUE, pos |-> TRUE]]
<1>1. OnlyMoved(s, r)
  BY DEF NpcMembers, OnlyMoved, Kept, PlaceOK
<1> QED BY <1>1, MovedSame DEF EnterCombat

LEMMA SwitchOff ==
    ASSUME NEW c \in [on : BOOLEAN, pos : BOOLEAN], NEW v
    PROVE  [c EXCEPT !.on = v] = [on |-> v, pos |-> c.pos]
  OBVIOUS

LEMMA ExitCombatOK ==
    ASSUME NEW s \in NpcMembers
    PROVE  Left(s, ExitCombat(s)) /\ ExitCombat(s).fsm = s.fsm
<1> DEFINE a == [s.ai EXCEPT !.dirty = FALSE, !.cooling = {}, !.force = None,
                             !.counts = [t \in Tasks |-> 0]]
           zero == [t \in Tasks |-> 0]
           r == [s EXCEPT !.ai = a, !.combat = [on |-> FALSE, pos |-> s.combat.pos],
                          !.done = zero]
<1>1. CASE ~s.combat.on
  <2>1. Left(s, s)
    BY MovedSame, MovedLeft, OnlyLeftIsLeft
  <2> QED BY <1>1, <2>1 DEF ExitCombat
<1>2. CASE s.combat.on
  <2>1. ResetAi([s EXCEPT !.combat.on = FALSE]) = r
    <3> DEFINE b == [s EXCEPT !.combat.on = FALSE]
    <3>1. DOMAIN s.ai.counts = Tasks /\ DOMAIN s.done = Tasks
      BY DEF NpcMembers, AiMembers
    <3>2. b = [s EXCEPT !.combat = [on |-> FALSE, pos |-> s.combat.pos]]
          /\ b.ai = s.ai /\ b.done = s.done
      <4>1. [s.combat EXCEPT !.on = FALSE] = [on |-> FALSE, pos |-> s.combat.pos]
        <5> DEFINE c == s.combat
        <5>1. c \in [on : BOOLEAN, pos : BOOLEAN]
          BY DEF NpcMembers
        <5> HIDE DEF c
        <5>2. [c EXCEPT !.on = FALSE] = [on |-> FALSE, pos |-> c.pos]
          BY <5>1, SwitchOff
        <5> QED BY <5>2 DEF c
      <4>2. b = [s EXCEPT !.combat = [s.combat EXCEPT !.on = FALSE]]
            /\ b.ai = s.ai /\ b.done = s.done
        BY DEF NpcMembers
      <4> QED BY <4>1, <4>2
    <3>3. ResetAi(b) = [b EXCEPT !.ai = a, !.done = zero]
      <4> HIDE DEF b
      <4> QED BY <3>1, <3>2 DEF ResetAi, NpcMembers, AiMembers
    <3> QED BY <3>2, <3>3 DEF NpcMembers
  <2>2. s.ai \in AiMembers
    BY MemberTypes
  <2>3. a \in AiMembers /\ a.running = s.ai.running /\ a.counts = zero
    BY <2>2 DEF AiMembers
  <2>4. zero \in [Tasks -> Nat] /\ \A t \in Tasks : zero[t] = 0
    OBVIOUS
  <2> HIDE DEF a, zero
  <2>5. /\ r \in NpcMembers /\ r.ai = a /\ r.done = zero /\ r.fsm = s.fsm
        /\ r.token = s.token /\ r.free = s.free
    BY <2>3, <2>4 DEF NpcMembers
  <2> HIDE DEF r
  <2>6. CountsOK(r)
    BY <2>3, <2>4, <2>5, NpcAssumption DEF CountsOK, IsTree
  <2>7. Left(s, r)
    BY <2>3, <2>5, <2>6 DEF Left, Kept, PlaceOK
  <2>8. OnlyMoved(r, ReturnToken(r))
    BY <2>5, ReturnTokenOK
  <2>9. ExitCombat(s) = ReturnToken(r)
    BY <1>2, <2>1 DEF ExitCombat
  <2> QED BY <2>5, <2>7, <2>8, <2>9, MovedLeft, OnlyLeftIsLeft, LeftTransitive
<1> QED BY <1>1, <1>2

LEMMA EnterReturnOK ==
    ASSUME NEW s \in NpcMembers, NEW path \in BOOLEAN
    PROVE  Left(s, EnterReturn(s, path)) /\ EnterReturn(s, path).fsm.state = s.fsm.state
<1> DEFINE out == ExitCombat(s)
           to == MoveToGoal(out, path)
           from == IF out.combat.pos THEN to.s ELSE out
           home == [Stop(from) EXCEPT !.fsm.goal = Exact]
           r == EnterReturn(s, path)
<1>1. Left(s, out) /\ out.fsm = s.fsm /\ out \in NpcMembers
  BY ExitCombatOK DEF Left, Kept
<1>2. OnlyMoved(out, to.s) /\ OnlyMoved(out, from)
  BY <1>1, MoveToGoalOK, MovedSame
<1>3. r = to.s \/ r = home
  BY DEF EnterReturn
<1> HIDE DEF out, to, from, r
<1>4. OnlyMoved(out, Stop(from)) /\ Stop(from) \in NpcMembers
  BY <1>2, StopOK, MovedTransitive DEF OnlyMoved, Kept
<1>5. OnlyLeft(Stop(from), home) /\ home.fsm.state = Stop(from).fsm.state
  <2> DEFINE q == Stop(from)
  <2> HIDE DEF q
  <2>1. q \in NpcMembers /\ q.fsm \in FsmMembers
    BY <1>4, MemberTypes DEF q
  <2>2. [q.fsm EXCEPT !.goal = Exact] \in FsmMembers
    BY <2>1 DEF FsmMembers
  <2> DEFINE h == [q EXCEPT !.fsm.goal = Exact]
  <2>3. /\ h \in NpcMembers /\ h.ai = q.ai /\ h.token = q.token /\ h.free = q.free
        /\ h.done = q.done /\ h.fsm.state = q.fsm.state
    BY <2>1, <2>2 DEF NpcMembers, FsmMembers
  <2> HIDE DEF h
  <2>4. OnlyLeft(q, h) /\ h.fsm.state = q.fsm.state
    BY <2>3 DEF OnlyLeft, Kept, PlaceOK
  <2> QED BY <2>4 DEF h, q
<1> HIDE DEF home
<1>6. Left(out, r) /\ r.fsm.state = out.fsm.state
  <2>1. Stop(from).fsm = out.fsm /\ to.s.fsm = out.fsm
    BY <1>2, <1>4 DEF OnlyMoved
  <2>2. Left(out, to.s) /\ Left(out, Stop(from)) /\ Left(Stop(from), home)
    BY <1>2, <1>4, <1>5, MovedLeft, OnlyLeftIsLeft
  <2> QED BY <1>3, <1>5, <2>1, <2>2, LeftTransitive
<1> QED BY <1>1, <1>6, LeftTransitive DEF r

LEMMA ChangeStateOK ==
    ASSUME NEW s \in NpcMembers, NEW state \in NpcStates,
           NEW goal \in {Exact, Near, Far}, NEW path \in BOOLEAN
    PROVE  LET r == ChangeState(s, state, goal, path)
           IN  /\ Left(s, r) /\ r.fsm.state = state
               /\ state # "Return" => OnlyLeft(s, r)
<1> DEFINE out == Exit(s)
           f == [state |-> state, ended |-> FALSE, timeUp |-> FALSE,
                 goal |-> IF state = "Return" THEN goal ELSE Exact]
           in == [out EXCEPT !.fsm = f, !.move.end = FALSE]
           r == ChangeState(s, state, goal, path)
<1>1. OnlyLeft(s, out) /\ out \in NpcMembers
  BY ExitOK DEF OnlyLeft, Kept
<1>2. f \in FsmMembers /\ f.state = state /\ f.ended = FALSE
  BY DEF FsmMembers, NpcStates, Exact
<1>3. r = CASE state = "Spawn" -> EnterSpawn(in)
            [] state = "Chase" -> EnterChase(in)
            [] state = "Return" -> EnterReturn(in, path)
            [] state = "Waiting" -> EnterWaiting(in)
            [] state = "MoveTo" -> EnterMoveTo(in, goal)
            [] OTHER -> in
  BY DEF ChangeState
<1> HIDE DEF out, f, r
<1>4. OnlyLeft(out, in) /\ in.fsm = f /\ in \in NpcMembers
  <2> DEFINE m == [out.move EXCEPT !.end = FALSE]
  <2>1. m \in MoveMembers
    BY <1>1, MemberTypes DEF MoveMembers
  <2>2. /\ in \in NpcMembers /\ in.ai = out.ai /\ in.token = out.token
        /\ in.free = out.free /\ in.done = out.done /\ in.fsm = f
    BY <1>1, <1>2, <2>1 DEF NpcMembers, MoveMembers
  <2> HIDE DEF in
  <2> QED BY <2>2 DEF OnlyLeft, Kept, PlaceOK
<1> HIDE DEF in
<1>5. CASE state = "Spawn"
  <2> DEFINE a == [in.ai EXCEPT !.dirty = TRUE]
             q == [in EXCEPT !.ai = a]
  <2>1. in.ai \in AiMembers
    BY <1>4, MemberTypes
  <2>2. /\ a \in AiMembers /\ a.running = in.ai.running /\ a.indexes = in.ai.indexes
        /\ a.counts = in.ai.counts
    BY <2>1 DEF AiMembers
  <2>3. r = q
    BY <1>3, <1>4, <1>5 DEF EnterSpawn, NpcMembers
  <2> HIDE DEF a
  <2>4. /\ q \in NpcMembers /\ q.ai = a /\ q.token = in.token /\ q.free = in.free
        /\ q.done = in.done /\ q.fsm = in.fsm
    BY <1>4, <2>2 DEF NpcMembers
  <2> HIDE DEF q
  <2>5. OnlyLeft(in, r) /\ r.fsm = in.fsm
    BY <2>2, <2>3, <2>4 DEF OnlyLeft, Kept, PlaceOK
  <2>6. OnlyLeft(s, r)
    BY <1>1, <1>4, <2>5, OnlyLeftTransitive
  <2> QED BY <1>2, <1>4, <2>5, <2>6, OnlyLeftIsLeft DEF r
<1>6. CASE state \in {"Chase", "Waiting"}
  <2>1. OnlyMoved(in, r)
    BY <1>3, <1>4, <1>6, EnterCombatOK, StopOK DEF EnterChase, EnterWaiting
  <2>2. OnlyLeft(in, r) /\ r.fsm = in.fsm
    BY <2>1, MovedLeft
  <2>3. OnlyLeft(s, r)
    BY <1>1, <1>4, <2>2, OnlyLeftTransitive
  <2> QED BY <1>2, <1>4, <2>2, <2>3, OnlyLeftIsLeft DEF r
<1>7. CASE state = "Return"
  <2>1. r = EnterReturn(in, path)
    BY <1>3, <1>7
  <2>2. Left(in, r) /\ r.fsm.state = in.fsm.state
    BY <1>4, <2>1, EnterReturnOK
  <2>3. Left(s, r)
    BY <1>1, <1>4, <2>2, OnlyLeftIsLeft, LeftTransitive
  <2> QED BY <1>2, <1>4, <1>7, <2>2, <2>3 DEF r
<1>8. CASE state = "MoveTo"
  <2> DEFINE g == [f EXCEPT !.ended = FALSE, !.goal = goal]
             q == [in EXCEPT !.fsm = g]
  <2>1. g \in FsmMembers /\ g.state = f.state
    BY <1>2 DEF FsmMembers
  <2>2. r = q
    BY <1>3, <1>4, <1>8 DEF EnterMoveTo, NpcMembers
  <2> HIDE DEF g
  <2>3. /\ q \in NpcMembers /\ q.ai = in.ai /\ q.token = in.token /\ q.free = in.free
        /\ q.done = in.done /\ q.fsm = g
    BY <1>4, <2>1 DEF NpcMembers
  <2> HIDE DEF q
  <2>4. OnlyLeft(in, r) /\ r.fsm.state = in.fsm.state
    BY <1>4, <2>1, <2>2, <2>3 DEF OnlyLeft, Kept, PlaceOK
  <2>5. OnlyLeft(s, r)
    BY <1>1, <1>4, <2>4, OnlyLeftTransitive
  <2> QED BY <1>2, <1>4, <2>4, <2>5, OnlyLeftIsLeft DEF r
<1>9. CASE state \notin {"Spawn", "Chase", "Return", "Waiting", "MoveTo"}
  <2>1. r = in
    BY <1>3, <1>9
  <2>2. OnlyLeft(s, r)
    BY <1>1, <1>4, <2>1, OnlyLeftTransitive
  <2> QED BY <1>2, <1>4, <2>1, <2>2, OnlyLeftIsLeft DEF r
<1> QED BY <1>5, <1>6, <1>7, <1>8, <1>9

-----------------------------------------------------------------------------
(* The updates of the states.                                              *)

\* An update leaves what ResumesOK speaks of, or tells the task's success.
LEMMA FinishedOK ==
    ASSUME NEW s \in NpcMembers
    PROVE  /\ OnlyLeft(s, Finished(s)) /\ Finished(s).fsm.state = s.fsm.state
           /\ Finished(s).fsm.ended /\ Finished(s).ai.latent = "Succeeded"
<1> DEFINE f == [s.fsm EXCEPT !.ended = TRUE]
           q == [s EXCEPT !.fsm = f]
<1>1. s.fsm \in FsmMembers /\ "Succeeded" \in Answers
  BY MemberTypes DEF Answers
<1>2. f \in FsmMembers /\ f.state = s.fsm.state /\ f.ended
  BY <1>1 DEF FsmMembers
<1>3. Finished(s) = SetLatent(q, "Succeeded")
  BY DEF Finished, NpcMembers
<1> HIDE DEF f
<1>4. /\ q \in NpcMembers /\ q.ai = s.ai /\ q.token = s.token /\ q.free = s.free
      /\ q.done = s.done /\ q.fsm = f
  BY <1>2 DEF NpcMembers
<1> HIDE DEF q
<1>5. OnlyLeft(s, q)
  BY <1>4 DEF OnlyLeft, Kept, PlaceOK
<1>6. /\ OnlyLeft(q, Finished(s)) /\ Finished(s).fsm = f
      /\ Finished(s).ai.latent = "Succeeded"
  BY <1>1, <1>3, <1>4, SetLatentOK
<1> QED BY <1>2, <1>5, <1>6, OnlyLeftTransitive

\* What the updates keep: the task in progress is still what the npc does.
Updated(s, r) ==
    Left(s, r) /\ (s.ai.running \in Tasks \cup {None} /\ ResumesOK(s) => ResumesOK(r))

LEMMA FinishedUpdated ==
    ASSUME NEW s \in NpcMembers PROVE Updated(s, Finished(s))
<1> DEFINE r == Finished(s)
<1>1. /\ OnlyLeft(s, r) /\ r.fsm.state = s.fsm.state
      /\ r.fsm.ended /\ r.ai.latent = "Succeeded"
  BY FinishedOK
<1> HIDE DEF r
<1>2. ResumesOK(s) => ResumesOK(r)
  BY <1>1 DEF ResumesOK, DoesOK, LeadsOK, OnlyLeft
<1> QED BY <1>1, <1>2, OnlyLeftIsLeft DEF Updated, r

LEMMA MovedUpdated ==
    ASSUME NEW s, NEW r, OnlyMoved(s, r) PROVE Updated(s, r)
<1>1. Left(s, r)
  BY MovedLeft, OnlyLeftIsLeft
<1>2. ResumesOK(s) => ResumesOK(r)
  BY DEF ResumesOK, DoesOK, LeadsOK, OnlyMoved
<1> QED BY <1>1, <1>2 DEF Updated

\* In a state no task is performed in, nothing is running.
LEMMA IdleUpdated ==
    ASSUME NEW s \in NpcMembers, NEW r, Left(s, r),
           s.fsm.state \notin {"MoveTo", "Waiting"}
    PROVE  Updated(s, r)
<1>1. ResumesOK(s) => s.ai.running = None
  BY DEF ResumesOK, DoesOK, LeadsOK, Performing
<1>2. ResumesOK(s) => ResumesOK(r)
  BY <1>1 DEF ResumesOK, DoesOK, LeadsOK, Left
<1> QED BY <1>2 DEF Updated

LEMMA UpdateSpawnOK ==
    ASSUME NEW s \in NpcMembers, s.fsm.state = "Spawn" PROVE Updated(s, UpdateSpawn(s))
<1>1. "Idle" \in NpcStates /\ Exact \in {Exact, Near, Far} /\ FALSE \in BOOLEAN
  BY DEF NpcStates
<1>2. Left(s, ChangeState(s, "Idle", Exact, FALSE)) /\ Left(s, s)
  BY <1>1, ChangeStateOK, MovedSame, MovedLeft, OnlyLeftIsLeft
<1>3. Left(s, UpdateSpawn(s))
  BY <1>2 DEF UpdateSpawn
<1> QED BY <1>3, IdleUpdated

LEMMA UpdateWaitingOK ==
    ASSUME NEW s \in NpcMembers PROVE Updated(s, UpdateWaiting(s))
  BY FinishedUpdated, MovedSame, MovedUpdated DEF UpdateWaiting

LEMMA UpdateMoveToOK ==
    ASSUME NEW s \in NpcMembers, NEW path \in BOOLEAN
    PROVE  Updated(s, UpdateMoveTo(s, path))
<1>1. Updated(s, s) /\ Updated(s, Finished(s)) /\ Updated(s, MoveToGoal(s, path).s)
  BY FinishedUpdated, MovedSame, MoveToGoalOK, MovedUpdated
<1> QED BY <1>1 DEF UpdateMoveTo

LEMMA UpdateReturnOK ==
    ASSUME NEW s \in NpcMembers, s.fsm.state = "Return"
    PROVE  Updated(s, UpdateReturn(s))
<1>1. "Idle" \in NpcStates /\ Exact \in {Exact, Near, Far} /\ FALSE \in BOOLEAN
  BY DEF NpcStates
<1>2. Left(s, s)
  BY MovedSame, MovedLeft, OnlyLeftIsLeft
<1>3. Left(s, Stop(s)) /\ Stop(s) \in NpcMembers
  BY StopOK, MovedLeft, OnlyLeftIsLeft DEF Left, Kept
<1>4. Left(s, ChangeState(Stop(s), "Idle", Exact, FALSE))
  BY <1>1, <1>3, ChangeStateOK, LeftTransitive
<1>5. Left(s, ChangeState(s, "Idle", Exact, FALSE))
  BY <1>1, ChangeStateOK
<1>6. Left(s, UpdateReturn(s))
  BY <1>2, <1>4, <1>5 DEF UpdateReturn, Teleport
<1> QED BY <1>6, IdleUpdated

LEMMA UpdateRoamingOK ==
    ASSUME NEW s \in NpcMembers, NEW due \in BOOLEAN, NEW path \in BOOLEAN,
           s.fsm.state = "Roaming"
    PROVE  Updated(s, UpdateRoaming(s, due, path))
<1> DEFINE next == IF s.nextMove = "zero" /\ s.move.status \in {"MoveCompleted", "Stop"}
                   THEN "set" ELSE s.nextMove
           timed == [s EXCEPT !.nextMove = next]
           bound == [timed EXCEPT !.fsm.goal = Far]
           to == MoveToGoal(bound, path)
           sent == [to.s EXCEPT !.nextMove = IF to.ok THEN "zero" ELSE @,
                                !.fsm.goal = Exact, !.move.end = FALSE]
           r == UpdateRoaming(s, due, path)
<1>1. r = sent \/ r = timed
  <2>1. timed = [s EXCEPT !.nextMove =
                    IF @ = "zero" /\ s.move.status \in {"MoveCompleted", "Stop"}
                    THEN "set" ELSE @]
    BY DEF NpcMembers
  <2> HIDE DEF timed
  <2> QED BY <2>1 DEF UpdateRoaming
<1>2. next \in {"any", "zero", "set"}
  BY MemberTypes
<1> HIDE DEF next, r
<1>3. OnlyMoved(s, timed) /\ timed \in NpcMembers
  BY <1>2 DEF NpcMembers, OnlyMoved, Kept, PlaceOK
<1> HIDE DEF timed
<1>4. OnlyLeft(timed, bound) /\ bound \in NpcMembers
  <2>1. /\ bound \in NpcMembers /\ bound.ai = timed.ai /\ bound.token = timed.token
        /\ bound.free = timed.free /\ bound.done = timed.done
    BY <1>3 DEF NpcMembers, FsmMembers
  <2> HIDE DEF bound
  <2> QED BY <2>1 DEF OnlyLeft, Kept, PlaceOK
<1> HIDE DEF bound
<1>5. OnlyMoved(bound, to.s) /\ to.s \in NpcMembers
  BY <1>4, MoveToGoalOK DEF OnlyMoved, Kept
<1>6. OnlyLeft(to.s, sent)
  <2> DEFINE q == to.s
             go == to.ok
             n == IF go THEN "zero" ELSE q.nextMove
             w == [q EXCEPT !.nextMove = IF go THEN "zero" ELSE @,
                            !.fsm.goal = Exact, !.move.end = FALSE]
  <2>1. q \in NpcMembers
    BY <1>5
  <2>2. sent = w
    OBVIOUS
  <2> HIDE DEF q, go, to, sent
  <2>3. n \in {"any", "zero", "set"} /\ q.nextMove \in {"any", "zero", "set"}
    BY <2>1, MemberTypes
  <2>4. /\ w \in NpcMembers /\ w.ai = q.ai /\ w.token = q.token
        /\ w.free = q.free /\ w.done = q.done
    <3> DEFINE f == [q.fsm EXCEPT !.goal = Exact]
               m == [q.move EXCEPT !.end = FALSE]
    <3>1. w = [q EXCEPT !.nextMove = n, !.fsm = f, !.move = m]
      BY <2>1 DEF NpcMembers
    <3>2. f \in FsmMembers /\ m \in MoveMembers
      BY <2>1, MemberTypes DEF FsmMembers, MoveMembers
    <3> HIDE DEF f, m, n, w
    <3> QED BY <2>1, <2>3, <3>1, <3>2 DEF NpcMembers
  <2> HIDE DEF w
  <2>5. OnlyLeft(q, w)
    BY <2>4 DEF OnlyLeft, Kept, PlaceOK
  <2> QED BY <2>2, <2>5 DEF q
<1> HIDE DEF to, sent
<1>7. OnlyLeft(s, timed) /\ OnlyLeft(s, sent)
  BY <1>3, <1>4, <1>5, <1>6, MovedLeft, OnlyLeftTransitive
<1>8. Left(s, r)
  BY <1>1, <1>7, OnlyLeftIsLeft
<1> QED BY <1>8, IdleUpdated DEF r

\* Where the npc stops says nothing of its tasks.
LEMMA ArriveOK ==
    ASSUME NEW s \in NpcMembers, NEW left \in {Exact, Near, Far}
    PROVE  Updated(s, Arrive(s, left))
<1> DEFINE r == Arrive(s, left)
<1>1. /\ r \in NpcMembers /\ r.ai = s.ai /\ r.token = s.token
      /\ r.free = s.free /\ r.done = s.done
      /\ r.fsm.state = s.fsm.state /\ r.fsm.ended = s.fsm.ended
  BY DEF NpcMembers, MoveMembers, FsmMembers, Arrive
<1> HIDE DEF r
<1>2. OnlyLeft(s, r)
  BY <1>1 DEF OnlyLeft, Kept, PlaceOK
<1>3. ResumesOK(s) => ResumesOK(r)
  BY <1>1 DEF ResumesOK, DoesOK, LeadsOK
<1> QED BY <1>2, <1>3, OnlyLeftIsLeft DEF Updated, r

-----------------------------------------------------------------------------
(* The execution of a task.                                                *)

Results == [s : NpcMembers, ret : Answers]

LEMMA EnvFacts ==
    ASSUME NEW env \in Envs
    PROVE  /\ env.goal \in {Exact, Near, Far} /\ env.path \in BOOLEAN
           /\ env.token \in Tokens
  BY DEF Envs

\* A change of the tree's data that leaves what is running and counted.
LEMMA AiOnly ==
    ASSUME NEW s \in NpcMembers, NEW a \in AiMembers,
           a.running = s.ai.running, a.indexes = s.ai.indexes,
           a.counts = s.ai.counts
    PROVE  LET r == [s EXCEPT !.ai = a] IN OnlyLeft(s, r) /\ r.ai = a /\ r.fsm = s.fsm
<1> DEFINE r == [s EXCEPT !.ai = a]
<1>1. /\ r \in NpcMembers /\ r.ai = a /\ r.fsm = s.fsm /\ r.done = s.done
      /\ r.token = s.token /\ r.free = s.free
  BY DEF NpcMembers
<1> HIDE DEF r
<1>2. OnlyLeft(s, r)
  BY <1>1 DEF OnlyLeft, Kept, PlaceOK
<1> QED BY <1>1, <1>2 DEF r

\* The decorators change nothing but which node is forced to succeed.
LEMMA DecoratedOK ==
    ASSUME NEW n \in Nodes, NEW s \in NpcMembers, NEW env \in Envs
    PROVE  LET deco == Decorated(n, s, env)
           IN  /\ OnlyLeft(s, deco.s) /\ deco.s.fsm = s.fsm
               /\ deco.s.ai.latent = s.ai.latent /\ deco.ok \in BOOLEAN
<1> DEFINE a == [s.ai EXCEPT !.force = n]
           q == [s EXCEPT !.ai = a]
           deco == Decorated(n, s, env)
<1>1. deco.s = q \/ deco.s = s
  <2>1. q = [s EXCEPT !.ai.force = n]
    BY DEF NpcMembers
  <2> HIDE DEF q
  <2> QED BY <2>1 DEF Decorated
<1>2. deco.ok \in BOOLEAN
  BY DEF Decorated
<1>3. s.ai \in AiMembers
  BY MemberTypes
<1>4. /\ a \in AiMembers /\ a.running = s.ai.running /\ a.indexes = s.ai.indexes
      /\ a.counts = s.ai.counts /\ a.latent = s.ai.latent
  BY <1>3 DEF AiMembers
<1> HIDE DEF a, deco
<1>5. OnlyLeft(s, q) /\ q.ai = a /\ q.fsm = s.fsm
  BY <1>4, AiOnly
<1>6. OnlyLeft(s, s)
  BY MovedSame, MovedLeft
<1> HIDE DEF q
<1> QED BY <1>1, <1>2, <1>4, <1>5, <1>6 DEF deco

\* A task that is in progress has put the npc into its state.
LEMMA PerformOK ==
    ASSUME NEW t \in Tasks, NEW s \in NpcMembers, NEW env \in Envs
    PROVE  LET own == Perform(t, s, env)
           IN  /\ OnlyLeft(s, own.s) /\ own.ret \in Answers
               /\ own.ret = "InProgress" =>
                     Kind[t] \in {"MoveTo", "Wait"} /\ own.s.fsm.state = Performing(t)
<1> DEFINE own == Perform(t, s, env)
           to == MoveToActor(s, env.token, env.path)
<1>1. Kind[t] \in {"MoveTo", "Wait", "Approach", "Chase"}
  BY NpcAssumption DEF IsTree, Tasks, Composites
<1>2. /\ {"MoveTo", "Waiting", "Chase"} \subseteq NpcStates /\ FALSE \in BOOLEAN
      /\ Exact \in {Exact, Near, Far} /\ {"Succeeded", "Failed", "InProgress"} = Answers
  BY DEF NpcStates, Answers
<1>3. CASE Kind[t] = "MoveTo"
  <2> DEFINE g == env.goal
             x == ChangeState(s, "MoveTo", g, FALSE)
  <2>1. own = [s |-> x, ret |-> "InProgress"]
    BY <1>3 DEF Perform
  <2>2. g \in {Exact, Near, Far}
    BY EnvFacts
  <2> HIDE DEF own, g
  <2>3. OnlyLeft(s, x) /\ x.fsm.state = "MoveTo"
    BY <1>2, <2>2, ChangeStateOK
  <2> HIDE DEF x
  <2>4. own.s = x /\ own.ret = "InProgress" /\ Performing(t) = "MoveTo"
    BY <1>3, <2>1 DEF Performing
  <2> QED BY <1>2, <1>3, <2>3, <2>4 DEF own
<1>4. CASE Kind[t] = "Wait"
  <2> DEFINE x == ChangeState(s, "Waiting", Exact, FALSE)
  <2>1. own = [s |-> x, ret |-> "InProgress"]
    BY <1>4 DEF Perform
  <2> HIDE DEF own
  <2>2. OnlyLeft(s, x) /\ x.fsm.state = "Waiting"
    BY <1>2, ChangeStateOK
  <2> HIDE DEF x
  <2>3. own.s = x /\ own.ret = "InProgress" /\ Performing(t) = "Waiting"
    BY <1>4, <2>1 DEF Performing
  <2> QED BY <1>2, <1>4, <2>2, <2>3 DEF own
<1>5. CASE Kind[t] = "Chase"
  <2> DEFINE x == ChangeState(s, "Chase", Exact, FALSE)
  <2>1. own = [s |-> x, ret |-> "Succeeded"]
    BY <1>5 DEF Perform
  <2> HIDE DEF own
  <2>2. OnlyLeft(s, x)
    BY <1>2, ChangeStateOK
  <2> HIDE DEF x
  <2>3. own.s = x /\ own.ret = "Succeeded"
    BY <2>1
  <2> QED BY <1>2, <2>2, <2>3 DEF own
<1>6. CASE Kind[t] = "Approach"
  <2>1. own = [s |-> to.s, ret |-> IF to.ok THEN "Succeeded" ELSE "Failed"]
    BY <1>6 DEF Perform
  <2>2. OnlyLeft(s, to.s)
    BY EnvFacts, MoveToActorOK, MovedLeft
  <2> HIDE DEF own, to
  <2>3. own.s = to.s /\ own.ret \in {"Succeeded", "Failed"}
    BY <2>1
  <2> QED BY <1>2, <2>2, <2>3 DEF own
<1> QED BY <1>1, <1>3, <1>4, <1>5, <1>6

\* The answer of a task that is told is its own, and not in progress if the
\* task is not.  A success is counted.
LEMMA ToldOK ==
    ASSUME NEW t \in Tasks, NEW s \in NpcMembers, NEW ret \in Answers
    PROVE  LET r == OnTaskResult(t, s, ret)
           IN  /\ Kept(s, r.s) /\ r.ret \in Answers /\ r \in Results
               /\ r.ret = "InProgress" <=> ret = "InProgress"
               /\ r.s.ai.running = s.ai.running /\ r.s.ai.indexes = s.ai.indexes
               /\ r.s.ai.latent = s.ai.latent /\ r.s.fsm = s.fsm /\ r.s.done = s.done
               /\ \A u \in Tasks : r.s.ai.counts[u] >= s.ai.counts[u]
               /\ (ret = "Succeeded" /\ ExcuteLimit[t] > 0
                     /\ s.ai.counts[t] <= ExcuteLimit[t])
                    => r.s.ai.counts[t] = s.ai.counts[t] + 1
               /\ ret # "Succeeded" => r.s = s
<1> DEFINE limit == ExcuteLimit[t]
           n == IF limit > 0 /\ s.ai.counts[t] <= limit THEN s.ai.counts[t] + 1
                ELSE s.ai.counts[t]
           c == [s.ai.counts EXCEPT ![t] = n]
           k == IF CoolTime[t] THEN s.ai.cooling \cup {t} ELSE s.ai.cooling
           a == [s.ai EXCEPT !.counts = c, !.cooling = k]
           q == [s EXCEPT !.ai = a]
           r == OnTaskResult(t, s, ret)
<1>1. s.ai \in AiMembers
  BY MemberTypes
<1>2. r = [s |-> IF ret = "Succeeded" THEN q ELSE s,
           ret |-> IF ret = "Failed" /\ s.ai.force = t THEN "Succeeded" ELSE ret]
  <2>1. q = [s EXCEPT !.ai.counts[t] = IF limit > 0 /\ @ <= limit THEN @ + 1 ELSE @,
                      !.ai.cooling = IF CoolTime[t] THEN @ \cup {t} ELSE @]
    BY <1>1 DEF NpcMembers, AiMembers
  <2> HIDE DEF q, n, c, k, a
  <2> QED BY <2>1 DEF OnTaskResult
<1>3. /\ s.ai.counts \in [Tasks -> Nat] /\ s.ai.cooling \in SUBSET Tasks
      /\ limit \in Int
  BY <1>1, NpcAssumption DEF AiMembers, IsTree
<1>4. /\ n \in Nat /\ n >= s.ai.counts[t]
      /\ limit > 0 /\ s.ai.counts[t] <= limit => n = s.ai.counts[t] + 1
  BY <1>3
<1> HIDE DEF n
<1>5. /\ c \in [Tasks -> Nat] /\ c[t] = n
      /\ \A u \in Tasks : c[u] >= s.ai.counts[u]
  BY <1>3, <1>4
<1>6. k \in SUBSET Tasks
  BY <1>3
<1> HIDE DEF c, k
<1>7. /\ a \in AiMembers /\ a.running = s.ai.running /\ a.indexes = s.ai.indexes
      /\ a.latent = s.ai.latent /\ a.counts = c
  BY <1>1, <1>5, <1>6 DEF AiMembers
<1> HIDE DEF a
<1>8. /\ q \in NpcMembers /\ q.ai = a /\ q.fsm = s.fsm /\ q.done = s.done
      /\ q.token = s.token /\ q.free = s.free
  BY <1>7 DEF NpcMembers
<1> HIDE DEF q, r
<1>9. Kept(s, q) /\ Kept(s, s)
  BY <1>8 DEF Kept, PlaceOK
<1>10. CASE ret = "Succeeded"
  <2>1. r = [s |-> q, ret |-> "Succeeded"]
    BY <1>2, <1>10
  <2> HIDE DEF limit
  <2> QED BY <1>4, <1>5, <1>7, <1>8, <1>9, <1>10, <2>1 DEF r, Results, Answers, limit
<1>11. CASE ret # "Succeeded"
  <2>1. r.s = s /\ r = [s |-> s, ret |-> r.ret]
    BY <1>2, <1>11
  <2>2. r.ret \in Answers /\ (r.ret = "InProgress" <=> ret = "InProgress")
    BY <1>2, <1>11 DEF Answers
  <2>3. \A u \in Tasks : s.ai.counts[u] >= s.ai.counts[u]
    BY <1>3
  <2>4. r \in Results
    BY <2>1, <2>2 DEF Results
  <2> QED BY <1>9, <1>11, <2>1, <2>2, <2>3, <2>4 DEF r
<1> QED BY <1>10, <1>11

\* What a result that is told leaves alone.
Tells(s, r, ret) ==
    /\ Kept(s, r.s) /\ r \in Results
    /\ r.ret = "InProgress" <=> ret = "InProgress"
    /\ r.s.ai.running = s.ai.running /\ r.s.ai.indexes = s.ai.indexes
    /\ ret # "Succeeded" => r.s = s

LEMMA AchievedOK ==
    ASSUME NEW t \in Tasks, NEW s \in NpcMembers, NEW ret \in Answers
    PROVE  LET q == Achieved(t, s, ret)
           IN  /\ Kept(s, q) /\ q.ai = s.ai
               /\ ret # "Succeeded" => q = s
               /\ \A u \in Tasks : ExcuteLimit[u] > 0 =>
                     q.done[u] = IF u = t /\ ret = "Succeeded"
                                 THEN s.done[u] + 1 ELSE s.done[u]
<1> DEFINE d == [s.done EXCEPT ![t] = s.done[t] + 1]
           q == [s EXCEPT !.done = d]
           r == Achieved(t, s, ret)
<1>1. s.done \in [Tasks -> Nat]
  BY MemberTypes
<1>2. d \in [Tasks -> Nat] /\ d[t] = s.done[t] + 1
      /\ \A u \in Tasks \ {t} : d[u] = s.done[u]
  BY <1>1
<1>3. r = IF ret = "Succeeded" /\ ExcuteLimit[t] > 0 THEN q ELSE s
  <2>1. q = [s EXCEPT !.done[t] = @ + 1]
    BY <1>1 DEF NpcMembers
  <2> HIDE DEF q
  <2> QED BY <2>1 DEF Achieved
<1> HIDE DEF d
<1>4. /\ q \in NpcMembers /\ q.ai = s.ai /\ q.done = d
      /\ q.token = s.token /\ q.free = s.free
  BY <1>2 DEF NpcMembers
<1> HIDE DEF q, r
<1>5. Kept(s, q) /\ Kept(s, s)
  BY <1>4 DEF Kept, PlaceOK
<1>6. CASE ret = "Succeeded" /\ ExcuteLimit[t] > 0
  <2>1. r = q
    BY <1>3, <1>6
  <2> QED BY <1>2, <1>4, <1>5, <1>6, <2>1 DEF r
<1>7. CASE ~(ret = "Succeeded" /\ ExcuteLimit[t] > 0)
  <2>1. r = s
    BY <1>3, <1>7
  <2> QED BY <1>5, <1>7, <2>1 DEF r
<1> QED BY <1>6, <1>7

\* A success is counted when it is achieved.
LEMMA CountedOK ==
    ASSUME NEW t \in Tasks, NEW s \in NpcMembers, NEW ret \in Answers
    PROVE  LET r == OnTaskResult(t, Achieved(t, s, ret), ret)
           IN  /\ Tells(s, r, ret)
               /\ (/\ CountsOK(s)
                   /\ ExcuteLimit[t] > 0 => s.ai.counts[t] < ExcuteLimit[t])
                    => CountsOK(r.s)
<1> DEFINE q == Achieved(t, s, ret)
           r == OnTaskResult(t, q, ret)
<1>1. /\ Kept(s, q) /\ q.ai = s.ai
      /\ ret # "Succeeded" => q = s
      /\ \A u \in Tasks : ExcuteLimit[u] > 0 =>
            q.done[u] = IF u = t /\ ret = "Succeeded" THEN s.done[u] + 1
                        ELSE s.done[u]
  BY AchievedOK
<1> HIDE DEF q
<1>2. q \in NpcMembers
  BY <1>1 DEF Kept
<1>3. /\ Kept(q, r.s) /\ r \in Results
      /\ r.ret = "InProgress" <=> ret = "InProgress"
      /\ r.s.ai.running = q.ai.running /\ r.s.ai.indexes = q.ai.indexes
      /\ r.s.done = q.done
      /\ \A u \in Tasks : r.s.ai.counts[u] >= q.ai.counts[u]
      /\ (ret = "Succeeded" /\ ExcuteLimit[t] > 0
            /\ q.ai.counts[t] <= ExcuteLimit[t])
           => r.s.ai.counts[t] = q.ai.counts[t] + 1
      /\ ret # "Succeeded" => r.s = q
  BY <1>2, ToldOK
<1> HIDE DEF r
<1>4. Tells(s, r, ret)
  <2>1. Kept(s, r.s)
    BY <1>1, <1>3, KeptTransitive
  <2> QED BY <1>1, <1>3, <2>1 DEF Tells
<1>5. ASSUME CountsOK(s), ExcuteLimit[t] > 0 => s.ai.counts[t] < ExcuteLimit[t]
      PROVE  CountsOK(r.s)
  <2> SUFFICES ASSUME NEW u \in Tasks, ExcuteLimit[u] > 0
               PROVE  r.s.done[u] <= r.s.ai.counts[u] /\ r.s.done[u] <= ExcuteLimit[u]
    BY DEF CountsOK
  <2>1. s.done[u] <= s.ai.counts[u] /\ s.done[u] <= ExcuteLimit[u]
    BY <1>5 DEF CountsOK
  <2>2. /\ s.done[u] \in Nat /\ s.ai.counts[u] \in Nat /\ ExcuteLimit[u] \in Int
        /\ r.s.ai.counts[u] \in Nat
    <3>1. r.s \in NpcMembers
      BY <1>3 DEF Results
    <3>2. ExcuteLimit[u] \in Int
      BY NpcAssumption DEF IsTree
    <3> QED BY <3>1, <3>2, MemberTypes DEF AiMembers
  <2>3. CASE u = t /\ ret = "Succeeded"
    <3>1. /\ r.s.done[u] = s.done[u] + 1 /\ s.ai.counts[u] < ExcuteLimit[u]
          /\ q.ai.counts[u] = s.ai.counts[u]
      BY <1>1, <1>3, <1>5, <2>3
    <3>2. r.s.ai.counts[u] = s.ai.counts[u] + 1
      BY <1>3, <2>2, <2>3, <3>1
    <3> QED BY <2>1, <2>2, <3>1, <3>2
  <2>4. CASE ~(u = t /\ ret = "Succeeded")
    <3>1. r.s.done[u] = s.done[u] /\ r.s.ai.counts[u] >= s.ai.counts[u]
      BY <1>1, <1>3, <2>4
    <3> QED BY <2>1, <2>2, <3>1
  <2> QED BY <2>3, <2>4
<1> QED BY <1>4, <1>5 DEF q, r

\* A result of something else than the task's own function.
LEMMA RefusedOK ==
    ASSUME NEW t \in Tasks, NEW s \in NpcMembers, NEW ret \in Answers
    PROVE  LET r == OnTaskResult(t, s, ret)
           IN  Tells(s, r, ret) /\ (CountsOK(s) => CountsOK(r.s))
<1> DEFINE r == OnTaskResult(t, s, ret)
<1>1. /\ Kept(s, r.s) /\ r \in Results
      /\ r.ret = "InProgress" <=> ret = "InProgress"
      /\ r.s.ai.running = s.ai.running /\ r.s.ai.indexes = s.ai.indexes
      /\ r.s.done = s.done
      /\ \A u \in Tasks : r.s.ai.counts[u] >= s.ai.counts[u]
      /\ ret # "Succeeded" => r.s = s
  BY ToldOK
<1> HIDE DEF r
<1>2. Tells(s, r, ret)
  BY <1>1 DEF Tells
<1>3. ASSUME CountsOK(s) PROVE CountsOK(r.s)
  <2> SUFFICES ASSUME NEW u \in Tasks, ExcuteLimit[u] > 0
               PROVE  r.s.done[u] <= r.s.ai.counts[u] /\ r.s.done[u] <= ExcuteLimit[u]
    BY DEF CountsOK
  <2>1. s.done[u] <= s.ai.counts[u] /\ s.done[u] <= ExcuteLimit[u]
    BY <1>3 DEF CountsOK
  <2>2. /\ s.done[u] \in Nat /\ s.ai.counts[u] \in Nat /\ r.s.ai.counts[u] \in Nat
    <3>1. r.s \in NpcMembers
      BY <1>1 DEF Results
    <3> QED BY <3>1, MemberTypes DEF AiMembers
  <2> QED BY <1>1, <2>1, <2>2
<1> QED BY <1>2, <1>3 DEF r

LEMMA SetRunningTaskOK ==
    ASSUME NEW t \in Tasks, NEW s \in NpcMembers
    PROVE  LET r == SetRunningTask(s, t)
           IN  /\ Kept(s, r) /\ r.ai.running = t /\ r.ai.latent = "InProgress"
               /\ r.ai.indexes = s.ai.indexes /\ r.ai.counts = s.ai.counts
               /\ r.fsm = s.fsm /\ r.done = s.done
<1> DEFINE a == [s.ai EXCEPT !.running = t, !.latent = "InProgress"]
           r == [s EXCEPT !.ai = a]
<1>1. SetRunningTask(s, t) = r
  BY DEF SetRunningTask, NpcMembers
<1>2. s.ai \in AiMembers
  BY MemberTypes
<1>3. /\ a \in AiMembers /\ a.running = t /\ a.latent = "InProgress"
      /\ a.indexes = s.ai.indexes /\ a.counts = s.ai.counts
  BY <1>2 DEF AiMembers, Answers
<1> HIDE DEF a
<1>4. /\ r \in NpcMembers /\ r.ai = a /\ r.fsm = s.fsm /\ r.done = s.done
      /\ r.token = s.token /\ r.free = s.free
  BY <1>3 DEF NpcMembers
<1> HIDE DEF r
<1>5. Kept(s, r)
  BY <1>4 DEF Kept, PlaceOK
<1> QED BY <1>1, <1>3, <1>4, <1>5

\* What executing t comes to from a state it may resume.
TaskOK(t, s, r) ==
    /\ CountsOK(r.s)
    /\ r.s.ai.indexes = s.ai.indexes
    /\ r.ret # "InProgress" => r.s.ai.running = s.ai.running
    /\ r.ret = "InProgress" => r.s.ai.running = t /\ DoesOK(r.s)

LEMMA TaskToldOK ==
    ASSUME NEW t, NEW s, NEW q, NEW r, NEW ret, Tells(q, r, ret),
           CountsOK(r.s), q.ai.indexes = s.ai.indexes,
           ret # "InProgress" => q.ai.running = s.ai.running,
           ret = "InProgress" => q.ai.running = t /\ DoesOK(q)
    PROVE  TaskOK(t, s, r)
<1>1. ret = "InProgress" => r.s = q
  BY DEF Tells
<1> QED BY <1>1 DEF Tells, TaskOK

\* A task that begins: it is in progress in its own state, its limit not yet
\* reached.
LEMMA BegunOK ==
    ASSUME NEW t \in Tasks, NEW s \in NpcMembers, NEW env \in Envs
    PROVE  LET own == Perform(t, s, env)
               q == IF own.ret = "InProgress" THEN SetRunningTask(own.s, t) ELSE own.s
           IN  /\ Kept(s, q) /\ own.ret \in Answers
               /\ q.ai.indexes = s.ai.indexes /\ q.ai.counts = s.ai.counts
               /\ q.done = s.done
               /\ own.ret # "InProgress" => q.ai.running = s.ai.running
               /\ (/\ own.ret = "InProgress"
                   /\ ExcuteLimit[t] > 0 => s.ai.counts[t] < ExcuteLimit[t])
                    => q.ai.running = t /\ DoesOK(q)
<1> DEFINE own == Perform(t, s, env)
           x == own.s
           ret == own.ret
           set == SetRunningTask(x, t)
           q == IF ret = "InProgress" THEN set ELSE x
<1>1. /\ OnlyLeft(s, x) /\ ret \in Answers
      /\ ret = "InProgress" =>
            Kind[t] \in {"MoveTo", "Wait"} /\ x.fsm.state = Performing(t)
  BY PerformOK
<1> HIDE DEF own, x, ret
<1>2. x \in NpcMembers
  BY <1>1 DEF OnlyLeft, Kept
<1>3. /\ Kept(x, set) /\ set.ai.running = t /\ set.ai.latent = "InProgress"
      /\ set.ai.indexes = x.ai.indexes /\ set.ai.counts = x.ai.counts
      /\ set.fsm = x.fsm /\ set.done = x.done
  BY <1>2, SetRunningTaskOK
<1> HIDE DEF set
<1>4. CASE ret = "InProgress"
  <2>1. q = set
    BY <1>4
  <2> HIDE DEF q
  <2>2. Kept(s, q)
    BY <1>1, <1>3, <2>1, KeptTransitive DEF OnlyLeft
  <2>3. (ExcuteLimit[t] > 0 => s.ai.counts[t] < ExcuteLimit[t]) => DoesOK(q)
    BY <1>1, <1>3, <1>4, <2>1 DEF DoesOK, OnlyLeft
  <2> QED BY <1>1, <1>3, <1>4, <2>1, <2>2, <2>3 DEF OnlyLeft, own, x, ret, set, q
<1>5. CASE ret # "InProgress"
  <2>1. q = x
    BY <1>5
  <2> HIDE DEF q
  <2> QED BY <1>1, <1>5, <2>1 DEF OnlyLeft, own, x, ret, set, q
<1> QED BY <1>4, <1>5

LEMMA ExecuteTaskOK ==
    ASSUME NEW t \in Tasks, NEW s \in NpcMembers, NEW env \in Envs
    PROVE  LET r == ExecuteTask(t, s, env)
           IN  /\ r \in Results /\ Kept(s, r.s)
               /\ (CountsOK(s) /\ (s.ai.running = t => DoesOK(s))) => TaskOK(t, s, r)
<1> DEFINE latent == s.ai.latent
           deco == Decorated(t, s, env)
           d == deco.s
           own == Perform(t, d, env)
           ret == own.ret
           begun == IF own.ret = "InProgress" THEN SetRunningTask(own.s, t) ELSE own.s
           aborted == \E e \in Observes[t] : CheckCondition(e, env)
           limitRet == IF Limited(t, s) /\ LimitReturn[t] THEN "Succeeded" ELSE "Failed"
           r == ExecuteTask(t, s, env)
<1>1. /\ aborted => r = OnTaskResult(t, s, "Failed")
      /\ ~aborted /\ s.ai.running = t
           => r = OnTaskResult(t, Achieved(t, s, latent), latent)
      /\ ~aborted /\ s.ai.running # t /\ ~CheckEnableTask(t, s)
           => r = OnTaskResult(t, s, limitRet)
      /\ ~aborted /\ s.ai.running # t /\ CheckEnableTask(t, s) /\ ~deco.ok
           => r = OnTaskResult(t, d, "Failed")
      /\ ~aborted /\ s.ai.running # t /\ CheckEnableTask(t, s) /\ deco.ok
           => r = OnTaskResult(t, Achieved(t, begun, ret), ret)
  BY DEF ExecuteTask
<1>2. OnlyLeft(s, d) /\ d \in NpcMembers /\ deco.ok \in BOOLEAN
  <2>1. t \in Nodes
    BY TreeFacts
  <2>2. OnlyLeft(s, d) /\ deco.ok \in BOOLEAN
    BY <2>1, DecoratedOK
  <2> HIDE DEF d, deco
  <2> QED BY <2>2 DEF OnlyLeft, Kept
<1>3. latent \in Answers /\ {"Succeeded", "Failed"} \subseteq Answers
      /\ limitRet \in {"Succeeded", "Failed"}
  BY MemberTypes DEF AiMembers, Answers
<1> HIDE DEF latent, aborted, limitRet, d, deco, r
<1>4. /\ Kept(d, begun) /\ ret \in Answers
      /\ begun.ai.indexes = d.ai.indexes /\ begun.ai.counts = d.ai.counts
      /\ begun.done = d.done
      /\ ret # "InProgress" => begun.ai.running = d.ai.running
      /\ (/\ ret = "InProgress"
          /\ ExcuteLimit[t] > 0 => d.ai.counts[t] < ExcuteLimit[t])
           => begun.ai.running = t /\ DoesOK(begun)
  BY <1>2, BegunOK
<1> HIDE DEF begun, own, ret
<1>5. /\ begun \in NpcMembers /\ Kept(s, begun) /\ Kept(s, d)
      /\ d.ai.indexes = s.ai.indexes /\ d.ai.counts = s.ai.counts
      /\ d.ai.running = s.ai.running /\ d.done = s.done
  BY <1>2, <1>4, KeptTransitive DEF OnlyLeft, Kept
<1>6. CountsOK(s) => CountsOK(d) /\ CountsOK(begun)
  BY <1>4, <1>5 DEF CountsOK
<1> DEFINE ready == CountsOK(s) /\ (s.ai.running = t => DoesOK(s))
           ok == /\ r \in Results /\ Kept(s, r.s)
                 /\ ready => TaskOK(t, s, r)
<1> SUFFICES ok
  BY DEF r
<1>7. CASE aborted
  <2>1. r = OnTaskResult(t, s, "Failed")
    BY <1>1, <1>7
  <2>2. Tells(s, r, "Failed") /\ (CountsOK(s) => CountsOK(r.s))
    BY <1>3, <2>1, RefusedOK
  <2>3. CountsOK(s) => TaskOK(t, s, r)
    BY <2>2, TaskToldOK
  <2> QED BY <2>2, <2>3 DEF Tells
<1>8. CASE ~aborted /\ s.ai.running = t
  <2>1. r = OnTaskResult(t, Achieved(t, s, latent), latent)
    BY <1>1, <1>8
  <2>2. /\ Tells(s, r, latent)
        /\ (/\ CountsOK(s)
            /\ ExcuteLimit[t] > 0 => s.ai.counts[t] < ExcuteLimit[t])
             => CountsOK(r.s)
    BY <1>3, <2>1, CountedOK
  <2>3. ASSUME ready PROVE TaskOK(t, s, r)
    <3>1. DoesOK(s) /\ CountsOK(s)
      BY <1>8, <2>3
    <3>2. CountsOK(r.s)
      BY <1>8, <2>2, <3>1 DEF DoesOK
    <3> QED BY <1>8, <2>2, <3>1, <3>2, TaskToldOK
  <2> QED BY <2>2, <2>3 DEF Tells
<1>9. CASE ~aborted /\ s.ai.running # t /\ ~CheckEnableTask(t, s)
  <2>1. r = OnTaskResult(t, s, limitRet)
    BY <1>1, <1>9
  <2>2. Tells(s, r, limitRet) /\ (CountsOK(s) => CountsOK(r.s))
    BY <1>3, <2>1, RefusedOK
  <2>3. limitRet # "InProgress"
    BY <1>3
  <2>4. CountsOK(s) => TaskOK(t, s, r)
    BY <2>2, <2>3, TaskToldOK
  <2> QED BY <2>2, <2>4 DEF Tells
<1>10. CASE ~aborted /\ s.ai.running # t /\ CheckEnableTask(t, s) /\ ~deco.ok
  <2>1. r = OnTaskResult(t, d, "Failed")
    BY <1>1, <1>10
  <2>2. Tells(d, r, "Failed") /\ (CountsOK(d) => CountsOK(r.s))
    BY <1>2, <1>3, <2>1, RefusedOK
  <2>3. CountsOK(s) => TaskOK(t, s, r)
    BY <1>5, <1>6, <2>2, TaskToldOK
  <2>4. Kept(s, r.s) /\ r \in Results
    BY <1>5, <2>2, KeptTransitive DEF Tells
  <2> QED BY <2>3, <2>4
<1>11. CASE ~aborted /\ s.ai.running # t /\ CheckEnableTask(t, s) /\ deco.ok
  <2>1. r = OnTaskResult(t, Achieved(t, begun, ret), ret)
    BY <1>1, <1>11
  <2>2. /\ Tells(begun, r, ret)
        /\ (/\ CountsOK(begun)
            /\ ExcuteLimit[t] > 0 => begun.ai.counts[t] < ExcuteLimit[t])
             => CountsOK(r.s)
    BY <1>4, <1>5, <2>1, CountedOK
  <2>3. ExcuteLimit[t] > 0 => s.ai.counts[t] < ExcuteLimit[t]
    <3>1. ExcuteLimit[t] \in Int /\ s.ai.counts[t] \in Nat
      <4>1. ExcuteLimit[t] \in Int
        BY NpcAssumption DEF IsTree
      <4> QED BY <4>1, MemberTypes DEF AiMembers
    <3> QED BY <1>11, <3>1 DEF CheckEnableTask, Limited
  <2>4. CountsOK(s) => CountsOK(r.s)
    BY <1>4, <1>5, <1>6, <2>2, <2>3
  <2>5. begun.ai.indexes = s.ai.indexes
    BY <1>4, <1>5
  <2>6. ret # "InProgress" => begun.ai.running = s.ai.running
    BY <1>4, <1>5
  <2>7. ret = "InProgress" => begun.ai.running = t /\ DoesOK(begun)
    BY <1>4, <1>5, <2>3
  <2>8. CountsOK(s) => TaskOK(t, s, r)
    BY <2>2, <2>4, <2>5, <2>6, <2>7, TaskToldOK
  <2>9. Kept(s, r.s) /\ r \in Results
    BY <1>5, <2>2, KeptTransitive DEF Tells
  <2> QED BY <2>8, <2>9
<1> QED BY <1>2, <1>7, <1>8, <1>9, <1>10, <1>11

-----------------------------------------------------------------------------
(* The execution of the tree.                                              *)

\* A nonempty set of numbers has a least one.
LEMMA Least ==
    ASSUME NEW T, T \subseteq Nat, T # {} PROVE \E x \in T : \A y \in T : x <= y
<1> DEFINE R == OpToRel(<, Nat)
<1>1. IsWellFoundedOn(R, Nat)
  BY NatLessThanWellFounded
<1>2. \A x, y \in Nat : <<x, y>> \in R <=> x < y
  BY DEF OpToRel
<1> HIDE DEF R
<1>3. \E x \in T : \A y \in T : ~(<<y, x>> \in R)
  BY <1>1, WFMin
<1> PICK x \in T : \A y \in T : ~(y < x)
  BY <1>2, <1>3
<1>4. \A y \in T : x <= y
  OBVIOUS
<1> QED BY <1>4

\* The positions a tick may come to next from x, at a child or beside it.
After == [x \in Positions |->
            {y \in Positions :
                /\ x.child <= Len(Children[x.node])
                /\ \/ y.node = Children[x.node][x.child]
                   \/ y.node = x.node /\ y.child = x.child + 1}]

LEMMA PositionFacts ==
    ASSUME NEW x \in Positions
    PROVE  /\ x.node \in Composites /\ x.node \in Nodes
           /\ x.child \in Nat /\ x.child > 0
           /\ x.s \in NpcMembers /\ x.env \in Envs
           /\ Len(Children[x.node]) \in Nat
           /\ DOMAIN Children[x.node] = 1..Len(Children[x.node])
           /\ x.child <= Len(Children[x.node]) =>
                 /\ Hangs(Children[x.node][x.child], x.node, x.child)
                 /\ Children[x.node][x.child] \in Nodes
<1>1. /\ x.node \in Composites /\ x.child \in Nat /\ x.child > 0
      /\ x.s \in NpcMembers /\ x.env \in Envs
  BY DEF Positions
<1>2. /\ Len(Children[x.node]) \in Nat /\ x.node \in Nodes
      /\ DOMAIN Children[x.node] = 1..Len(Children[x.node])
  BY <1>1, TreeFacts
<1>3. x.child <= Len(Children[x.node]) => x.child \in DOMAIN Children[x.node]
  BY <1>1, <1>2
<1>4. x.child \in DOMAIN Children[x.node] => Children[x.node][x.child] \in Nodes
  BY <1>1, TreeFacts
<1> QED BY <1>1, <1>2, <1>3, <1>4 DEF Hangs

\* A tick does not go on for ever.
LEMMA TickEnds ==
    /\ After \in [Positions -> SUBSET Positions]
    /\ \A S \in (SUBSET Positions) \ {{}} : \E x \in S : After[x] \cap S = {}
<1>1. After \in [Positions -> SUBSET Positions]
  BY DEF After
<1>2. ASSUME NEW S \in (SUBSET Positions) \ {{}}
      PROVE  \E x \in S : After[x] \cap S = {}
  <2> DEFINE N == {x.node : x \in S}
  <2>1. N \in (SUBSET Nodes) \ {{}}
    BY PositionFacts
  <2>2. PICK n \in N : n \in Composites => ChildrenOf(n) \cap N = {}
    <3> HIDE DEF N
    <3> QED BY <2>1, NpcAssumption DEF IsTree
  <2> DEFINE A == {x \in S : x.node = n}
             l == Len(Children[n])
  <2>3. A # {} /\ n \in Composites /\ l \in Nat
    BY <2>2, PositionFacts
  <2>4. CASE \E x \in A : x.child > l
    <3> PICK x \in A : x.child > l
      BY <2>4
    <3>1. x \in Positions /\ x.node = n /\ x.child \in Nat
      BY PositionFacts
    <3>2. After[x] = {}
      BY <2>3, <3>1 DEF After
    <3> QED BY <3>2
  <2>5. CASE \A x \in A : x.child <= l
    <3> DEFINE T == {l - x.child : x \in A}
    <3>1. T \subseteq Nat /\ T # {}
      BY <2>3, <2>5, PositionFacts
    <3>2. PICK k \in T : \A j \in T : k <= j
      <4> HIDE DEF T
      <4> QED BY <3>1, Least
    <3>3. PICK x \in A : k = l - x.child
      OBVIOUS
    <3>4. ASSUME NEW y \in After[x] \cap S PROVE FALSE
      <4>1. /\ x \in Positions /\ y \in Positions /\ x.node = n /\ x.child \in Nat
            /\ \/ y.node = Children[n][x.child]
               \/ y.node = n /\ y.child = x.child + 1
        BY <3>4, PositionFacts DEF After
      <4>2. CASE y.node = Children[n][x.child]
        <5>1. Children[n][x.child] \in ChildrenOf(n)
          BY <2>5, <4>1, PositionFacts DEF Hangs, ChildrenOf
        <5> QED BY <2>2, <2>3, <4>2, <5>1
      <4>3. CASE y.node = n /\ y.child = x.child + 1
        <5>1. l - y.child \in T
          BY <4>3
        <5>2. k <= l - y.child
          <6> HIDE DEF T
          <6> QED BY <3>2, <5>1
        <5> QED BY <2>3, <3>3, <4>1, <4>3, <5>2
      <4> QED BY <4>1, <4>2, <4>3
    <3> QED BY <3>4
  <2> QED BY <2>3, <2>4, <2>5, PositionFacts
<1> QED BY <1>1, <1>2

\* Induction along a tick, from its end.
LEMMA FromLast ==
    ASSUME NEW S \in SUBSET Positions, \A x \in Positions : After[x] \subseteq S => x \in S
    PROVE  S = Positions
<1> SUFFICES ASSUME Positions \ S # {} PROVE FALSE
  OBVIOUS
<1>1. Positions \ S \in (SUBSET Positions) \ {{}}
  OBVIOUS
<1> PICK x \in Positions \ S : After[x] \cap (Positions \ S) = {}
  BY <1>1, TickEnds
<1>2. After[x] \subseteq S
  BY TickEnds
<1> QED BY <1>2

\* A composite keeps the child that is in progress.
LEMMA IndexedOK ==
    ASSUME NEW r \in Results, NEW n \in Composites, NEW i \in Nat \ {0}
    PROVE  LET q == [r EXCEPT !.s.ai.indexes[n] = i]
           IN  /\ q \in Results /\ q.ret = r.ret /\ Kept(r.s, q.s)
               /\ q.s.ai.running = r.s.ai.running /\ q.s.ai.latent = r.s.ai.latent
               /\ q.s.ai.counts = r.s.ai.counts /\ q.s.fsm = r.s.fsm
               /\ q.s.done = r.s.done
               /\ q.s.ai.indexes[n] = i
               /\ \A m \in Composites \ {n} : q.s.ai.indexes[m] = r.s.ai.indexes[m]
<1> DEFINE u == r.s
           x == [u.ai.indexes EXCEPT ![n] = i]
           a == [u.ai EXCEPT !.indexes = x]
           v == [u EXCEPT !.ai = a]
           q == [r EXCEPT !.s.ai.indexes[n] = i]
<1>1. r.s \in NpcMembers /\ r.ret \in Answers /\ r = [s |-> r.s, ret |-> r.ret]
  BY DEF Results
<1>2. u.ai \in AiMembers
  BY <1>1, MemberTypes
<1>3. q = [s |-> v, ret |-> r.ret]
  BY <1>1, <1>2 DEF NpcMembers, AiMembers
<1> HIDE DEF u, q
<1>4. /\ x \in [Composites -> Nat \ {0}] /\ x[n] = i
      /\ \A m \in Composites \ {n} : x[m] = u.ai.indexes[m]
  BY <1>2 DEF AiMembers
<1> HIDE DEF x
<1>5. /\ a \in AiMembers /\ a.running = u.ai.running /\ a.latent = u.ai.latent
      /\ a.counts = u.ai.counts /\ a.indexes = x
  BY <1>2, <1>4 DEF AiMembers
<1> HIDE DEF a
<1>6. /\ v \in NpcMembers /\ v.ai = a /\ v.fsm = u.fsm /\ v.done = u.done
      /\ v.token = u.token /\ v.free = u.free
  BY <1>1, <1>5 DEF NpcMembers, u
<1> HIDE DEF v
<1>7. Kept(u, v)
  BY <1>6 DEF Kept, PlaceOK
<1>8. q.s = v /\ q.ret = r.ret /\ q \in Results
  BY <1>1, <1>3, <1>6 DEF Results
<1> QED BY <1>4, <1>5, <1>6, <1>7, <1>8 DEF q, u

\* Where a composite begins.
Entry(n, s, env) ==
    [node |-> n, child |-> CompositeChildIndex(n, s),
     s |-> Decorated(n, s, env).s, env |-> env]

LEMMA EntryOK ==
    ASSUME NEW n \in Composites, NEW s \in NpcMembers, NEW env \in Envs
    PROVE  /\ Entry(n, s, env) \in Positions
           /\ CompositeChildIndex(n, s) \in Nat \ {0}
           /\ OnlyLeft(s, Decorated(n, s, env).s)
           /\ Decorated(n, s, env).s.fsm = s.fsm
           /\ Decorated(n, s, env).s.ai.latent = s.ai.latent
           /\ Decorated(n, s, env).s \in NpcMembers
<1> DEFINE d == Decorated(n, s, env).s
<1>1. s.ai.indexes \in [Composites -> Nat \ {0}]
  BY MemberTypes DEF AiMembers
<1>2. CompositeChildIndex(n, s) \in Nat \ {0}
  BY <1>1 DEF CompositeChildIndex
<1>3. OnlyLeft(s, d) /\ d.fsm = s.fsm /\ d.ai.latent = s.ai.latent
  <2>1. n \in Nodes
    BY TreeFacts
  <2> QED BY <2>1, DecoratedOK
<1> HIDE DEF d
<1>4. d \in NpcMembers
  BY <1>3 DEF OnlyLeft, Kept
<1>5. [node |-> n, child |-> CompositeChildIndex(n, s), s |-> d, env |-> env]
        \in Positions
  BY <1>2, <1>4 DEF Positions
<1> QED BY <1>2, <1>3, <1>4, <1>5 DEF d, Entry

\* The two ways to execute a node.
LEMMA ExecuteNodeIs ==
    ASSUME NEW n \in Nodes, NEW s \in NpcMembers, NEW env \in Envs, NEW from
    PROVE  /\ n \in Tasks => ExecuteNode(n, s, env, from) = ExecuteTask(n, s, env)
           /\ n \in Composites =>
                 ExecuteNode(n, s, env, from) =
                   IF Decorated(n, s, env).ok THEN from[Entry(n, s, env)]
                   ELSE [s |-> Decorated(n, s, env).s, ret |-> "Failed"]
<1>1. n \in Tasks => ExecuteNode(n, s, env, from) = ExecuteTask(n, s, env)
  BY DEF ExecuteNode
<1>2. ASSUME n \in Composites
      PROVE  ExecuteNode(n, s, env, from) =
                IF Decorated(n, s, env).ok THEN from[Entry(n, s, env)]
                ELSE [s |-> Decorated(n, s, env).s, ret |-> "Failed"]
  <2>1. n \notin Tasks /\ Decorated(n, s, env).ok \in BOOLEAN
    BY <1>2, TreeFacts, DecoratedOK
  <2> QED BY <2>1 DEF ExecuteNode, Entry
<1> QED BY <1>1, <1>2

\* The answer of the child at x, and what a composite makes of it.
ChildAnswer(x, from) ==
    ExecuteNode(Children[x.node][x.child], x.s, x.env, from)

GoOn(x, r) == [x EXCEPT !.child = @ + 1, !.s = r.s]

FromOf(x, r, from) ==
    CASE r.ret = "InProgress" -> [r EXCEPT !.s.ai.indexes[x.node] = x.child]
      [] r.ret = GoesOn(x.node) -> from[GoOn(x, r)]
      [] OTHER -> r

ExecuteStep(x, from) ==
    IF x.child > Len(Children[x.node])
    THEN [s |-> x.s, ret |-> GoesOn(x.node)]
    ELSE FromOf(x, ChildAnswer(x, from), from)

LEMMA GoOnOK ==
    ASSUME NEW x \in Positions, NEW r \in Results, x.child <= Len(Children[x.node])
    PROVE  /\ GoOn(x, r) \in Positions /\ GoOn(x, r) \in After[x]
           /\ GoOn(x, r).node = x.node /\ GoOn(x, r).child = x.child + 1
           /\ GoOn(x, r).s = r.s
<1>1. r.s \in NpcMembers
  BY DEF Results
<1>2. /\ GoOn(x, r) \in Positions
      /\ GoOn(x, r).node = x.node /\ GoOn(x, r).child = x.child + 1
      /\ GoOn(x, r).s = r.s
  <2> DEFINE k == x.child + 1
             v == r.s
  <2>1. k \in Nat \ {0} /\ v \in NpcMembers
    BY <1>1, PositionFacts
  <2>2. GoOn(x, r) = [x EXCEPT !.child = k, !.s = v]
    BY DEF GoOn, Positions
  <2> HIDE DEF k, v
  <2>3. /\ GoOn(x, r) \in Positions /\ GoOn(x, r).node = x.node
        /\ GoOn(x, r).child = k /\ GoOn(x, r).s = v
    BY <2>1, <2>2 DEF Positions
  <2> QED BY <2>3 DEF k, v
<1> QED BY <1>2 DEF After

LEMMA EntryAfter ==
    ASSUME NEW x \in Positions, x.child <= Len(Children[x.node]),
           Children[x.node][x.child] \in Composites
    PROVE  Entry(Children[x.node][x.child], x.s, x.env) \in After[x]
<1> DEFINE c == Children[x.node][x.child]
           y == Entry(c, x.s, x.env)
<1>1. y \in Positions
  BY PositionFacts, EntryOK
<1>2. y.node = c
  BY DEF Entry
<1> HIDE DEF y, c
<1> QED BY <1>1, <1>2 DEF After, y, c

LEMMA GoesOnAnswers ==
    ASSUME NEW n
    PROVE  /\ GoesOn(n) \in {"Succeeded", "Failed"} /\ GoesOn(n) \in Answers
           /\ "Failed" \in Answers /\ GoesOn(n) # "InProgress"
  BY DEF GoesOn, Answers

LEMMA ExecuteNodeTyped ==
    ASSUME NEW n \in Nodes, NEW s \in NpcMembers, NEW env \in Envs,
           NEW from \in [Positions -> Results]
    PROVE  ExecuteNode(n, s, env, from) \in Results
<1>1. CASE n \in Tasks
  <2>1. ExecuteTask(n, s, env) \in Results
    BY <1>1, ExecuteTaskOK
  <2> QED BY <1>1, <2>1, ExecuteNodeIs
<1>2. CASE n \in Composites
  <2> DEFINE d == Decorated(n, s, env).s
  <2>1. Entry(n, s, env) \in Positions /\ d \in NpcMembers
    BY <1>2, EntryOK
  <2>2. from[Entry(n, s, env)] \in Results
    BY <2>1
  <2>3. [s |-> d, ret |-> "Failed"] \in Results
    <3> HIDE DEF d
    <3> QED BY <2>1 DEF Results, Answers
  <2> QED BY <1>2, <2>2, <2>3, ExecuteNodeIs
<1> QED BY <1>1, <1>2, TreeFacts

LEMMA ExecuteStepTyped ==
    ASSUME NEW x \in Positions, NEW from \in [Positions -> Results]
    PROVE  ExecuteStep(x, from) \in Results
<1>1. CASE x.child > Len(Children[x.node])
  <2> DEFINE g == GoesOn(x.node)
             v == x.s
  <2>1. v \in NpcMembers /\ g \in Answers
    BY PositionFacts, GoesOnAnswers
  <2>2. ExecuteStep(x, from) = [s |-> v, ret |-> g]
    BY <1>1 DEF ExecuteStep
  <2> HIDE DEF g, v
  <2> QED BY <2>1, <2>2 DEF Results
<1>2. CASE ~(x.child > Len(Children[x.node]))
  <2> DEFINE r == ChildAnswer(x, from)
  <2>1. x.child <= Len(Children[x.node])
    BY <1>2, PositionFacts
  <2>2. r \in Results
    <3>1. /\ Children[x.node][x.child] \in Nodes /\ x.s \in NpcMembers
          /\ x.env \in Envs
      BY <2>1, PositionFacts
    <3> QED BY <3>1, ExecuteNodeTyped DEF ChildAnswer
  <2>3. ExecuteStep(x, from) = FromOf(x, r, from)
    BY <1>2 DEF ExecuteStep
  <2> HIDE DEF r
  <2>4. [r EXCEPT !.s.ai.indexes[x.node] = x.child] \in Results
    <3> DEFINE n == x.node
               i == x.child
    <3>1. n \in Composites /\ i \in Nat \ {0}
      BY PositionFacts
    <3> HIDE DEF n, i
    <3>2. [r EXCEPT !.s.ai.indexes[n] = i] \in Results
      BY <2>2, <3>1, IndexedOK
    <3> QED BY <3>2 DEF n, i
  <2>5. from[GoOn(x, r)] \in Results
    BY <2>1, <2>2, GoOnOK
  <2> QED BY <2>2, <2>3, <2>4, <2>5 DEF FromOf
<1> QED BY <1>1, <1>2

\* A step depends only on what the function says of the positions after it.
LEMMA ExecuteStepLocal ==
    ASSUME NEW x \in Positions, NEW f \in [Positions -> Results], NEW g,
           \A y \in After[x] : f[y] = g[y]
    PROVE  ExecuteStep(x, f) = ExecuteStep(x, g)
<1>1. CASE x.child > Len(Children[x.node])
  BY <1>1 DEF ExecuteStep
<1>2. CASE ~(x.child > Len(Children[x.node]))
  <2> DEFINE c == Children[x.node][x.child]
             r == ChildAnswer(x, f)
  <2>1. x.child <= Len(Children[x.node])
    BY <1>2, PositionFacts
  <2>2. c \in Nodes /\ x.s \in NpcMembers /\ x.env \in Envs
    BY <2>1, PositionFacts
  <2>3. r \in Results
    BY <2>2, ExecuteNodeTyped DEF ChildAnswer
  <2>4. ChildAnswer(x, g) = r
    <3>1. CASE c \in Tasks
      BY <2>2, <3>1, ExecuteNodeIs DEF ChildAnswer
    <3>2. CASE c \in Composites
      <4>1. Entry(c, x.s, x.env) \in After[x]
        BY <2>1, <3>2, EntryAfter
      <4>2. f[Entry(c, x.s, x.env)] = g[Entry(c, x.s, x.env)]
        BY <4>1
      <4> QED BY <2>2, <3>2, <4>2, ExecuteNodeIs DEF ChildAnswer
    <3> QED BY <2>2, <3>1, <3>2, TreeFacts
  <2>5. ExecuteStep(x, f) = FromOf(x, r, f) /\ ExecuteStep(x, g) = FromOf(x, r, g)
    BY <1>2, <2>4 DEF ExecuteStep
  <2> HIDE DEF r, c
  <2>6. f[GoOn(x, r)] = g[GoOn(x, r)]
    BY <2>1, <2>3, GoOnOK
  <2>7. FromOf(x, r, f) = FromOf(x, r, g)
    BY <2>6 DEF FromOf
  <2> QED BY <2>5, <2>7
<1> QED BY <1>1, <1>2

\* A new npc.
LEMMA CreatedOK ==
    ASSUME NEW status \in {"Moving", "Stop"}, NEW type \in {"Position", "ToActor"}
    PROVE  LET r == Created(status, type)
           IN  /\ r \in NpcMembers /\ r.ai.running = None
               /\ r.token = None /\ r.free = {} /\ CountsOK(r)
<1> DEFINE r == Created(status, type)
           zero == [t \in Tasks |-> 0]
           first == [n \in Composites |-> 1]
           a == [running |-> None, indexes |-> first, latent |-> "InProgress",
                 dirty |-> FALSE, counts |-> zero, cooling |-> {}, force |-> None]
           f == [state |-> "StateNone", ended |-> FALSE, timeUp |-> FALSE,
                 goal |-> Exact]
           m == [status |-> status, type |-> type, point |-> FALSE, end |-> FALSE]
<1>1. /\ zero \in [Tasks -> Nat] /\ first \in [Composites -> Nat \ {0}]
      /\ \A t \in Tasks : zero[t] = 0
  OBVIOUS
<1>2. r = [ai |-> a, fsm |-> f, move |-> m,
           combat |-> [on |-> FALSE, pos |-> FALSE],
           token |-> None, nextMove |-> "any", here |-> FALSE, free |-> {},
           done |-> zero]
  BY DEF Created
<1> HIDE DEF zero, first, r
<1>3. a \in AiMembers /\ a.running = None /\ a.counts = zero
  BY <1>1 DEF AiMembers, Answers
<1>4. f \in FsmMembers
  BY DEF FsmMembers
<1>5. m \in MoveMembers
  BY DEF MoveMembers
<1> HIDE DEF a, f, m
<1>6. /\ r \in NpcMembers /\ r.ai = a /\ r.done = zero
      /\ r.token = None /\ r.free = {}
  BY <1>1, <1>2, <1>3, <1>4, <1>5 DEF NpcMembers
<1>7. CountsOK(r)
  BY <1>1, <1>3, <1>6, NpcAssumption DEF CountsOK, IsTree
<1> QED BY <1>3, <1>6, <1>7 DEF r

\* What execute computes.
LEMMA ExecuteFromIs ==
    /\ ExecuteFrom \in [Positions -> Results]
    /\ \A x \in Positions : ExecuteFrom[x] = ExecuteStep(x, ExecuteFrom)
<1> DEFINE V == Results
           F == [Positions -> V]
           G == [x \in Positions |-> [f \in F |-> ExecuteStep(x, f)]]
           Body(f) == [x \in Positions |-> ExecuteStep(x, f)]
<1>1. \A x \in Positions, f \in F : G[x][f] = ExecuteStep(x, f)
  OBVIOUS
<1> HIDE DEF G
<1>2. \A x \in Positions, f \in F : G[x][f] \in V
  BY <1>1, ExecuteStepTyped
<1>3. Local(G, After, Positions, F)
  <2> SUFFICES ASSUME NEW x \in Positions, NEW f \in F, NEW g \in F,
                      \A y \in After[x] : f[y] = g[y]
               PROVE  G[x][f] = G[x][g]
    BY DEF Local
  <2> QED BY <1>1, ExecuteStepLocal
<1>4. PICK v0 : v0 \in V
  <2> DEFINE c == Created("Stop", "Position")
  <2>1. c \in NpcMembers
    BY CreatedOK
  <2> HIDE DEF c
  <2>2. [s |-> c, ret |-> "Failed"] \in Results
    BY <2>1 DEF Results, Answers
  <2> QED BY <2>2
<1> PICK f0 \in F : \A x \in Positions : f0[x] = G[x][f0]
  <2> HIDE DEF V, F
  <2>1. F = [Positions -> V] /\ V # {}
    BY <1>4 DEF F
  <2>2. Defines(G, After, Positions, F, V)
    BY ONLY <1>2, <1>3, <2>1, TickEnds DEF Defines
  <2> QED BY ONLY <2>2, Recursion
<1>5. f0 = Body(f0)
  BY <1>1
<1>6. ExecuteFrom = Body(ExecuteFrom)
  <2> DEFINE H == CHOOSE f : f = Body(f)
  <2>1. H = Body(H)
    <3> HIDE DEF Body
    <3> QED BY <1>5
  <2>2. ExecuteFrom = H
    BY DEF ExecuteFrom, ExecuteStep, FromOf, ChildAnswer, GoOn
  <2> HIDE DEF H, Body
  <2> QED BY <2>1, <2>2
<1>7. \A x \in Positions : ExecuteFrom[x] = ExecuteStep(x, ExecuteFrom)
  BY <1>6
<1> DEFINE S == {x \in Positions : ExecuteFrom[x] \in Results}
<1>8. S = Positions
  <2>1. S \in SUBSET Positions
    OBVIOUS
  <2>2. ASSUME NEW x \in Positions, After[x] \subseteq S PROVE x \in S
    <3> DEFINE g == [y \in Positions |-> IF y \in After[x] THEN ExecuteFrom[y] ELSE v0]
    <3>1. g \in [Positions -> Results]
      BY <1>4, <2>2
    <3>2. After[x] \subseteq Positions
      BY TickEnds
    <3>3. \A y \in After[x] : g[y] = ExecuteFrom[y]
      BY <3>2
    <3> HIDE DEF g
    <3>4. ExecuteStep(x, g) = ExecuteStep(x, ExecuteFrom)
      BY <3>1, <3>3, ExecuteStepLocal
    <3>5. ExecuteStep(x, g) \in Results
      BY <3>1, ExecuteStepTyped
    <3> QED BY <1>7, <3>4, <3>5
  <2> HIDE DEF S
  <2> QED BY <2>1, <2>2, FromLast
<1>9. \A x \in Positions : ExecuteFrom[x] \in Results
  BY <1>8
<1>10. ExecuteFrom \in [Positions -> Results]
  <2> HIDE DEF Body
  <2>1. ExecuteFrom = [x \in Positions |-> ExecuteFrom[x]]
    BY <1>6 DEF Body
  <2> QED BY <1>9, <2>1
<1> QED BY <1>7, <1>10

\* A node is executed with no task under it in progress, or with one that is
\* resumed; a composite goes on from a child that leads to it, or from one it
\* is to the left of.
ReadyNode(n, s) ==
    CountsOK(s) /\ (s.ai.running \in TasksUnder[n] => ResumesOK(s))

ReadyAt(x) ==
    LET running == x.s.ai.running
        at == Children[x.node]
    IN  /\ CountsOK(x.s)
        /\ running \in TasksUnder[x.node] =>
              \/ /\ x.child \in DOMAIN at /\ running \in TasksUnder[at[x.child]]
                 /\ ResumesOK(x.s)
              \/ \A j \in DOMAIN at : j >= x.child => running \notin TasksUnder[at[j]]

\* Then a task under it that is in progress is performed, its composites lead
\* to it, and it is not to the left of the one that was in progress.
StartsOK(n, s, q) ==
    /\ q.ai.running \in TasksUnder[n] /\ DoesOK(q)
    /\ \A m \in Below(n) \cap Composites : LeadsOK(q, m)
    /\ s.ai.running \in TasksUnder[n] => s.ai.running \notin RightTasks[q.ai.running]

AnswerOK(n, s, r) ==
    /\ Kept(s, r.s) /\ CountsOK(r.s)
    /\ r.ret # "InProgress" => r.s.ai.running = s.ai.running
    /\ r.ret = "InProgress" => StartsOK(n, s, r.s)

LEMMA AnswerFrom ==
    ASSUME NEW n, NEW s, NEW q, NEW r, Kept(s, q), q.ai.running = s.ai.running,
           AnswerOK(n, q, r)
    PROVE  AnswerOK(n, s, r)
<1>1. Kept(s, r.s)
  BY KeptTransitive DEF AnswerOK
<1> QED BY <1>1 DEF AnswerOK, StartsOK

\* What hangs under a node but the node itself hangs under one of its children.
LEMMA BelowChild ==
    ASSUME NEW n \in Nodes, NEW m \in Below(n), m # n
    PROVE  \E c, i : Hangs(c, n, i) /\ m \in Below(c)
<1> DEFINE S == {x \in Nodes : x = n \/ \E c, i : Hangs(c, n, i) /\ x \in Below(c)}
<1>1. S \in SUBSET Nodes /\ n \in S
  OBVIOUS
<1>2. ASSUME NEW x, NEW p, NEW i, Hangs(x, p, i), p \in S PROVE x \in S
  <2>1. x \in Nodes
    BY <1>2, TreeFacts
  <2>2. CASE p = n
    BY <1>2, <2>1, <2>2, BelowFacts
  <2>3. CASE p # n
    <3> PICK c, j : Hangs(c, n, j) /\ p \in Below(c)
      BY <1>2, <2>3
    <3>1. x \in Below(c)
      BY <1>2, BelowFacts, TreeFacts
    <3> QED BY <2>1, <3>1
  <2> QED BY <2>2, <2>3
<1>3. Below(n) \subseteq S
  <2> HIDE DEF S
  <2> QED BY <1>1, <1>2, BelowFacts
<1> QED BY <1>3

LEMMA ChildTasks ==
    ASSUME NEW c, NEW n, NEW i, Hangs(c, n, i)
    PROVE  c \in Nodes /\ n \in Nodes /\ TasksUnder[c] \subseteq TasksUnder[n]
<1>1. c \in Nodes /\ n \in Nodes
  BY TreeFacts DEF Hangs
<1>2. Below(c) \subseteq Below(n)
  BY <1>1, BelowFacts, BelowTransitive
<1> QED BY <1>1, <1>2, TasksBelow

LEMMA TaskAnswerOK ==
    ASSUME NEW t \in Tasks, NEW s \in NpcMembers, NEW env \in Envs, ReadyNode(t, s)
    PROVE  AnswerOK(t, s, ExecuteTask(t, s, env))
<1> DEFINE r == ExecuteTask(t, s, env)
<1>1. t \in Nodes /\ TasksUnder[t] = {t} /\ t # None /\ t \notin Composites
  BY NpcAssumption, TasksUnderIs, TreeFacts
<1>2. CountsOK(s) /\ (s.ai.running = t => DoesOK(s))
  BY <1>1 DEF ReadyNode, ResumesOK
<1>3. Kept(s, r.s) /\ TaskOK(t, s, r)
  BY <1>2, ExecuteTaskOK
<1> HIDE DEF r
<1>4. Below(t) \cap Composites = {}
  <2>1. \A x, p, i : Hangs(x, p, i) /\ p \in {t} => x \in {t}
    BY <1>1 DEF Hangs
  <2>2. Below(t) \subseteq {t}
    <3>1. {t} \in SUBSET Nodes /\ t \in {t}
      BY <1>1
    <3> QED BY <1>1, <2>1, <3>1, BelowFacts
  <2> QED BY <1>1, <2>2
<1>5. t \notin RightTasks[t]
  BY <1>1, BelowFacts, NotOwnRight
<1>6. r.ret = "InProgress" => StartsOK(t, s, r.s)
  BY <1>1, <1>3, <1>4, <1>5 DEF TaskOK, StartsOK
<1> QED BY <1>3, <1>6 DEF TaskOK, AnswerOK, r

\* A composite that leads to the task in progress begins with it.
LEMMA EntryReady ==
    ASSUME NEW n \in Composites, NEW s \in NpcMembers, NEW env \in Envs, ReadyNode(n, s)
    PROVE  /\ ReadyAt(Entry(n, s, env)) /\ Entry(n, s, env).node = n
           /\ Kept(s, Entry(n, s, env).s)
           /\ Entry(n, s, env).s.ai.running = s.ai.running
<1> DEFINE x == Entry(n, s, env)
           d == Decorated(n, s, env).s
           i == CompositeChildIndex(n, s)
<1>1. OnlyLeft(s, d) /\ d.fsm = s.fsm /\ d.ai.latent = s.ai.latent
  BY EntryOK
<1>2. x.node = n /\ x.child = i /\ x.s = d
  BY DEF Entry
<1> HIDE DEF x, d, i
<1>3. CountsOK(d)
  BY <1>1 DEF ReadyNode, OnlyLeft, CountsOK
<1>4. ASSUME d.ai.running \in TasksUnder[n]
      PROVE  /\ i \in DOMAIN Children[n] /\ d.ai.running \in TasksUnder[Children[n][i]]
             /\ ResumesOK(d)
  <2>1. s.ai.running \in TasksUnder[n] /\ d.ai.running = s.ai.running
    BY <1>1, <1>4 DEF OnlyLeft
  <2>2. s.ai.running # None
    BY <2>1, NpcAssumption, TasksUnderIs, TreeFacts
  <2>3. ResumesOK(s)
    BY <2>1 DEF ReadyNode
  <2>4. LeadsOK(s, n) /\ i = s.ai.indexes[n]
    BY <2>2, <2>3 DEF ResumesOK, CompositeChildIndex, i
  <2>5. ResumesOK(d)
    BY <1>1, <2>3 DEF OnlyLeft, ResumesOK, DoesOK, LeadsOK
  <2> QED BY <2>1, <2>4, <2>5 DEF LeadsOK
<1>5. ReadyAt(x)
  BY <1>2, <1>3, <1>4 DEF ReadyAt
<1> QED BY <1>1, <1>2, <1>5 DEF OnlyLeft, x

\* The child at a position is ready when the position is.
LEMMA ChildReady ==
    ASSUME NEW x \in Positions, ReadyAt(x), x.child <= Len(Children[x.node])
    PROVE  ReadyNode(Children[x.node][x.child], x.s)
<1> DEFINE c == Children[x.node][x.child]
<1>1. /\ Hangs(c, x.node, x.child) /\ x.child \in DOMAIN Children[x.node]
      /\ x.child \in Nat
  BY PositionFacts
<1>2. ASSUME x.s.ai.running \in TasksUnder[c] PROVE ResumesOK(x.s)
  <2>1. x.s.ai.running \in TasksUnder[x.node]
    BY <1>1, <1>2, ChildTasks
  <2>2. x.child >= x.child
    BY <1>1
  <2> QED BY <1>1, <1>2, <2>1, <2>2 DEF ReadyAt
<1> QED BY <1>2 DEF ReadyNode, ReadyAt

\* A composite whose child is in progress leads to what the child leads to.
LEMMA StopsOK ==
    ASSUME NEW x \in Positions, ReadyAt(x), x.child <= Len(Children[x.node]),
           NEW r \in Results, r.ret = "InProgress",
           AnswerOK(Children[x.node][x.child], x.s, r)
    PROVE  AnswerOK(x.node, x.s, [r EXCEPT !.s.ai.indexes[x.node] = x.child])
<1> DEFINE n == x.node
           i == x.child
           s == x.s
           c == Children[n][i]
           q == [r EXCEPT !.s.ai.indexes[n] = i]
           run == r.s.ai.running
<1>1. /\ Hangs(c, n, i) /\ i \in DOMAIN Children[n] /\ i \in Nat /\ i > 0
      /\ n \in Composites /\ n \in Nodes /\ c \in Nodes
      /\ DOMAIN Children[n] = 1..Len(Children[n]) /\ Len(Children[n]) \in Nat
  BY PositionFacts
<1>2. StartsOK(c, s, r.s) /\ Kept(s, r.s) /\ CountsOK(r.s)
  BY DEF AnswerOK
<1>3. ReadyAt(x)
  OBVIOUS
<1>4. \/ s.ai.running \notin TasksUnder[n]
      \/ s.ai.running \in TasksUnder[c]
      \/ \A j \in DOMAIN Children[n] :
            j >= i => s.ai.running \notin TasksUnder[Children[n][j]]
  BY <1>3 DEF ReadyAt
<1> HIDE DEF n, i, s, c
<1>5. /\ q \in Results /\ q.ret = r.ret /\ Kept(r.s, q.s)
      /\ q.s.ai.running = run /\ q.s.ai.latent = r.s.ai.latent
      /\ q.s.ai.counts = r.s.ai.counts /\ q.s.fsm = r.s.fsm
      /\ q.s.done = r.s.done
      /\ q.s.ai.indexes[n] = i
      /\ \A m \in Composites \ {n} : q.s.ai.indexes[m] = r.s.ai.indexes[m]
  <2>1. i \in Nat \ {0}
    BY <1>1
  <2> HIDE DEF q
  <2> QED BY <1>1, <2>1, IndexedOK DEF q
<1> HIDE DEF q
<1>6. Kept(s, q.s) /\ CountsOK(q.s) /\ DoesOK(q.s)
  <2>1. Kept(s, q.s)
    BY <1>2, <1>5, KeptTransitive
  <2>2. CountsOK(q.s)
    BY <1>2, <1>5 DEF CountsOK
  <2>3. DoesOK(q.s)
    BY <1>2, <1>5 DEF DoesOK, StartsOK
  <2> QED BY <2>1, <2>2, <2>3
<1>7. run \in TasksUnder[c] /\ run \in TasksUnder[n] /\ c = Children[n][i]
  <2>1. run \in TasksUnder[c]
    BY <1>2 DEF StartsOK
  <2> QED BY <1>1, <2>1, ChildTasks DEF Hangs
<1>8. ASSUME NEW m \in Below(n) \cap Composites PROVE LeadsOK(q.s, m)
  <2>1. CASE m = n
    BY <1>1, <1>5, <1>7, <2>1 DEF LeadsOK
  <2>2. CASE m # n
    <3> SUFFICES ASSUME run \in TasksUnder[m] PROVE LeadsOK(q.s, m)
      BY <1>5 DEF LeadsOK
    <3> PICK d, j : Hangs(d, n, j) /\ m \in Below(d)
      BY <1>1, <2>2, BelowChild
    <3>1. d \in Nodes /\ m \in Nodes
      BY BelowFacts, TreeFacts
    <3>2. run \in Below(d) /\ run \in Below(c)
      BY <1>1, <1>7, <3>1, BelowTransitive, TasksBelow
    <3>3. d = c
      <4>1. i = j
        BY <1>1, <3>2, Siblings
      <4> QED BY <1>7, <4>1 DEF Hangs
    <3>4. LeadsOK(r.s, m)
      BY <1>2, <3>3 DEF StartsOK
    <3> QED BY <1>5, <2>2, <3>4 DEF LeadsOK
  <2> QED BY <2>1, <2>2
<1>9. ASSUME s.ai.running \in TasksUnder[n] PROVE s.ai.running \notin RightTasks[run]
  <2>1. CASE s.ai.running \in TasksUnder[c]
    BY <1>2, <2>1 DEF StartsOK
  <2>2. CASE \A j \in DOMAIN Children[n] :
                j >= i => s.ai.running \notin TasksUnder[Children[n][j]]
    <3>1. TasksUnder[n] = UNION {TasksUnder[d] : d \in ChildrenOf(n)}
      BY <1>1, TasksUnderIs, TreeFacts
    <3> PICK j \in DOMAIN Children[n] : s.ai.running \in TasksUnder[Children[n][j]]
      BY <1>9, <3>1 DEF ChildrenOf
    <3>2. Hangs(Children[n][j], n, j) /\ j < i
      BY <1>1, <2>2 DEF Hangs
    <3> QED BY <1>1, <1>7, <3>2, NotRight
  <2> QED BY <1>4, <1>9, <2>1, <2>2
<1>10. StartsOK(n, s, q.s)
  BY <1>5, <1>6, <1>7, <1>8, <1>9 DEF StartsOK
<1>11. q.ret = "InProgress"
  BY <1>5
<1> QED BY <1>6, <1>10, <1>11 DEF AnswerOK, n, s, q, i

\* A composite that goes on leaves the task in progress behind.
LEMMA GoOnReady ==
    ASSUME NEW x \in Positions, ReadyAt(x), x.child <= Len(Children[x.node]),
           NEW r \in Results, r.ret # "InProgress",
           AnswerOK(Children[x.node][x.child], x.s, r)
    PROVE  ReadyAt(GoOn(x, r))
<1> DEFINE n == x.node
           i == x.child
           s == x.s
           c == Children[n][i]
           y == GoOn(x, r)
<1>1. /\ Hangs(c, n, i) /\ i \in DOMAIN Children[n] /\ i \in Nat
      /\ n \in Composites /\ n \in Nodes
      /\ DOMAIN Children[n] = 1..Len(Children[n]) /\ Len(Children[n]) \in Nat
  BY PositionFacts
<1>2. CountsOK(r.s) /\ r.s.ai.running = s.ai.running
  BY DEF AnswerOK
<1>3. y.node = n /\ y.child = i + 1 /\ y.s = r.s
  BY GoOnOK
<1>4. \/ s.ai.running \notin TasksUnder[n]
      \/ s.ai.running \in TasksUnder[c]
      \/ \A j \in DOMAIN Children[n] :
            j >= i => s.ai.running \notin TasksUnder[Children[n][j]]
  <2>1. ReadyAt(x)
    OBVIOUS
  <2> QED BY <2>1 DEF ReadyAt
<1> HIDE DEF n, i, s, c, y
<1>5. ASSUME s.ai.running \in TasksUnder[n], NEW j \in DOMAIN Children[n], j >= i + 1
      PROVE  s.ai.running \notin TasksUnder[Children[n][j]]
  <2>1. CASE s.ai.running \in TasksUnder[c]
    <3>1. Hangs(Children[n][j], n, j) /\ j # i
      BY <1>1, <1>5 DEF Hangs
    <3>2. Below(Children[n][j]) \cap Below(c) = {}
      BY <1>1, <3>1, Siblings
    <3>3. c \in Nodes /\ Children[n][j] \in Nodes
      BY <1>1, <3>1, TreeFacts
    <3> QED BY <2>1, <3>2, <3>3, TasksBelow
  <2>2. CASE \A k \in DOMAIN Children[n] :
                k >= i => s.ai.running \notin TasksUnder[Children[n][k]]
    BY <1>1, <1>5, <2>2
  <2> QED BY <1>4, <1>5, <2>1, <2>2
<1>6. ReadyAt(y)
  BY <1>2, <1>3, <1>5 DEF ReadyAt
<1> QED BY <1>6 DEF y

\* Any node, given what its composite's first position comes to.
LEMMA NodeAnswerOK ==
    ASSUME NEW n \in Nodes, NEW s \in NpcMembers, NEW env \in Envs, ReadyNode(n, s),
           n \in Composites /\ ReadyAt(Entry(n, s, env))
              => AnswerOK(n, Entry(n, s, env).s, ExecuteFrom[Entry(n, s, env)])
    PROVE  AnswerOK(n, s, ExecuteNode(n, s, env, ExecuteFrom))
<1> DEFINE r == ExecuteNode(n, s, env, ExecuteFrom)
<1>1. CASE n \in Tasks
  <2>1. r = ExecuteTask(n, s, env)
    BY <1>1, ExecuteNodeIs
  <2> QED BY <1>1, <2>1, TaskAnswerOK
<1>2. CASE n \in Composites /\ Decorated(n, s, env).ok
  <2> DEFINE y == Entry(n, s, env)
  <2>1. r = ExecuteFrom[y]
    BY <1>2, ExecuteNodeIs
  <2>2. ReadyAt(y) /\ Kept(s, y.s) /\ y.s.ai.running = s.ai.running
    BY <1>2, EntryReady
  <2>3. AnswerOK(n, y.s, r)
    BY <1>2, <2>1, <2>2
  <2> HIDE DEF y, r
  <2> QED BY <2>2, <2>3, AnswerFrom DEF r
<1>3. CASE n \in Composites /\ ~Decorated(n, s, env).ok
  <2> DEFINE d == Decorated(n, s, env).s
  <2>1. r = [s |-> d, ret |-> "Failed"]
    BY <1>3, ExecuteNodeIs
  <2>2. OnlyLeft(s, d)
    BY <1>3, EntryOK
  <2> HIDE DEF d, r
  <2>3. r.s = d /\ r.ret # "InProgress"
    BY <2>1
  <2>4. CountsOK(d)
    BY <2>2 DEF OnlyLeft, CountsOK, ReadyNode
  <2> QED BY <2>2, <2>3, <2>4 DEF AnswerOK, OnlyLeft, r
<1> QED BY <1>1, <1>2, <1>3, TreeFacts

\* The execution of a composite, from each of its positions.
LEMMA ExecuteFromOK ==
    \A x \in Positions : ReadyAt(x) => AnswerOK(x.node, x.s, ExecuteFrom[x])
<1> DEFINE S == {x \in Positions : ReadyAt(x) => AnswerOK(x.node, x.s, ExecuteFrom[x])}
<1>1. ASSUME NEW x \in Positions, After[x] \subseteq S, ReadyAt(x)
      PROVE  AnswerOK(x.node, x.s, ExecuteFrom[x])
  <2> DEFINE n == x.node
             s == x.s
             c == Children[n][x.child]
             q == ExecuteFrom[x]
  <2>1. q = ExecuteStep(x, ExecuteFrom)
    BY ExecuteFromIs
  <2>2. s \in NpcMembers /\ x.env \in Envs /\ Kept(s, s) /\ CountsOK(s)
    BY <1>1, PositionFacts DEF Kept, ReadyAt
  <2>3. \A y \in After[x] : ReadyAt(y) => AnswerOK(y.node, y.s, ExecuteFrom[y])
    BY <1>1
  <2> HIDE DEF q, S
  <2>4. CASE x.child > Len(Children[n])
    <3> DEFINE g == GoesOn(n)
    <3>1. q = [s |-> s, ret |-> g]
      BY <2>1, <2>4 DEF ExecuteStep
    <3>2. g # "InProgress"
      BY GoesOnAnswers
    <3> HIDE DEF g, s, n
    <3>3. q.s = s /\ q.ret # "InProgress"
      BY <3>1, <3>2
    <3> QED BY <2>2, <3>3 DEF AnswerOK, q, s, n
  <2>5. CASE x.child <= Len(Children[n])
    <3> DEFINE r == ChildAnswer(x, ExecuteFrom)
    <3>1. c \in Nodes /\ ReadyNode(c, s)
      BY <1>1, <2>5, PositionFacts, ChildReady
    <3>2. r \in Results
      BY <2>2, <3>1, ExecuteFromIs, ExecuteNodeTyped DEF ChildAnswer
    <3>3. q = FromOf(x, r, ExecuteFrom)
      <4>1. ~(x.child > Len(Children[x.node]))
        BY <2>5, PositionFacts
      <4> QED BY <2>1, <4>1 DEF ExecuteStep
    <3>4. r = ExecuteNode(c, s, x.env, ExecuteFrom)
      BY DEF ChildAnswer
    <3> HIDE DEF r
    <3>5. AnswerOK(c, s, r)
      <4> DEFINE y == Entry(c, s, x.env)
      <4>1. ASSUME c \in Composites, ReadyAt(y) PROVE AnswerOK(c, y.s, ExecuteFrom[y])
        <5>1. y \in After[x] /\ y.node = c
          BY <2>2, <2>5, <4>1, EntryAfter, EntryReady, <3>1
        <5> HIDE DEF y
        <5>2. ReadyAt(y)
          BY <4>1
        <5> QED BY <2>3, <5>1, <5>2
      <4> QED BY <2>2, <3>1, <3>4, <4>1, NodeAnswerOK
    <3>6. CASE r.ret = "InProgress"
      <4> DEFINE z == [r EXCEPT !.s.ai.indexes[x.node] = x.child]
      <4>1. AnswerOK(n, s, z)
        BY <1>1, <2>5, <3>2, <3>5, <3>6, StopsOK
      <4>2. q = CASE r.ret = "InProgress" -> z
                  [] r.ret = GoesOn(n) -> ExecuteFrom[GoOn(x, r)]
                  [] OTHER -> r
        BY <3>3 DEF FromOf
      <4>3. r.ret # GoesOn(n)
        BY <3>6, GoesOnAnswers
      <4> HIDE DEF z
      <4>4. q = z
        BY <3>6, <4>2, <4>3
      <4> QED BY <4>1, <4>4 DEF q
    <3>7. CASE r.ret # "InProgress" /\ r.ret = GoesOn(n)
      <4> DEFINE y == GoOn(x, r)
      <4>1. q = ExecuteFrom[y]
        BY <3>3, <3>7 DEF FromOf
      <4>2. y \in After[x] /\ y.node = n /\ y.s = r.s
        BY <2>5, <3>2, GoOnOK
      <4>3. ReadyAt(y)
        BY <1>1, <2>5, <3>2, <3>5, <3>7, GoOnReady
      <4> HIDE DEF y
      <4>4. AnswerOK(n, r.s, q)
        BY <2>3, <4>1, <4>2, <4>3
      <4>5. Kept(s, r.s) /\ r.s.ai.running = s.ai.running
        BY <3>5, <3>7 DEF AnswerOK
      <4> QED BY <4>4, <4>5, AnswerFrom DEF q
    <3>8. CASE r.ret # "InProgress" /\ r.ret # GoesOn(n)
      <4>1. q = r
        BY <3>3, <3>8 DEF FromOf
      <4> QED BY <3>5, <3>8, <4>1 DEF AnswerOK, q
    <3> QED BY <3>6, <3>7, <3>8
  <2> QED BY <2>4, <2>5, PositionFacts
<1>2. S = Positions
  <2>1. S \in SUBSET Positions
    OBVIOUS
  <2>2. \A x \in Positions : After[x] \subseteq S => x \in S
    BY <1>1
  <2> HIDE DEF S
  <2> QED BY <2>1, <2>2, FromLast
<1> QED BY <1>2

\* A tick of the whole tree: it resumes the task in progress or goes on to its
\* right, or leaves nothing to resume.
LEMMA ExecuteRootOK ==
    ASSUME NEW s \in NpcMembers, NEW env \in Envs, ResumesOK(s), CountsOK(s)
    PROVE  LET r == Execute(Root, s, env)
           IN  /\ r \in Results /\ Kept(s, r.s) /\ CountsOK(r.s)
               /\ r.ret = "InProgress" =>
                     /\ ResumesOK(r.s)
                     /\ s.ai.running # None =>
                           s.ai.running \notin RightTasks[r.s.ai.running]
<1> DEFINE r == Execute(Root, s, env)
<1>1. r = ExecuteNode(Root, s, env, ExecuteFrom)
  BY DEF Execute
<1>2. Root \in Nodes
  BY TreeFacts
<1>3. ReadyNode(Root, s)
  BY DEF ReadyNode
<1>4. ASSUME Root \in Composites, ReadyAt(Entry(Root, s, env))
      PROVE  AnswerOK(Root, Entry(Root, s, env).s, ExecuteFrom[Entry(Root, s, env)])
  <2>1. Entry(Root, s, env) \in Positions
    BY <1>4, EntryOK
  <2>2. Entry(Root, s, env).node = Root
    BY DEF Entry
  <2> QED BY <1>4, <2>1, <2>2, ExecuteFromOK
<1>5. AnswerOK(Root, s, r) /\ r \in Results
  BY <1>1, <1>2, <1>3, <1>4, NodeAnswerOK, ExecuteFromIs, ExecuteNodeTyped
<1>6. Below(Root) = Nodes
  <2> DEFINE S == Below(Root)
  <2>1. S \in SUBSET Nodes /\ Root \in S
    BY <1>2, BelowFacts
  <2>2. \A x, p, i : Hangs(x, p, i) /\ p \in S => x \in S
    BY <1>2, BelowFacts
  <2> HIDE DEF S
  <2>3. S = Nodes
    BY <2>1, <2>2, FromParent
  <2> QED BY <2>3 DEF S
<1>7. TasksUnder[Root] = Tasks
  <2>1. TasksUnder[Root] = Below(Root) \cap Tasks
    BY <1>2, TasksBelow
  <2>2. Tasks \subseteq Nodes
    BY DEF Tasks
  <2> QED BY ONLY <1>6, <2>1, <2>2
<1> HIDE DEF r
<1>8. s.ai.running \in Tasks \cup {None}
  BY MemberTypes DEF AiMembers
<1>9. ASSUME r.ret = "InProgress"
      PROVE  /\ ResumesOK(r.s)
             /\ s.ai.running # None => s.ai.running \notin RightTasks[r.s.ai.running]
  <2>1. StartsOK(Root, s, r.s)
    BY <1>5, <1>9 DEF AnswerOK
  <2>2. ResumesOK(r.s)
    BY <1>6, <2>1, TreeFacts DEF StartsOK, ResumesOK
  <2> QED BY <1>7, <1>8, <2>1, <2>2 DEF StartsOK
<1> QED BY <1>5, <1>9 DEF AnswerOK, r

LEMMA ResetRunningOK ==
    ASSUME NEW s \in NpcMembers
    PROVE  LET r == ResetRunning(s)
           IN  /\ Kept(s, r) /\ r.ai.running = None
               /\ CountsOK(s) => CountsOK(r)
<1> DEFINE first == [n \in Composites |-> 1]
           a == [s.ai EXCEPT !.running = None, !.latent = "InProgress",
                             !.indexes = first]
           r == [s EXCEPT !.ai = a]
<1>1. s.ai \in AiMembers
  BY MemberTypes
<1>2. ResetRunning(s) = r
  <2>1. DOMAIN s.ai.indexes = Composites
    BY <1>1 DEF AiMembers
  <2> QED BY <1>1, <2>1 DEF ResetRunning, NpcMembers, AiMembers
<1>3. first \in [Composites -> Nat \ {0}]
  OBVIOUS
<1> HIDE DEF first
<1>4. a \in AiMembers /\ a.running = None /\ a.counts = s.ai.counts
  BY <1>1, <1>3 DEF AiMembers, Answers
<1> HIDE DEF a
<1>5. /\ r \in NpcMembers /\ r.ai = a /\ r.done = s.done
      /\ r.token = s.token /\ r.free = s.free
  BY <1>4 DEF NpcMembers
<1> HIDE DEF r
<1>6. Kept(s, r)
  BY <1>5 DEF Kept, PlaceOK
<1>7. CountsOK(s) => CountsOK(r)
  BY <1>4, <1>5 DEF CountsOK
<1> QED BY <1>2, <1>4, <1>5, <1>6, <1>7

-----------------------------------------------------------------------------
(* The actions.                                                            *)

\* The npc has the members of q but those of its target.
Has(q) ==
    /\ ai' = q.ai /\ fsm' = q.fsm /\ move' = q.move /\ combat' = q.combat
    /\ token' = q.token /\ nextMove' = q.nextMove /\ done' = q.done

LEMMA Carried ==
    ASSUME NEW q \in NpcMembers, Has(q), here' \in BOOLEAN, free' \subseteq Tokens,
           ResumesOK(q), CountsOK(q), others' \subseteq Tokens, tick' \in BOOLEAN,
           refilled' \in BOOLEAN,
           ~refilled' => q.token \notin free' \cup others' /\ others' \cap free' = {}
    PROVE  IInv'
<1>1. /\ ai' = q.ai /\ fsm' = q.fsm /\ move' = q.move /\ combat' = q.combat
      /\ token' = q.token /\ nextMove' = q.nextMove /\ done' = q.done
  BY DEF Has
<1>2. Current' \in NpcMembers
  BY <1>1 DEF Current, NpcMembers
<1>3. /\ Current'.ai = q.ai /\ Current'.fsm = q.fsm /\ Current'.token = q.token
      /\ Current'.done = q.done /\ Current'.free = free'
  BY <1>1 DEF Current
<1>4. TypeOK'
  BY <1>2 DEF TypeOK
<1>5. ResumesOK(Current)'
  BY <1>3 DEF ResumesOK, DoesOK, LeadsOK
<1>6. CountsOK(Current)'
  BY <1>3 DEF CountsOK
<1>7. ~refilled' => PlaceOK(Current, others)'
  BY <1>3 DEF PlaceOK
<1> QED BY <1>4, <1>5, <1>6, <1>7 DEF IInv

\* What the invariant says of the npc.
LEMMA CurrentFacts ==
    ASSUME IInv
    PROVE  /\ Current \in NpcMembers /\ ResumesOK(Current) /\ CountsOK(Current)
           /\ Current.ai = ai /\ Current.fsm = fsm /\ Current.move = move
           /\ Current.combat = combat /\ Current.token = token
           /\ Current.nextMove = nextMove /\ Current.done = done
           /\ Current.here = here /\ Current.free = free
           /\ here \in BOOLEAN /\ free \subseteq Tokens /\ others \subseteq Tokens
           /\ tick \in BOOLEAN /\ refilled \in BOOLEAN
           /\ ai.running \in Tasks \cup {None}
           /\ ~refilled => PlaceOK(Current, others)
<1>1. /\ Current \in NpcMembers /\ ResumesOK(Current) /\ CountsOK(Current)
      /\ others \subseteq Tokens /\ tick \in BOOLEAN /\ refilled \in BOOLEAN
      /\ ~refilled => PlaceOK(Current, others)
  BY DEF IInv, TypeOK
<1>2. /\ Current.ai = ai /\ Current.fsm = fsm /\ Current.move = move
      /\ Current.combat = combat /\ Current.token = token
      /\ Current.nextMove = nextMove /\ Current.done = done
      /\ Current.here = here /\ Current.free = free
  BY DEF Current
<1> HIDE DEF Current
<1>3. here \in BOOLEAN /\ free \subseteq Tokens /\ ai \in AiMembers
  BY <1>1, <1>2, MemberTypes
<1>4. ai.running \in Tasks \cup {None}
  BY <1>3 DEF AiMembers
<1> QED BY <1>1, <1>2, <1>3, <1>4

\* An update of the npc that keeps what the invariant speaks of.
LEMMA BecomesOK ==
    ASSUME IInv, NEW q, Becomes(q), tick' \in BOOLEAN, Kept(Current, q),
           ResumesOK(q), CountsOK(q)
    PROVE  IInv' /\ ai' = q.ai
<1>1. /\ Has(q) /\ free' = q.free /\ ai' = q.ai
      /\ here' = here /\ others' = others /\ refilled' = refilled
  BY DEF Becomes, Has
<1>2. q \in NpcMembers /\ (PlaceOK(Current, others) => PlaceOK(q, others))
  BY CurrentFacts DEF Kept
<1>3. free' \subseteq Tokens
  BY <1>1, <1>2, MemberTypes
<1>4. ~refilled' => q.token \notin free' \cup others' /\ others' \cap free' = {}
  BY <1>1, <1>2, CurrentFacts DEF PlaceOK
<1> QED BY <1>1, <1>2, <1>3, <1>4, CurrentFacts, Carried

\* Nothing to the left of the task in progress runs next.
Forward ==
    ai.running # None /\ ai'.running # None
       => ai.running \notin RightTasks[ai'.running]

\* What goes on running, or stops, does not go back.
LEMMA StaysForward ==
    ASSUME ai.running \in Tasks \cup {None},
           ai'.running = ai.running \/ ai'.running = None
    PROVE  Forward
<1>1. ai.running \in Tasks => ai.running \notin RightTasks[ai.running]
  BY NotOwnRight, BelowFacts, TreeFacts
<1> QED BY <1>1 DEF Forward

LEMMA UpdatedOK ==
    ASSUME IInv, NEW q, Becomes(q), tick' \in BOOLEAN, Updated(Current, q)
    PROVE  IInv' /\ Forward
<1>1. /\ Kept(Current, q) /\ ResumesOK(q) /\ CountsOK(q)
      /\ q.ai.running = ai.running
  BY CurrentFacts DEF Updated, Left
<1>2. IInv' /\ ai' = q.ai
  BY <1>1, BecomesOK
<1> QED BY <1>1, <1>2, CurrentFacts, StaysForward

LEMMA aiUpdateOK ==
    ASSUME IInv, NEW env \in Envs, aiUpdate(env) PROVE IInv' /\ Forward
<1> DEFINE s == Current
           a == [s.ai EXCEPT !.dirty = FALSE]
           b == [s EXCEPT !.ai = a]
           r == Execute(Root, b, env)
           q == IF r.ret = "InProgress" THEN r.s ELSE ResetRunning(r.s)
<1>1. s \in NpcMembers /\ s.ai \in AiMembers /\ s.ai = ai
  BY CurrentFacts, MemberTypes
<1>2. Becomes(q) /\ tick' \in BOOLEAN
  <2>1. [s EXCEPT !.ai.dirty = FALSE] = b
    BY <1>1 DEF NpcMembers
  <2> HIDE DEF s, b
  <2> QED BY <2>1 DEF aiUpdate, aiTick, s
<1>3. ResumesOK(s) /\ CountsOK(s)
  BY CurrentFacts
<1> HIDE DEF s
<1>4. /\ a \in AiMembers /\ a.running = s.ai.running /\ a.indexes = s.ai.indexes
      /\ a.counts = s.ai.counts /\ a.latent = s.ai.latent
  BY <1>1 DEF AiMembers
<1> HIDE DEF a
<1>5. OnlyLeft(s, b) /\ b.ai = a /\ b.fsm = s.fsm
  BY <1>1, <1>4, AiOnly
<1> HIDE DEF b
<1>6. /\ b \in NpcMembers /\ Kept(s, b) /\ ResumesOK(b) /\ CountsOK(b)
      /\ b.ai.running = ai.running
  <2>1. ResumesOK(b)
    BY <1>3, <1>4, <1>5 DEF ResumesOK, DoesOK, LeadsOK
  <2>2. CountsOK(b)
    BY <1>3, <1>4, <1>5 DEF OnlyLeft, CountsOK
  <2> QED BY <1>1, <1>4, <1>5, <2>1, <2>2 DEF OnlyLeft, Kept
<1>7. /\ r \in Results /\ Kept(b, r.s) /\ CountsOK(r.s)
      /\ r.ret = "InProgress" =>
            /\ ResumesOK(r.s)
            /\ b.ai.running # None =>
                  b.ai.running \notin RightTasks[r.s.ai.running]
  BY <1>6, ExecuteRootOK
<1> HIDE DEF r
<1>8. r.s \in NpcMembers
  BY <1>7 DEF Results
<1>9. CASE r.ret = "InProgress"
  <2>1. q = r.s
    BY <1>9
  <2> HIDE DEF q
  <2>2. Kept(s, q)
    BY <1>6, <1>7, <2>1, KeptTransitive
  <2>3. IInv' /\ ai' = q.ai
    BY <1>2, <1>7, <1>9, <2>1, <2>2, BecomesOK DEF s
  <2> QED BY <1>6, <1>7, <1>9, <2>1, <2>3 DEF Forward
<1>10. CASE r.ret # "InProgress"
  <2>1. q = ResetRunning(r.s)
    BY <1>10
  <2> HIDE DEF q
  <2>2. Kept(r.s, q) /\ q.ai.running = None /\ CountsOK(q)
    BY <1>7, <1>8, <2>1, ResetRunningOK
  <2>3. Kept(s, q) /\ ResumesOK(q)
    BY <1>6, <1>7, <2>2, KeptTransitive DEF ResumesOK
  <2>4. IInv' /\ ai' = q.ai
    BY <1>2, <2>2, <2>3, BecomesOK DEF s
  <2> QED BY <2>2, <2>4 DEF Forward
<1> QED BY <1>9, <1>10

LEMMA fsmUpdateOK ==
    ASSUME IInv, NEW path \in BOOLEAN, NEW due \in BOOLEAN, fsmUpdate(path, due)
    PROVE  IInv' /\ Forward
<1> DEFINE s == Current
           q == CASE fsm.state = "Spawn" -> UpdateSpawn(s)
                  [] fsm.state = "Waiting" -> UpdateWaiting(s)
                  [] fsm.state = "MoveTo" -> UpdateMoveTo(s, path)
                  [] fsm.state = "Return" -> UpdateReturn(s)
                  [] fsm.state = "Roaming" -> UpdateRoaming(s, due, path)
                  [] OTHER -> s
<1>1. s \in NpcMembers /\ s.fsm = fsm /\ tick' \in BOOLEAN /\ Becomes(q)
  <2>1. tick' = tick /\ Becomes(q)
    BY DEF fsmUpdate
  <2> HIDE DEF q
  <2> QED BY <2>1, CurrentFacts
<1> HIDE DEF s
<1>2. /\ fsm.state = "Spawn" => Updated(s, UpdateSpawn(s))
      /\ Updated(s, UpdateWaiting(s)) /\ Updated(s, UpdateMoveTo(s, path))
      /\ fsm.state = "Return" => Updated(s, UpdateReturn(s))
      /\ fsm.state = "Roaming" => Updated(s, UpdateRoaming(s, due, path))
      /\ Updated(s, s)
  BY <1>1, UpdateSpawnOK, UpdateWaitingOK, UpdateMoveToOK, UpdateReturnOK,
     UpdateRoamingOK, MovedSame, MovedUpdated
<1>3. Updated(s, q)
  BY <1>2
<1> HIDE DEF q
<1> QED BY <1>1, <1>3, UpdatedOK DEF s

LEMMA moveUpdateOK == ASSUME IInv, moveUpdate PROVE IInv' /\ Forward
<1> PICK left \in {Exact, Near, Far} : Becomes(Arrive(Current, left))
  BY DEF moveUpdate
<1> DEFINE s == Current
           q == Arrive(s, left)
<1>1. s \in NpcMembers /\ tick' \in BOOLEAN /\ Becomes(q)
  BY CurrentFacts DEF moveUpdate
<1> HIDE DEF s
<1>2. Updated(s, q)
  BY <1>1, ArriveOK
<1> HIDE DEF q
<1> QED BY <1>1, <1>2, UpdatedOK DEF s

\* In the states the fight drives it from, the npc has no task.
LEMMA driveOK ==
    ASSUME IInv, NEW d \in Drives, NEW goal \in {Exact, Near, Far},
           NEW path \in BOOLEAN, drive(d[2], goal, path)
    PROVE  IInv' /\ Forward
<1> DEFINE s == Current
           state == d[2]
           q == ChangeState(s, state, goal, path)
<1>1. /\ s \in NpcMembers /\ s.fsm = fsm /\ tick' \in BOOLEAN /\ Becomes(q)
      /\ <<fsm.state, state>> \in Drives
  <2>1. tick' = tick /\ Becomes(q) /\ <<fsm.state, state>> \in Drives
    BY DEF drive
  <2> HIDE DEF q
  <2> QED BY <2>1, CurrentFacts
<1>2. fsm.state \notin {"MoveTo", "Waiting"} /\ state \in NpcStates
  <2> DEFINE now == fsm.state
  <2> HIDE DEF now, state
  <2>1. <<now, state>> \in Drives
    BY <1>1 DEF now
  <2>2. /\ now \in {"Idle", "Roaming", "Chase"}
        /\ state \in {"Chase", "Roaming", "Return"}
    BY <2>1 DEF Drives
  <2> QED BY <2>2 DEF now, NpcStates
<1> HIDE DEF s, state
<1>3. Left(s, q)
  BY <1>1, <1>2, ChangeStateOK
<1> HIDE DEF q
<1>4. Updated(s, q)
  BY <1>1, <1>2, <1>3, IdleUpdated
<1> QED BY <1>1, <1>4, UpdatedOK DEF s

LEMMA elapseOK == ASSUME IInv, elapse PROVE IInv' /\ Forward
<1> DEFINE s == Current
           f == [s.fsm EXCEPT !.timeUp = TRUE]
           q == [s EXCEPT !.fsm = f]
<1>1. /\ s \in NpcMembers /\ s.fsm = fsm /\ s.fsm \in FsmMembers
      /\ ResumesOK(s) /\ CountsOK(s)
  BY CurrentFacts, MemberTypes
<1>2. fsm' = f
  <2> HIDE DEF s
  <2> QED BY <1>1 DEF elapse
<1>3. /\ s.ai = ai /\ s.move = move /\ s.combat = combat /\ s.token = token
      /\ s.nextMove = nextMove /\ s.done = done /\ s.free = free
  BY CurrentFacts
<1> HIDE DEF s
<1>4. f \in FsmMembers /\ f.state = s.fsm.state /\ f.ended = s.fsm.ended
  BY <1>1 DEF FsmMembers
<1> HIDE DEF f
<1>5. /\ q \in NpcMembers /\ q.ai = s.ai /\ q.fsm = f /\ q.move = s.move
      /\ q.combat = s.combat /\ q.token = s.token /\ q.nextMove = s.nextMove
      /\ q.done = s.done /\ q.free = s.free
  BY <1>1, <1>4 DEF NpcMembers
<1> HIDE DEF q
<1>6. Has(q)
  BY <1>2, <1>3, <1>5 DEF elapse, Has
<1>7. ResumesOK(q) /\ CountsOK(q)
  BY <1>1, <1>4, <1>5 DEF ResumesOK, DoesOK, LeadsOK, CountsOK
<1>8. /\ here' = here /\ free' = free /\ others' = others /\ tick' = tick
      /\ refilled' = refilled /\ ai' = ai
  BY DEF elapse
<1>9. IInv'
  BY <1>3, <1>5, <1>6, <1>7, <1>8, CurrentFacts, Carried DEF PlaceOK, s
<1> QED BY <1>8, <1>9, CurrentFacts, StaysForward

LEMMA coolDownOK == ASSUME IInv, NEW t \in Tasks, coolDown(t) PROVE IInv' /\ Forward
<1> DEFINE s == Current
           a == [s.ai EXCEPT !.cooling = @ \ {t}]
           q == [s EXCEPT !.ai = a]
<1>1. /\ s \in NpcMembers /\ s.ai = ai /\ s.ai \in AiMembers
      /\ ResumesOK(s) /\ CountsOK(s)
  BY CurrentFacts, MemberTypes
<1>2. ai' = a
  <2> HIDE DEF s
  <2> QED BY <1>1 DEF coolDown
<1>3. /\ s.fsm = fsm /\ s.move = move /\ s.combat = combat /\ s.token = token
      /\ s.nextMove = nextMove /\ s.done = done /\ s.free = free
  BY CurrentFacts
<1> HIDE DEF s
<1>4. /\ a \in AiMembers /\ a.running = s.ai.running /\ a.indexes = s.ai.indexes
      /\ a.counts = s.ai.counts /\ a.latent = s.ai.latent
  BY <1>1 DEF AiMembers
<1> HIDE DEF a
<1>5. /\ q \in NpcMembers /\ q.ai = a /\ q.fsm = s.fsm /\ q.move = s.move
      /\ q.combat = s.combat /\ q.token = s.token /\ q.nextMove = s.nextMove
      /\ q.done = s.done /\ q.free = s.free
  BY <1>1, <1>4 DEF NpcMembers
<1> HIDE DEF q
<1>6. Has(q)
  BY <1>2, <1>3, <1>5 DEF coolDown, Has
<1>7. ResumesOK(q) /\ CountsOK(q)
  BY <1>1, <1>4, <1>5 DEF ResumesOK, DoesOK, LeadsOK, CountsOK
<1>8. /\ here' = here /\ free' = free /\ others' = others /\ tick' = tick
      /\ refilled' = refilled
  BY DEF coolDown
<1>9. IInv'
  BY <1>3, <1>5, <1>6, <1>7, <1>8, CurrentFacts, Carried DEF PlaceOK, s
<1>10. ai'.running = ai.running
  BY <1>1, <1>2, <1>4
<1> QED BY <1>9, <1>10, CurrentFacts, StaysForward

\* A new npc has nothing running and no place.
LEMMA CreateNpcOK ==
    ASSUME NEW g \in Garbage
    PROVE  LET s == CreateNpc(g[1], g[2])
           IN  /\ s \in NpcMembers /\ s.ai.running = None /\ s.token = None
               /\ ResumesOK(s) /\ CountsOK(s)
<1> DEFINE c == Created(g[1], g[2])
           s == CreateNpc(g[1], g[2])
<1>1. g[1] \in {"Moving", "Stop"} /\ g[2] \in {"Position", "ToActor"}
  BY DEF Garbage
<1>2. /\ c \in NpcMembers /\ c.ai.running = None
      /\ c.token = None /\ c.free = {} /\ CountsOK(c)
  BY <1>1, CreatedOK
<1>3. s = ChangeState(c, "Spawn", Exact, FALSE)
  BY DEF CreateNpc, EnterWorld
<1> HIDE DEF c, s
<1>4. "Spawn" \in NpcStates /\ Exact \in {Exact, Near, Far} /\ FALSE \in BOOLEAN
  BY DEF NpcStates
<1>5. Left(c, s)
  BY <1>2, <1>3, <1>4, ChangeStateOK
<1>6. PlaceOK(c, Tokens) => PlaceOK(s, Tokens)
  BY <1>5 DEF Left, Kept
<1>7. PlaceOK(c, Tokens)
  BY <1>2, NpcAssumption DEF PlaceOK
<1>8. s \in NpcMembers /\ s.ai.running = None /\ CountsOK(s)
  BY <1>2, <1>5 DEF Left, Kept
<1>9. s.token = None
  BY <1>6, <1>7, <1>8, MemberTypes DEF PlaceOK
<1> QED BY <1>8, <1>9 DEF ResumesOK, s

LEMMA respawnOK ==
    ASSUME IInv, NEW g \in Garbage, respawn(g[1], g[2]) PROVE IInv' /\ Forward
<1> DEFINE q == CreateNpc(g[1], g[2])
<1>1. /\ q \in NpcMembers /\ q.ai.running = None /\ q.token = None
      /\ ResumesOK(q) /\ CountsOK(q)
  BY CreateNpcOK
<1>2. /\ Has(q) /\ ai' = q.ai
      /\ here' = here /\ free' = free /\ others' = others /\ tick' = tick
      /\ refilled' = refilled
  BY DEF respawn, Has
<1> HIDE DEF q
<1>3. None \notin Tokens
  BY NpcAssumption
<1>4. ~refilled => q.token \notin free \cup others /\ others \cap free = {}
  BY <1>1, <1>3, CurrentFacts DEF PlaceOK
<1>5. IInv'
  BY <1>1, <1>2, <1>4, CurrentFacts, Carried
<1> QED BY <1>1, <1>2, <1>5 DEF Forward

\* The target and the other npcs change no member of this one.
LEMMA TargetOK ==
    ASSUME IInv, UNCHANGED npcVars, here' \in BOOLEAN, free' \subseteq Tokens,
           others' \subseteq Tokens, tick' = tick, refilled' \in BOOLEAN,
           ~refilled' => token \notin free' \cup others' /\ others' \cap free' = {}
    PROVE  IInv' /\ Forward
<1>1. Has(Current) /\ ai' = ai
  BY CurrentFacts DEF Has, npcVars
<1>2. IInv'
  BY <1>1, CurrentFacts, Carried
<1> QED BY <1>1, <1>2, CurrentFacts, StaysForward

LEMMA targetEntersOK == ASSUME IInv, targetEnters PROVE IInv' /\ Forward
<1>1. /\ UNCHANGED npcVars /\ here' = TRUE /\ free' = Tokens /\ others' = others
      /\ tick' = tick /\ refilled' = (refilled \/ token # None \/ others # {})
  BY DEF targetEnters
<1>2. None \notin Tokens
  BY NpcAssumption
<1>3. refilled' \in BOOLEAN /\ (~refilled' => token = None /\ others = {})
  BY <1>1, CurrentFacts
<1>4. ~refilled' => token \notin free' \cup others' /\ others' \cap free' = {}
  BY <1>1, <1>2, <1>3
<1> QED BY <1>1, <1>3, <1>4, CurrentFacts, TargetOK

LEMMA targetLeavesOK == ASSUME IInv, targetLeaves PROVE IInv' /\ Forward
<1>1. /\ UNCHANGED npcVars /\ here' = FALSE /\ free' = free /\ others' = others
      /\ tick' = tick /\ refilled' = refilled
  BY DEF targetLeaves
<1>2. ~refilled' => token \notin free' \cup others' /\ others' \cap free' = {}
  BY <1>1, CurrentFacts DEF PlaceOK
<1> QED BY <1>1, <1>2, CurrentFacts, TargetOK

\* A place is handed on: free and taken ones stay apart.
LEMMA otherTakesOK == ASSUME IInv, NEW t \in Tokens, otherTakes(t) PROVE IInv' /\ Forward
<1>1. /\ UNCHANGED npcVars /\ here' = here /\ tick' = tick /\ refilled' = refilled
      /\ t \in free /\ free' = free \ {t} /\ others' = others \cup {t}
  BY DEF otherTakes
<1>2. ~refilled' => token \notin free' \cup others' /\ others' \cap free' = {}
  BY <1>1, CurrentFacts DEF PlaceOK
<1> QED BY <1>1, <1>2, CurrentFacts, TargetOK

LEMMA otherReturnsOK ==
    ASSUME IInv, NEW t \in Tokens, otherReturns(t) PROVE IInv' /\ Forward
<1>1. /\ UNCHANGED npcVars /\ here' = here /\ tick' = tick /\ refilled' = refilled
      /\ t \in others /\ others' = others \ {t}
      /\ free' = IF here THEN free \cup {t} ELSE free
  BY DEF otherReturns
<1>2. ~refilled' => token \notin free' \cup others' /\ others' \cap free' = {}
  BY <1>1, CurrentFacts DEF PlaceOK
<1>3. free' \subseteq Tokens /\ others' \subseteq Tokens
  BY <1>1, CurrentFacts
<1> QED BY <1>1, <1>2, <1>3, CurrentFacts, TargetOK

LEMMA WorldOK == ASSUME IInv, World PROVE IInv' /\ Forward
<1>1. ASSUME NEW d \in Drives, NEW goal \in {Exact, Near, Far}, NEW path \in BOOLEAN,
             drive(d[2], goal, path)
      PROVE  IInv' /\ Forward
  BY <1>1, driveOK
<1>2. ASSUME NEW g \in Garbage, respawn(g[1], g[2]) PROVE IInv' /\ Forward
  BY <1>2, respawnOK
<1>3. ASSUME NEW t \in Tokens, otherTakes(t) \/ otherReturns(t)
      PROVE  IInv' /\ Forward
  BY <1>3, otherTakesOK, otherReturnsOK
<1> QED BY <1>1, <1>2, <1>3, targetEntersOK, targetLeavesOK DEF World

-----------------------------------------------------------------------------
(* The theorems.                                                           *)

LEMMA InitIInv == ASSUME Init PROVE IInv
<1> PICK g \in Garbage :
        LET s == CreateNpc(g[1], g[2]) IN
        /\ ai = s.ai /\ fsm = s.fsm /\ move = s.move /\ combat = s.combat
        /\ token = s.token /\ nextMove = s.nextMove /\ done = s.done
  BY DEF Init
<1> DEFINE q == CreateNpc(g[1], g[2])
<1>1. /\ q \in NpcMembers /\ q.ai.running = None /\ q.token = None
      /\ ResumesOK(q) /\ CountsOK(q)
  BY CreateNpcOK
<1>2. /\ ai = q.ai /\ fsm = q.fsm /\ move = q.move /\ combat = q.combat
      /\ token = q.token /\ nextMove = q.nextMove /\ done = q.done
  OBVIOUS
<1> HIDE DEF q
<1>3. /\ here = FALSE /\ free = Tokens /\ others = {} /\ tick = FALSE
      /\ refilled = FALSE
  BY DEF Init
<1>4. Current \in NpcMembers
  BY <1>1, <1>2, <1>3 DEF Current, NpcMembers
<1>5. /\ Current.ai = q.ai /\ Current.done = q.done /\ Current.token = None
      /\ Current.free = Tokens
  BY <1>1, <1>2, <1>3 DEF Current
<1> HIDE DEF Current
<1>6. ResumesOK(Current) /\ CountsOK(Current)
  BY <1>1, <1>5 DEF ResumesOK, CountsOK
<1>7. PlaceOK(Current, others)
  BY <1>1, <1>3, <1>5, NpcAssumption DEF PlaceOK
<1> QED BY <1>3, <1>4, <1>6, <1>7 DEF IInv, TypeOK

LEMMA NextIInv == ASSUME IInv, [Next]_vars PROVE IInv' /\ (Next => Forward)
<1>1. CASE UNCHANGED vars
  <2>1. /\ UNCHANGED npcVars /\ here' = here /\ free' = free /\ others' = others
        /\ tick' = tick /\ refilled' = refilled
    BY <1>1 DEF vars
  <2>2. ~refilled' => token \notin free' \cup others' /\ others' \cap free' = {}
    BY <2>1, CurrentFacts DEF PlaceOK
  <2> QED BY <2>1, <2>2, CurrentFacts, TargetOK
<1>2. CASE Next
  <2>1. ASSUME NEW env \in Envs, aiUpdate(env) PROVE IInv' /\ Forward
    BY <2>1, aiUpdateOK
  <2>2. ASSUME NEW path \in BOOLEAN, NEW due \in BOOLEAN, fsmUpdate(path, due)
        PROVE  IInv' /\ Forward
    BY <2>2, fsmUpdateOK
  <2>3. ASSUME NEW t \in Tasks, coolDown(t) PROVE IInv' /\ Forward
    BY <2>3, coolDownOK
  <2> QED BY <1>2, <2>1, <2>2, <2>3, moveUpdateOK, elapseOK, WorldOK DEF Next
<1> QED BY <1>1, <1>2

\* IInv is an invariant of every npc: its members have their types, the task in
\* progress is the one its state machine performs and the indexes of the
\* composites above it lead the next tick to it, no success is missing from
\* the counts, and its place is its own.
THEOREM Invariance == Spec => []IInv
<1>1. Init => IInv
  BY InitIInv
<1>2. IInv /\ [Next]_vars => IInv'
  BY NextIInv
<1> QED BY <1>1, <1>2, PTL DEF Spec

\* NpcAiComponent: a task that is in progress is what the npc is doing, and
\* the result that waits for it (setTaskLatentResult) is that state's success.
THEOREM PerformsWhatRuns == Spec => []RunningIsPerformed
<1>1. IInv => RunningIsPerformed
  <2> SUFFICES ASSUME IInv PROVE RunningIsPerformed
    OBVIOUS
  <2>1. ResumesOK(Current) /\ Current.ai = ai /\ Current.fsm = fsm
    BY CurrentFacts
  <2> QED BY <2>1 DEF ResumesOK, DoesOK, RunningIsPerformed
<1> QED BY <1>1, Invariance, PTL

\* checkEnableTask and onTaskResult: a task with an ExcuteLimit succeeds at most
\* that often between two resets, at once or ticks after it began.
THEOREM LimitsKept == Spec => []LimitHolds
<1>1. IInv => LimitHolds
  <2> SUFFICES ASSUME IInv PROVE LimitHolds
    OBVIOUS
  <2>1. CountsOK(Current) /\ Current.done = done
    BY CurrentFacts
  <2> QED BY <2>1 DEF CountsOK, LimitHolds
<1> QED BY <1>1, Invariance, PTL

\* NpcMoveComponent::_takeToken and returnToken over the target's location
\* tokens (Actor.h): a place beside the target is free or one npc's, until the target comes into a room again while places are taken.
THEOREM PlacesApart == Spec => []TokenOnce
<1>1. IInv => TokenOnce
  <2> SUFFICES ASSUME IInv PROVE TokenOnce
    OBVIOUS
  <2>1. /\ ~refilled => PlaceOK(Current, others)
        /\ Current.token = token /\ Current.free = free
    BY CurrentFacts
  <2> QED BY <2>1 DEF PlaceOK, TokenOnce
<1> QED BY <1>1, Invariance, PTL

\* SequenceNode and SelectorNode: whatever a tick executes, aborts or skips,
\* while a task is in progress it never begins one to the left of it.
THEOREM OnlyForward == Spec => NeverBack
<1>1. IInv /\ [Next]_vars => [Forward]_vars
  <2> SUFFICES ASSUME IInv, Next PROVE Forward
    OBVIOUS
  <2> QED BY NextIInv
<1>2. NeverBack <=> [][Forward]_vars
  BY PTL DEF NeverBack, Forward
<1> QED BY <1>1, <1>2, Invariance, PTL DEF Spec
=============================================================================
