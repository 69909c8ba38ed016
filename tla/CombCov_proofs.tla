-------------------------- MODULE CombCov_proofs ---------------------------
(****************************************************************************)
(* Theorems about the marks and the coverage of one statement, for trees of *)
(* every shape and any number of signals, changes and exclusions.           *)
(****************************************************************************)
EXTENDS CombCov, SequenceTheorems, WellFoundedInduction, FiniteSetTheorems, TLAPS

-----------------------------------------------------------------------------
(* Recursive functions whose value looks at elements of a lower rank only.  *)

(* A set of numbers that is not empty has a least one. *)
LEMMA LeastNumber ==
  ASSUME NEW S \in SUBSET Nat, S # {}
  PROVE  \E i \in S : \A j \in S : i <= j
<1>1. PICK i \in S : \A j \in S : ~(<<j, i>> \in OpToRel(<, Nat))
  BY NatLessThanWellFounded, WFMin
<1>2. \A j \in S : ~(j < i)
  BY <1>1 DEF OpToRel
<1> QED BY <1>2

Ranked(N, r, L) == L \in Nat /\ r \in [N -> 0..L]

Looks(N, V, r, D) ==
  /\ V # {}
  /\ D \in [[N -> V] -> [N -> V]]
  /\ \A g, h \in [N -> V], n \in N : (\A m \in N : r[m] < r[n] => g[m] = h[m]) => D[g][n] = D[h][n]

(* The equation f = D[f] has a solution. *)
LEMMA RecursiveFunction ==
  ASSUME NEW N, NEW V, NEW r, NEW L, NEW D, Ranked(N, r, L), Looks(N, V, r, D)
  PROVE  \E f \in [N -> V] : f = D[f]
<1> DEFINE Solves(i, g) == \A n \in N : r[n] < i => g[n] = D[g][n]
           Bad == {i \in Nat : ~\E g \in [N -> V] : Solves(i, g)}
<1>0. ASSUME NEW g \in [N -> V], NEW h \in [N -> V], NEW n \in N, \A m \in N : r[m] < r[n] => g[m] = h[m]
      PROVE  D[g][n] = D[h][n]
  BY <1>0 DEF Looks
<1>1. /\ L \in Nat /\ \A n \in N : r[n] \in Nat /\ r[n] < L + 1
      /\ \A g \in [N -> V] : D[g] \in [N -> V]
  BY DEF Ranked, Looks
<1>2. Bad = {}
  <2> SUFFICES ASSUME Bad # {} PROVE FALSE
    OBVIOUS
  <2>1. PICK i \in Bad : \A j \in Bad : i <= j
    BY LeastNumber
  <2>2. i # 0
    <3>1. PICK v : v \in V
      BY DEF Looks
    <3>2. [n \in N |-> v] \in [N -> V] /\ Solves(0, [n \in N |-> v])
      BY <1>1, <3>1
    <3> QED BY <2>1, <3>2
  <2>3. i \in Nat /\ i - 1 \in Nat /\ i - 1 \notin Bad
    BY <2>1, <2>2
  <2>4. PICK g \in [N -> V] : Solves(i - 1, g)
    BY <2>3
  <2> DEFINE G == [n \in N |-> IF r[n] < i - 1 THEN g[n] ELSE D[g][n]]
  <2>5. G \in [N -> V]
    BY <1>1
  <2>6. ASSUME NEW n \in N, r[n] < i PROVE G[n] = D[G][n]
    <3>1. \A m \in N : r[m] < r[n] => G[m] = g[m]
      BY <1>1, <2>3, <2>6
    <3>2. D[G][n] = D[g][n]
      <4> HIDE DEF G
      <4> QED BY <1>0, <2>5, <3>1
    <3> QED BY <1>1, <2>4, <3>2
  <2>7. Solves(i, G)
    BY <2>6
  <2> QED BY <2>1, <2>5, <2>7
<1>3. PICK f \in [N -> V] : Solves(L + 1, f)
  <2>1. L + 1 \in Nat /\ L + 1 \notin Bad
    BY <1>1, <1>2
  <2> QED BY <2>1
<1>4. \A n \in N : f[n] = D[f][n]
  BY <1>1, <1>3
<1> QED BY <1>1, <1>4


-----------------------------------------------------------------------------
(* The tree.                                                                *)

Ops == Leaf \cup Unary \cup Binary

(* Kid k of expression n. *)
IsKid(k, n) == k # 0 /\ (k = tree[n].left \/ k = tree[n].right)

NodeShape(n) ==
  /\ tree[n].op \in Ops /\ tree[n].left \in Nat /\ tree[n].right \in Nat
  /\ \A k : IsKid(k, n) => k \in Nodes /\ n < k
  /\ tree[n].op \in Leaf => tree[n].left = 0 /\ tree[n].right = 0
  /\ tree[n].op \in Unary => tree[n].left = 0 /\ tree[n].right # 0
  /\ tree[n].op \in Binary => tree[n].left # 0 /\ tree[n].right # 0 /\ tree[n].left # tree[n].right
  /\ tree[n].op = "SIG" => tree[n].sig \in Signals
  /\ tree[n].op = "STATIC" => tree[n].sig \in Bit
  /\ tree[n].op = "COND" => tree[tree[n].right].op = "COND_SEL" /\ tree[n].right < tree[n].left
  /\ \A k : IsKid(k, n) /\ tree[k].op = "COND_SEL" => tree[n].op = "COND" /\ k = tree[n].right
  /\ tree[n].op \in {"IF", "ASSIGN"} <=> n = 1

ParentOf(n) ==
  /\ Parent(n) \in Nodes /\ Parent(n) < n /\ IsKid(n, Parent(n))
  /\ \A p \in Nodes : IsKid(n, p) => p = Parent(n)

Shape ==
  /\ Len(tree) \in Nat /\ Nodes = 1..Len(tree) /\ 1 \in Nodes
  /\ \A n \in Nodes : NodeShape(n)
  /\ \A n \in Nodes : n # 1 => ParentOf(n)

LEMMA TreeShape == tree \in Trees => Shape
<1> SUFFICES ASSUME tree \in Trees PROVE Shape
  OBVIOUS
<1> DEFINE T == [op : Ops, left : Nat, right : Nat, sig : Signals \cup Bit \cup {""}]
<1>1. IsTree(tree)
  BY TreesAssumption
<1>2. tree \in Seq(T) /\ tree # <<>>
  BY <1>1 DEF IsTree, Ops
<1>3. Len(tree) \in Nat /\ Nodes = 1..Len(tree) /\ 1 \in Nodes /\ \A n \in Nodes : tree[n] \in T
  <2>1. Len(tree) \in Nat /\ DOMAIN tree = 1..Len(tree)
    BY <1>2, LenProperties
  <2>2. Len(tree) # 0
    BY <1>2, EmptySeq
  <2>3. 1 \in 1..Len(tree)
    BY <2>1, <2>2
  <2>4. \A n \in Nodes : tree[n] \in T
    BY <1>2, <2>1, ElementOfSeq DEF Nodes
  <2> QED BY <2>1, <2>3, <2>4 DEF Nodes
<1>4. \A n \in Nodes : \A k : k \in Kids(n) <=> IsKid(k, n)
  BY DEF Kids, IsKid
<1>5. ASSUME NEW n \in Nodes
      PROVE  /\ Kids(n) \subseteq n+1..Len(tree)
             /\ n # 1 => \E p \in Nodes : n \in Kids(p)
             /\ \A p \in Nodes : Kids(n) \cap Kids(p) # {} => n = p
             /\ tree[n].op \in Leaf => tree[n].left = 0 /\ tree[n].right = 0
             /\ tree[n].op \in Unary => tree[n].left = 0 /\ tree[n].right # 0
             /\ tree[n].op \in Binary => tree[n].left # 0 /\ tree[n].right # 0 /\ tree[n].left # tree[n].right
             /\ tree[n].op = "SIG" => tree[n].sig \in Signals
             /\ tree[n].op = "STATIC" => tree[n].sig \in Bit
             /\ tree[n].op = "COND" => tree[tree[n].right].op = "COND_SEL" /\ tree[n].right < tree[n].left
             /\ \A k \in Kids(n) : tree[k].op = "COND_SEL" => tree[n].op = "COND" /\ k = tree[n].right
             /\ tree[n].op \in {"IF", "ASSIGN"} <=> n = 1
  BY <1>1 DEF IsTree, Nodes, Kids
<1>6. ASSUME NEW n \in Nodes, NEW k, IsKid(k, n) PROVE k \in Nodes /\ n < k
  <2>1. k \in n+1..Len(tree) /\ n \in 1..Len(tree)
    BY <1>3, <1>4, <1>5, <1>6
  <2>2. ASSUME NEW L \in Nat, n \in 1..L, k \in n+1..L PROVE k \in 1..L /\ n < k
    BY <2>2
  <2> QED BY <1>3, <2>1, <2>2
<1>7. ASSUME NEW n \in Nodes PROVE NodeShape(n)
  <2>1. tree[n].op \in Ops /\ tree[n].left \in Nat /\ tree[n].right \in Nat
    BY <1>3
  <2> QED BY <1>4, <1>5, <1>6, <2>1 DEF NodeShape
<1>8. ASSUME NEW n \in Nodes, n # 1 PROVE ParentOf(n)
  <2>1. PICK p \in Nodes : n \in Kids(p)
    BY <1>5, <1>8
  <2>2. Parent(n) \in Nodes /\ n \in Kids(Parent(n))
    BY <2>1 DEF Parent
  <2>3. \A q \in Nodes : n \in Kids(q) => q = Parent(n)
    BY <1>5, <2>2
  <2> QED BY <1>4, <1>6, <2>2, <2>3 DEF ParentOf
<1> QED BY <1>3, <1>7, <1>8 DEF Shape

(* What holds of an expression if it holds of those above it, holds of all. *)
LEMMA FromTheRoot ==
  ASSUME Shape, NEW S \in SUBSET Nodes, S # {}
  PROVE  \E n \in S : n = 1 \/ Parent(n) \in Nodes \ S
<1>1. S \in SUBSET Nat
  BY DEF Shape
<1>2. PICK n \in S : \A m \in S : n <= m
  BY <1>1, LeastNumber
<1>3. CASE n # 1
  <2>1. Parent(n) \in Nodes /\ Parent(n) < n /\ n \in Nat /\ Parent(n) \in Nat
    BY <1>1, <1>3 DEF Shape, ParentOf
  <2> QED BY <1>2, <2>1
<1> QED BY <1>3

(* The same from the leaves upwards.                                        *)
LEMMA FromTheLeaves ==
  ASSUME Shape, NEW S \in SUBSET Nodes, S # {}
  PROVE  \E n \in S : \A m \in Nodes : n < m => m \notin S
<1> DEFINE R == {Len(tree) - n : n \in S}
<1>0. S \in SUBSET (1..Len(tree)) /\ Len(tree) \in Nat
  BY DEF Shape
<1>1. R \in SUBSET Nat /\ R # {}
  <2>1. \A n \in S : Len(tree) - n \in Nat
    BY <1>0
  <2> QED BY <2>1
<1>2. PICK i \in R : \A j \in R : i <= j
  BY <1>1, LeastNumber
<1>3. PICK n \in S : i = Len(tree) - n
  BY <1>2
<1>4. ASSUME NEW m \in S PROVE m <= n
  <2>1. Len(tree) - m \in R
    OBVIOUS
  <2>2. Len(tree) - n <= Len(tree) - m
    BY <1>2, <1>3, <2>1
  <2> QED BY <1>0, <2>2
<1> QED BY <1>0, <1>4

-----------------------------------------------------------------------------
(* The recursive functions of the model satisfy their equations.            *)

Nodes0 == Nodes \cup {0}

(* The right side of an equation that looks at 0 and greater numbers only.  *)
LooksDown(V, D) ==
  /\ V # {}
  /\ D \in [[Nodes0 -> V] -> [Nodes0 -> V]]
  /\ \A g, h \in [Nodes0 -> V], n \in Nodes0 :
        (\A m \in Nodes0 : n # 0 /\ (m = 0 \/ n < m) => g[m] = h[m]) => D[g][n] = D[h][n]

LEMMA BottomUp ==
  ASSUME Shape, NEW V, NEW D, LooksDown(V, D)
  PROVE  \E f \in [Nodes0 -> V] : f = D[f]
<1> DEFINE r == [n \in Nodes0 |-> IF n = 0 THEN 0 ELSE Len(tree) - n + 1]
<1>1. Len(tree) \in Nat /\ Nodes = 1..Len(tree)
  BY DEF Shape
<1>2. ASSUME NEW L \in Nat, NEW n \in 1..L PROVE L - n + 1 \in 1..L
  BY <1>2
<1>3. \A n \in Nodes : r[n] = Len(tree) - n + 1 /\ r[n] \in 1..Len(tree)
  BY <1>1, <1>2 DEF Nodes0
<1>4. r[0] = 0
  BY DEF Nodes0
<1>5. Ranked(Nodes0, r, Len(tree))
  BY <1>1, <1>3, <1>4 DEF Ranked, Nodes0
<1>6. ASSUME NEW n \in Nodes0, NEW m \in Nodes0, n # 0 /\ (m = 0 \/ n < m) PROVE r[m] < r[n]
  BY <1>1, <1>3, <1>4, <1>6 DEF Nodes0
<1>7. Looks(Nodes0, V, r, D)
  <2> HIDE DEF r
  <2> QED BY <1>6 DEF Looks, LooksDown
<1> HIDE DEF r
<1> QED BY <1>5, <1>7, RecursiveFunction

LEMMA ReachedIs ==
  ASSUME Shape, NEW e, NEW S
  PROVE  \A n \in Nodes : /\ Reached(e, S)[n] \in BOOLEAN
                          /\ Reached(e, S)[n] <=> \/ n \in S
                                                  \/ \E k \in Kids(n) : Reached(e, S)[k] /\ ~Stops(e, k, n)
<1> DEFINE E(g, n) == n \in S \/ (\E k \in Kids(n) : g[k] /\ ~Stops(e, k, n))
           D == [g \in [Nodes -> BOOLEAN] |-> [n \in Nodes |-> E(g, n)]]
           r == [n \in Nodes |-> Len(tree) - n]
<1>1. Len(tree) \in Nat /\ Nodes = 1..Len(tree)
  BY DEF Shape
<1>2. ASSUME NEW L \in Nat, NEW n \in 1..L PROVE L - n \in 0..L
  BY <1>2
<1>3. Ranked(Nodes, r, Len(tree))
  BY <1>1, <1>2 DEF Ranked
<1>4. ASSUME NEW g \in [Nodes -> BOOLEAN], NEW h \in [Nodes -> BOOLEAN], NEW n \in Nodes,
             \A m \in Nodes : r[m] < r[n] => g[m] = h[m]
      PROVE  D[g][n] = D[h][n]
  <2>1. ASSUME NEW k \in Kids(n) PROVE g[k] = h[k]
    <3>1. k \in Nodes /\ n < k
      BY DEF Kids, IsKid, Shape, NodeShape
    <3>2. r[k] < r[n]
      BY <1>1, <3>1
    <3> QED BY <1>4, <3>1, <3>2
  <2> QED BY <2>1
<1>5. Looks(Nodes, BOOLEAN, r, D)
  <2>1. D \in [[Nodes -> BOOLEAN] -> [Nodes -> BOOLEAN]]
    OBVIOUS
  <2> HIDE DEF D, r
  <2> QED BY <1>4, <2>1 DEF Looks
<1>6. PICK f \in [Nodes -> BOOLEAN] : f = D[f]
  <2> HIDE DEF D, r
  <2> QED BY <1>3, <1>5, RecursiveFunction
<1>7. f = [n \in Nodes |-> E(f, n)]
  BY <1>6
<1>8. Reached(e, S) = [n \in Nodes |-> E(Reached(e, S), n)]
  BY <1>7 DEF Reached
<1> QED BY <1>8

LEMMA VisitsIs ==
  ASSUME Shape
  PROVE  \A n \in Nodes : n \in Visited <=> n = 1 \/ (Parent(n) \in Visited /\ Marked(exp, n, Parent(n)))
<1> DEFINE E(g, n) == n = 1 \/ (g[Parent(n)] /\ Marked(exp, n, Parent(n)))
           D == [g \in [Nodes -> BOOLEAN] |-> [n \in Nodes |-> E(g, n)]]
           r == [n \in Nodes |-> n]
<1>1. Len(tree) \in Nat /\ Nodes = 1..Len(tree)
  BY DEF Shape
<1>3. Ranked(Nodes, r, Len(tree))
  BY <1>1 DEF Ranked
<1>4. ASSUME NEW g \in [Nodes -> BOOLEAN], NEW h \in [Nodes -> BOOLEAN], NEW n \in Nodes,
             \A m \in Nodes : r[m] < r[n] => g[m] = h[m]
      PROVE  D[g][n] = D[h][n]
  <2>1. n # 1 => g[Parent(n)] = h[Parent(n)]
    <3>1. n # 1 => Parent(n) \in Nodes /\ Parent(n) < n
      BY DEF Shape, ParentOf
    <3> QED BY <1>4, <3>1
  <2> QED BY <2>1
<1>5. Looks(Nodes, BOOLEAN, r, D)
  <2>1. D \in [[Nodes -> BOOLEAN] -> [Nodes -> BOOLEAN]]
    <3> SUFFICES ASSUME NEW g \in [Nodes -> BOOLEAN], NEW n \in Nodes PROVE E(g, n) \in BOOLEAN
      OBVIOUS
    <3> QED OBVIOUS
  <2> HIDE DEF D, r
  <2> QED BY <1>4, <2>1 DEF Looks
<1>6. PICK f \in [Nodes -> BOOLEAN] : f = D[f]
  <2> HIDE DEF D, r
  <2> QED BY <1>3, <1>5, RecursiveFunction
<1>7. f = [n \in Nodes |-> E(f, n)]
  BY <1>6
<1>8. Visits = [n \in Nodes |-> E(Visits, n)]
  BY <1>7 DEF Visits
<1>9. \A n \in Nodes : Visits[n] <=> E(Visits, n)
  BY <1>8
<1>10. \A n \in Nodes : n # 1 => Parent(n) \in Nodes
  BY DEF Shape, ParentOf
<1> QED BY <1>9, <1>10 DEF Visited

ValueType == value \in [Signals -> Bit]

(* What the operation of an expression looks at: its children, and the      *)
(* condition if it is a COND_SEL.                                           *)
Operands(n) ==
  {tree[n].left, tree[n].right} \cup IF tree[n].op = "COND_SEL" THEN {tree[Parent(n)].left} ELSE {}

LEMMA OperandsBelow ==
  ASSUME Shape, NEW n \in Nodes, NEW m \in Operands(n)
  PROVE  m \in Nodes0 /\ (m = 0 \/ n < m)
<1>1. CASE m \in {tree[n].left, tree[n].right}
  BY <1>1 DEF Shape, NodeShape, IsKid, Nodes0
<1>2. CASE tree[n].op = "COND_SEL" /\ m = tree[Parent(n)].left
  <2>1. n # 1
    BY <1>2 DEF Shape, NodeShape
  <2>2. Parent(n) \in Nodes /\ IsKid(n, Parent(n))
    BY <2>1 DEF Shape, ParentOf
  <2>3. tree[Parent(n)].op = "COND" /\ n = tree[Parent(n)].right /\ n < m
    BY <1>2, <2>2 DEF Shape, NodeShape
  <2>4. m # 0
    BY <1>2, <2>2, <2>3 DEF Shape, NodeShape, Binary
  <2>5. m \in Nodes
    BY <1>2, <2>2, <2>4 DEF Shape, NodeShape, IsKid
  <2> QED BY <2>3, <2>5 DEF Nodes0
<1> QED BY <1>1, <1>2 DEF Operands

LEMMA OperationLooks ==
  ASSUME NEW n, NEW g, NEW h, \A m \in Operands(n) : g[m] = h[m]
  PROVE  Operation(n, g) = Operation(n, h)
<1>1. g[tree[n].left] = h[tree[n].left] /\ g[tree[n].right] = h[tree[n].right]
  BY DEF Operands
<1>2. tree[n].op = "COND_SEL" => g[tree[Parent(n)].left] = h[tree[Parent(n)].left]
  BY DEF Operands
<1> QED BY <1>1, <1>2 DEF Operation

LEMMA OperationType ==
  ASSUME Shape, ValueType, NEW n \in Nodes, NEW g, \A m \in Operands(n) : g[m] \in Bit
  PROVE  Operation(n, g) \in Bit
<1>1. g[tree[n].left] \in Bit /\ g[tree[n].right] \in Bit
  BY DEF Operands
<1>2. \A a, b \in Bit : And(a, b) \in Bit /\ Not(b) \in Bit /\ Xor(a, b) \in Bit
  BY DEF And, Not, Xor, Bit
<1>3. \A a, b \in Bit : Or(a, b) \in Bit
  BY <1>2 DEF Or
<1>4. "x" \in Bit
  BY DEF Bit
<1>5. /\ tree[n].op \in Ops
      /\ tree[n].op = "SIG" => tree[n].sig \in Signals
      /\ tree[n].op = "STATIC" => tree[n].sig \in Bit
  BY DEF Shape, NodeShape
<1>6. tree[n].op = "SIG" => value[tree[n].sig] \in Bit
  BY <1>5 DEF ValueType
<1> QED BY <1>1, <1>2, <1>3, <1>4, <1>5, <1>6 DEF Operation, Ops, Leaf, Unary, Binary

(* Values that are computed for the expressions of A, and w elsewhere.      *)
ValuesOf(A, w, f) ==
  /\ f \in [Nodes0 -> Bit]
  /\ \A n \in Nodes0 : f[n] = IF n = 0 THEN "x" ELSE IF n \in A THEN Operation(n, f) ELSE w[n]

LEMMA ValuesExist ==
  ASSUME Shape, ValueType, NEW A, NEW w \in [Nodes -> Bit]
  PROVE  \E f : ValuesOf(A, w, f)
<1> DEFINE E(g, n) == IF n = 0 THEN "x" ELSE IF n \in A THEN Operation(n, g) ELSE w[n]
           D == [g \in [Nodes0 -> Bit] |-> [n \in Nodes0 |-> E(g, n)]]
<1>1. ASSUME NEW g \in [Nodes0 -> Bit], NEW n \in Nodes0 PROVE E(g, n) \in Bit
  <2>1. "x" \in Bit
    BY DEF Bit
  <2>2. n # 0 => n \in Nodes /\ w[n] \in Bit
    BY DEF Nodes0
  <2>3. n # 0 => Operation(n, g) \in Bit
    BY <2>2, OperandsBelow, OperationType
  <2> QED BY <2>1, <2>2, <2>3
<1>2. ASSUME NEW g \in [Nodes0 -> Bit], NEW h \in [Nodes0 -> Bit], NEW n \in Nodes0,
             \A m \in Nodes0 : n # 0 /\ (m = 0 \/ n < m) => g[m] = h[m]
      PROVE  D[g][n] = D[h][n]
  <2>1. n # 0 => Operation(n, g) = Operation(n, h)
    BY <1>2, OperandsBelow, OperationLooks DEF Nodes0
  <2> QED BY <2>1
<1>3. D \in [[Nodes0 -> Bit] -> [Nodes0 -> Bit]] /\ Bit # {}
  BY <1>1 DEF Bit
<1>4. PICK f \in [Nodes0 -> Bit] : f = D[f]
  <2> HIDE DEF D
  <2>1. LooksDown(Bit, D)
    BY <1>2, <1>3 DEF LooksDown
  <2> QED BY <2>1, BottomUp
<1>5. ValuesOf(A, w, f)
  BY <1>4 DEF ValuesOf
<1> QED BY <1>5

LEMMA ValuesType ==
  ASSUME Shape, ValueType, NEW A, NEW w \in [Nodes -> Bit], NEW f,
         f = [n \in Nodes0 |-> IF n = 0 THEN "x" ELSE IF n \in A THEN Operation(n, f) ELSE w[n]]
  PROVE  f \in [Nodes0 -> Bit]
<1> DEFINE X == {n \in Nodes : f[n] \notin Bit}
<1>1. f[0] \in Bit
  BY DEF Nodes0, Bit
<1>2. X = {}
  <2>1. SUFFICES ASSUME X # {} PROVE FALSE
    OBVIOUS
  <2>2. PICK n \in X : \A m \in Nodes : n < m => m \notin X
    BY <2>1, FromTheLeaves
  <2>3. \A m \in Operands(n) : f[m] \in Bit
    BY <1>1, <2>2, OperandsBelow DEF Nodes0
  <2>4. Operation(n, f) \in Bit
    BY <2>3, OperationType
  <2>5. n # 0 /\ n \in Nodes0
    BY DEF Shape, Nodes0
  <2>6. f[n] = IF n \in A THEN Operation(n, f) ELSE w[n]
    BY <2>5
  <2> QED BY <2>4, <2>6
<1>3. \A n \in Nodes0 : f[n] \in Bit
  BY <1>1, <1>2 DEF Nodes0
<1> QED BY <1>3

WorthIs ==
  /\ Worth \in [Nodes0 -> Bit] /\ Worth[0] = "x"
  /\ \A n \in Nodes : Worth[n] = Operation(n, Worth)

LEMMA WorthDef == Shape /\ ValueType => WorthIs
<1> SUFFICES ASSUME Shape, ValueType PROVE WorthIs
  OBVIOUS
<1> DEFINE w == [n \in Nodes |-> "x"]
<1>0. w \in [Nodes -> Bit]
  BY DEF Bit
<1>1. PICK f : ValuesOf(Nodes, w, f)
  <2> HIDE DEF w
  <2> QED BY <1>0, ValuesExist
<1>2. f = [n \in Nodes0 |-> IF n = 0 THEN "x" ELSE Operation(n, f)]
  BY <1>1 DEF ValuesOf, Nodes0
<1>3. Worth = [n \in Nodes0 |-> IF n = 0 THEN "x" ELSE Operation(n, Worth)]
  BY <1>2 DEF Worth, Nodes0
<1>4. Worth = [n \in Nodes0 |-> IF n = 0 THEN "x" ELSE IF n \in Nodes THEN Operation(n, Worth) ELSE w[n]]
  BY <1>3 DEF Nodes0
<1>5. Worth \in [Nodes0 -> Bit]
  <2> HIDE DEF w
  <2> QED BY <1>0, <1>4, ValuesType
<1>6. 0 \in Nodes0 /\ \A n \in Nodes : n \in Nodes0 /\ n # 0
  BY DEF Shape, Nodes0
<1> QED BY <1>3, <1>5, <1>6 DEF WorthIs

ExpTypes == exp \in [Nodes -> ExpType]

LEMMA EvaluatedDef ==
  ASSUME Shape, ValueType, ExpTypes
  PROVE  /\ Evaluated \in [Nodes0 -> Bit] /\ Evaluated[0] = "x"
         /\ \A n \in Nodes : Evaluated[n] = IF n \in Visited \/ tree[n].op = "SIG"
                                            THEN Operation(n, Evaluated) ELSE exp[n].val
<1> DEFINE w == [n \in Nodes |-> exp[n].val]
           A == {n \in Nodes : n \in Visited \/ tree[n].op = "SIG"}
<1>0. w \in [Nodes -> Bit]
  BY DEF ExpTypes, ExpType
<1>1. PICK f : ValuesOf(A, w, f)
  <2> HIDE DEF w, A
  <2> QED BY <1>0, ValuesExist
<1>2. f = [n \in Nodes0 |-> IF n = 0 THEN "x" ELSE IF n \in Visited \/ tree[n].op = "SIG"
                                                  THEN Operation(n, f) ELSE exp[n].val]
  BY <1>1 DEF ValuesOf, Nodes0
<1>3. Evaluated = [n \in Nodes0 |-> IF n = 0 THEN "x" ELSE IF n \in Visited \/ tree[n].op = "SIG"
                                                          THEN Operation(n, Evaluated) ELSE exp[n].val]
  BY <1>2 DEF Evaluated, Nodes0
<1>4. Evaluated = [n \in Nodes0 |-> IF n = 0 THEN "x" ELSE IF n \in A THEN Operation(n, Evaluated) ELSE w[n]]
  BY <1>3 DEF Nodes0
<1>5. Evaluated \in [Nodes0 -> Bit]
  <2> HIDE DEF w, A
  <2> QED BY <1>0, <1>4, ValuesType
<1>6. 0 \in Nodes0 /\ \A n \in Nodes : n \in Nodes0 /\ n # 0
  BY DEF Shape, Nodes0
<1> QED BY <1>3, <1>5, <1>6

LEMMA EvalNNType ==
  ASSUME NEW n, NEW l, NEW r
  PROVE  EvalNN(n, l, r) \subseteq {"00", "01", "10", "11"}
<1>1. AndEvalNN(l, r) \subseteq {"00", "01", "10", "11"}
  BY DEF AndEvalNN
<1>2. OrEvalNN(l, r) \subseteq {"00", "01", "10", "11"}
  BY DEF OrEvalNN
<1>3. OtherEvalNN(l, r) \subseteq {"00", "01", "10", "11"}
  BY DEF OtherEvalNN
<1> QED BY <1>1, <1>2, <1>3 DEF EvalNN

(* The record that expression_set_tf leaves. *)
SetRecord(f) ==
  [f EXCEPT !.set = TRUE, !.true = f.true \/ f.val = "1",   !.eval_t = f.val = "1",
                          !.false = f.false \/ f.val = "0", !.eval_f = f.val = "0"]

LEMMA SetRecordIs ==
  ASSUME NEW f \in ExpType
  PROVE  /\ SetRecord(f) \in ExpType
         /\ SetRecord(f).val = f.val /\ SetRecord(f).set /\ SetRecord(f).eval = f.eval
         /\ SetRecord(f).eval_t <=> f.val = "1"
         /\ SetRecord(f).eval_f <=> f.val = "0"
         /\ SetRecord(f).true <=> f.true \/ f.val = "1"
         /\ SetRecord(f).false <=> f.false \/ f.val = "0"
<1> DEFINE t == f.true \/ f.val = "1"
           z == f.false \/ f.val = "0"
           et == f.val = "1"
           ef == f.val = "0"
           s == [f EXCEPT !.set = TRUE, !.true = t, !.eval_t = et, !.false = z, !.eval_f = ef]
<1>1. t \in BOOLEAN /\ z \in BOOLEAN /\ et \in BOOLEAN /\ ef \in BOOLEAN
  OBVIOUS
<1>2. SetRecord(f) = s
  BY DEF SetRecord
<1>3. s \in ExpType
  <2> HIDE DEF t, z, et, ef
  <2> QED BY <1>1 DEF ExpType
<1>4. s.set = TRUE /\ s.true = t /\ s.eval_t = et /\ s.false = z /\ s.eval_f = ef /\ s.val = f.val /\ s.eval = f.eval
  <2> HIDE DEF t, z, et, ef
  <2> QED BY <1>1 DEF ExpType
<1> HIDE DEF s
<1> QED BY <1>2, <1>3, <1>4

LEMMA OperateType ==
  ASSUME ExpTypes, Evaluated \in [Nodes0 -> Bit], NEW n \in Nodes, NEW e
  PROVE  Operate(n, e) \in ExpType /\ Unmarked(Operate(n, e)) \in ExpType
<1>1. exp[n] \in ExpType /\ Evaluated[n] \in Bit
  BY DEF ExpTypes, Nodes0
<1> DEFINE s == SetTf([exp[n] EXCEPT !.val = Evaluated[n], !.exec_num = TRUE], n)
<1>2. [exp[n] EXCEPT !.val = Evaluated[n], !.exec_num = TRUE] \in ExpType
  BY <1>1 DEF ExpType
<1>3. ASSUME NEW f \in ExpType PROVE SetTf(f, n) \in ExpType
  <2>1. SetTf(f, n) \in {f, SetRecord(f)}
    BY DEF SetTf, SetRecord
  <2> QED BY <1>3, <2>1, SetRecordIs
<1>4. s \in ExpType
  BY <1>2, <1>3
<1>5. s.eval \cup EvalNN(n, e[tree[n].left], e[tree[n].right]) \in SUBSET {"00", "01", "10", "11"}
  <2> HIDE DEF s
  <2> QED BY <1>4, EvalNNType DEF ExpType
<1>6. [s EXCEPT !.eval = @ \cup EvalNN(n, e[tree[n].left], e[tree[n].right])] \in ExpType
  <2> HIDE DEF s
  <2> QED BY <1>4, <1>5 DEF ExpType
<1>7. Operate(n, e) \in ExpType
  BY <1>1, <1>6 DEF Operate
<1> HIDE DEF s
<1> QED BY <1>7 DEF Unmarked, ExpType

LEMMA OperateLooks ==
  ASSUME NEW n, NEW g, NEW h, g[tree[n].left] = h[tree[n].left], g[tree[n].right] = h[tree[n].right]
  PROVE  Operate(n, g) = Operate(n, h)
BY DEF Operate

LEMMA SimulatedDef ==
  ASSUME Shape, ValueType, ExpTypes
  PROVE  /\ SimExpression \in [Nodes -> ExpType]
         /\ \A n \in Nodes :
               /\ SimExpression[n] = Simulated[n]
               /\ SimExpression[n] = IF n \in Visited THEN Unmarked(Operate(n, Simulated)) ELSE exp[n]
<1> DEFINE V == ExpType \cup {None}
           E(g, n) == IF n = 0 THEN None ELSE IF n \in Visited THEN Unmarked(Operate(n, g)) ELSE exp[n]
           D == [g \in [Nodes0 -> V] |-> [n \in Nodes0 |-> E(g, n)]]
<1>1. \A n \in Nodes0 : n # 0 => n \in Nodes
  BY DEF Nodes0
<1>2. ASSUME NEW g, NEW n \in Nodes0 PROVE E(g, n) \in V /\ (n # 0 => E(g, n) \in ExpType)
  <2>1. n # 0 => Unmarked(Operate(n, g)) \in ExpType
    BY <1>1, EvaluatedDef, OperateType
  <2>2. n # 0 => exp[n] \in ExpType
    BY <1>1 DEF ExpTypes
  <2> QED BY <2>1, <2>2
<1>3. ASSUME NEW g \in [Nodes0 -> V], NEW h \in [Nodes0 -> V], NEW n \in Nodes0,
             \A m \in Nodes0 : n # 0 /\ (m = 0 \/ n < m) => g[m] = h[m]
      PROVE  D[g][n] = D[h][n]
  <2>1. n # 0 => g[tree[n].left] = h[tree[n].left] /\ g[tree[n].right] = h[tree[n].right]
    BY <1>1, <1>3, OperandsBelow DEF Operands
  <2>2. n # 0 => Operate(n, g) = Operate(n, h)
    BY <2>1, OperateLooks
  <2> QED BY <2>2
<1>4. D \in [[Nodes0 -> V] -> [Nodes0 -> V]] /\ V # {}
  BY <1>2
<1>5. PICK f \in [Nodes0 -> V] : f = D[f]
  <2> HIDE DEF D, V
  <2>1. LooksDown(V, D)
    BY <1>3, <1>4 DEF LooksDown
  <2> QED BY <2>1, BottomUp
<1>6. f = [n \in Nodes0 |-> E(f, n)]
  BY <1>5
<1>7. Simulated = [n \in Nodes0 |-> E(Simulated, n)]
  BY <1>6 DEF Simulated, Nodes0
<1>8. \A n \in Nodes : n \in Nodes0 /\ n # 0
  BY DEF Shape, Nodes0
<1>9. \A n \in Nodes : Simulated[n] = E(Simulated, n) /\ Simulated[n] \in ExpType
  <2> HIDE DEF E
  <2> QED BY <1>2, <1>7, <1>8
<1>10. \A n \in Nodes : E(Simulated, n) = IF n \in Visited THEN Unmarked(Operate(n, Simulated)) ELSE exp[n]
  BY <1>8
<1> HIDE DEF E
<1> QED BY <1>9, <1>10 DEF SimExpression

-----------------------------------------------------------------------------
(* The marks.                                                               *)

(* Something that expression n depends on may have changed. *)
Dirty(e, n) ==
  \/ e[n].left_changed \/ e[n].right_changed
  \/ tree[n].op = "COND_SEL" /\ e[Parent(n)].left_changed

(* Every mark is at the end of a path of marks from the root. *)
MarksSound(e) ==
  \A n \in Nodes : /\ n # 1 /\ Dirty(e, n) => Marked(e, n, Parent(n))
                   /\ tree[n].op = "COND" /\ e[n].left_changed => e[n].right_changed
                   /\ n = 1 => ~e[n].left_changed

(* Nothing but the marks differs. *)
SameRecord(a, b) ==
  /\ a.val = b.val /\ a.set = b.set /\ a.true = b.true /\ a.false = b.false
  /\ a.eval_t = b.eval_t /\ a.eval_f = b.eval_f /\ a.eval = b.eval

LeavesOnly(S) == S \subseteq Nodes /\ \A n \in S : tree[n].op \in Leaf

LEMMA ChangedMarks ==
  ASSUME Shape, NEW e \in [Nodes -> ExpType], NEW S, LeavesOnly(S), MarksSound(e)
  PROVE  /\ Changed(e, S) \in [Nodes -> ExpType]
         /\ MarksSound(Changed(e, S))
         /\ \A n \in S : Dirty(Changed(e, S), n)
         /\ \A n \in Nodes : /\ Dirty(e, n) => Dirty(Changed(e, S), n)
                             /\ SameRecord(Changed(e, S)[n], e[n])
<1> DEFINE reached == Reached(e, S)
           comes(k, n) == k # 0 /\ reached[k] /\ ~Stops(e, k, n)
           left(n) == e[n].left_changed \/ n \in S \/ comes(tree[n].left, n)
           right(n) == \/ e[n].right_changed \/ comes(tree[n].right, n)
                       \/ tree[n].op = "COND" /\ comes(tree[n].left, n)
           c == Changed(e, S)
<1>1. c = [n \in Nodes |-> [e[n] EXCEPT !.left_changed = left(n), !.right_changed = right(n)]]
  BY DEF Changed
<1>2. ASSUME NEW n \in Nodes
      PROVE  /\ left(n) \in BOOLEAN /\ right(n) \in BOOLEAN
  <2>1. e[n].left_changed \in BOOLEAN /\ e[n].right_changed \in BOOLEAN
    BY DEF ExpType
  <2> QED BY <2>1
<1>3. ASSUME NEW n \in Nodes
      PROVE  /\ c[n] \in ExpType
             /\ c[n].left_changed = left(n) /\ c[n].right_changed = right(n)
             /\ SameRecord(c[n], e[n])
  <2>1. e[n] \in ExpType /\ left(n) \in BOOLEAN /\ right(n) \in BOOLEAN
    BY <1>2
  <2>2. c[n] = [e[n] EXCEPT !.left_changed = left(n), !.right_changed = right(n)]
    BY <1>1
  <2> HIDE DEF left, right, c
  <2> QED BY <2>1, <2>2 DEF ExpType, SameRecord
<1>4. c \in [Nodes -> ExpType]
  <2> HIDE DEF left, right
  <2> QED BY <1>1, <1>3
<1>5. ASSUME NEW n \in Nodes, tree[n].op \notin Leaf PROVE n \notin S
  BY <1>5 DEF LeavesOnly
<1>6. ASSUME NEW n \in Nodes, NEW k, k \in {tree[n].left, tree[n].right}, comes(k, n)
      PROVE  reached[n]
  <2>1. k \in Kids(n)
    BY <1>6 DEF Kids
  <2> QED BY <1>6, <2>1, ReachedIs
<1>7. ASSUME NEW n \in Nodes, left(n) \/ right(n)
      PROVE  e[n].left_changed \/ e[n].right_changed \/ reached[n]
  <2>1. n \in S => reached[n]
    BY ReachedIs
  <2>2. comes(tree[n].left, n) \/ comes(tree[n].right, n) => reached[n]
    <3> HIDE DEF comes, reached
    <3> QED BY <1>6
  <2> HIDE DEF comes, reached
  <2> QED BY <1>7, <2>1, <2>2
<1>8. ASSUME NEW n \in Nodes, tree[n].op = "COND", left(n) PROVE right(n)
  <2>1. n \notin S
    BY <1>5, <1>8 DEF Leaf
  <2>2. e[n].left_changed => e[n].right_changed
    BY <1>8 DEF MarksSound
  <2> QED BY <1>8, <2>1, <2>2
<1>9. ~left(1)
  <2>1. tree[1].op \in Unary /\ tree[1].left = 0 /\ tree[1].op \notin Leaf /\ 1 \in Nodes
    BY DEF Shape, NodeShape, Unary, Leaf
  <2>2. 1 \notin S
    BY <1>5, <2>1
  <2>3. ~e[1].left_changed
    BY <2>1 DEF MarksSound
  <2> QED BY <2>1, <2>2, <2>3
<1>10. ASSUME NEW n \in Nodes, n # 1, NEW p, p = Parent(n)
       PROVE  /\ p \in Nodes /\ IsKid(n, p)
              /\ Marked(e, n, p) = IF tree[p].left = n THEN e[p].left_changed ELSE e[p].right_changed
              /\ Marked(c, n, p) = IF tree[p].left = n THEN left(p) ELSE right(p)
  <2>1. p \in Nodes /\ IsKid(n, p)
    BY <1>10 DEF Shape, ParentOf
  <2>2. c[p].left_changed = left(p) /\ c[p].right_changed = right(p)
    BY <1>3, <2>1
  <2> HIDE DEF left, right, c
  <2> QED BY <2>1, <2>2 DEF Marked
<1>11. ASSUME NEW n \in Nodes, n # 1, reached[n] \/ Marked(e, n, Parent(n))
       PROVE  Marked(c, n, Parent(n))
  <2> DEFINE p == Parent(n)
  <2>1. /\ p \in Nodes /\ IsKid(n, p)
        /\ Marked(e, n, p) = IF tree[p].left = n THEN e[p].left_changed ELSE e[p].right_changed
        /\ Marked(c, n, p) = IF tree[p].left = n THEN left(p) ELSE right(p)
    BY <1>10, <1>11
  <2>2. CASE Marked(e, n, p)
    BY <2>1, <2>2
  <2>3. CASE reached[n] /\ ~Marked(e, n, p)
    <3>1. comes(n, p)
      BY <2>1, <2>3 DEF Stops, IsKid
    <3>2. n = tree[p].left \/ n = tree[p].right
      BY <2>1 DEF IsKid
    <3> HIDE DEF comes
    <3> QED BY <2>1, <3>1, <3>2
  <2> QED BY <1>11, <2>2, <2>3
<1>12. ASSUME NEW n \in Nodes, n # 1, Dirty(c, n)
       PROVE  Marked(c, n, Parent(n))
  <2>1. CASE left(n) \/ right(n)
    <3>1. CASE e[n].left_changed \/ e[n].right_changed
      BY <1>11, <1>12, <3>1 DEF MarksSound, Dirty
    <3> QED BY <1>7, <1>11, <1>12, <2>1, <3>1
  <2>2. CASE tree[n].op = "COND_SEL" /\ c[Parent(n)].left_changed
    <3>1. /\ Parent(n) \in Nodes /\ IsKid(n, Parent(n))
          /\ Marked(c, n, Parent(n)) = IF tree[Parent(n)].left = n THEN left(Parent(n)) ELSE right(Parent(n))
      BY <1>10, <1>12
    <3>2. tree[Parent(n)].op = "COND" /\ n = tree[Parent(n)].right
      BY <2>2, <3>1 DEF Shape, NodeShape
    <3>3. left(Parent(n)) /\ right(Parent(n))
      BY <1>3, <1>8, <2>2, <3>1, <3>2
    <3> QED BY <3>1, <3>3
  <2> QED BY <1>3, <1>12, <2>1, <2>2 DEF Dirty
<1>13. MarksSound(c)
  BY <1>3, <1>8, <1>9, <1>12 DEF MarksSound
<1>14. ASSUME NEW n \in S PROVE Dirty(c, n)
  <2>1. n \in Nodes /\ left(n)
    BY DEF LeavesOnly
  <2> QED BY <1>3, <2>1 DEF Dirty
<1>15. ASSUME NEW n \in Nodes, Dirty(e, n) PROVE Dirty(c, n)
  <2>1. \A m \in Nodes : /\ e[m].left_changed => c[m].left_changed
                         /\ e[m].right_changed => c[m].right_changed
    BY <1>3
  <2>2. tree[n].op = "COND_SEL" => Parent(n) \in Nodes
    BY DEF Shape, NodeShape, ParentOf
  <2> HIDE DEF c
  <2> QED BY <1>15, <2>1, <2>2 DEF Dirty
<1> QED
  <2> HIDE DEF c
  <2> QED BY <1>3, <1>4, <1>13, <1>14, <1>15 DEF c

(* What is changed below an expression is changed there too. *)
LEMMA DirtyUp ==
  ASSUME Shape, NEW e, MarksSound(e), NEW n \in Nodes, NEW m \in Operands(n), m # 0, Dirty(e, m)
  PROVE  Dirty(e, n)
<1>1. m \in Nodes /\ n < m /\ n >= 1 /\ m # 1
  BY OperandsBelow DEF Nodes0, Shape
<1>2. Marked(e, m, Parent(m))
  BY <1>1 DEF MarksSound
<1>3. CASE m \in {tree[n].left, tree[n].right}
  <2>1. Parent(m) = n
    BY <1>1, <1>3 DEF Shape, ParentOf, IsKid
  <2> QED BY <1>2, <2>1 DEF Marked, Dirty
<1>4. CASE tree[n].op = "COND_SEL" /\ m = tree[Parent(n)].left
  <2>1. n # 1
    BY <1>4 DEF Shape, NodeShape
  <2>2. Parent(n) \in Nodes
    BY <2>1 DEF Shape, ParentOf
  <2>3. Parent(m) = Parent(n)
    BY <1>1, <1>4, <2>2 DEF Shape, ParentOf, IsKid
  <2> QED BY <1>2, <1>4, <2>3 DEF Marked, Dirty
<1> QED BY <1>3, <1>4 DEF Operands

-----------------------------------------------------------------------------
(* The inductive invariant.                                                 *)

(* What is not marked has the value it should have. *)
Current == \A n \in Nodes : ~Dirty(exp, n) => exp[n].val = Worth[n]

(* The bits of the last value, and those of all values. *)
BitsSound(n) ==
  /\ exp[n].set => /\ exp[n].eval_t <=> exp[n].val = "1"
                   /\ exp[n].eval_f <=> exp[n].val = "0"
                   /\ exp[n].val = "1" => exp[n].true
                   /\ exp[n].val = "0" => exp[n].false
  /\ ~exp[n].set => /\ ~exp[n].eval_t /\ ~exp[n].eval_f
                    /\ IF tree[n].op = "STATIC" THEN Dirty(exp, n) ELSE exp[n].val = "x"

(* The combination that the operands have now is recorded. *)
Recorded ==
  \A n \in Nodes : ~Dirty(exp, n) => EvalNN(n, exp[tree[n].left], exp[tree[n].right]) \subseteq exp[n].eval

(* The root of a continuous assignment has the value of its expression. *)
RootCurrent ==
  LET r == tree[1].right
  IN cont => exp[1].val = exp[r].val \/ (tree[r].op = "STATIC" /\ ~exp[r].set)

ScoreInv ==
  /\ MarksSound(exp)
  /\ Current
  /\ \A n \in Nodes : BitsSound(n)
  /\ Recorded
  /\ RootCurrent

(* At the start of a run. *)
FreshState ==
  /\ value = [s \in Signals |-> "x"]
  /\ ExpTypes
  /\ MarksSound(exp)
  /\ \A n \in Statics : Dirty(exp, n)
  /\ \A n \in Nodes : SameRecord(exp[n], Fresh(tree)[n])

LEMMA FreshScore == Shape /\ FreshState => ScoreInv
<1> SUFFICES ASSUME Shape, FreshState PROVE ScoreInv
  OBVIOUS
<1>1. ASSUME NEW n \in Nodes
      PROVE  /\ exp[n].val = IF tree[n].op = "STATIC" THEN tree[n].sig ELSE "x"
             /\ ~exp[n].set /\ ~exp[n].eval_t /\ ~exp[n].eval_f
  BY DEF FreshState, SameRecord, Fresh, Nodes
<1>2. ASSUME NEW n \in Nodes, tree[n].op = "STATIC" PROVE Dirty(exp, n)
  BY <1>2 DEF FreshState, Statics
<1>3. MarksSound(exp)
  BY DEF FreshState
<1>4. WorthIs
  <2>1. ValueType
    BY DEF FreshState, ValueType, Bit
  <2> QED BY <2>1, WorthDef
<1>5. Current
  <2> DEFINE X == {n \in Nodes : ~Dirty(exp, n) /\ Worth[n] # "x"}
  <2>1. SUFFICES X = {}
    BY <1>1, <1>2 DEF Current
  <2>2. SUFFICES ASSUME X # {} PROVE FALSE
    OBVIOUS
  <2>3. PICK n \in X : \A m \in Nodes : n < m => m \notin X
    BY <2>2, FromTheLeaves
  <2>4. ASSUME NEW m \in Operands(n) PROVE Worth[m] = "x"
    <3>1. CASE m = 0
      BY <1>4, <3>1 DEF WorthIs
    <3>2. CASE m # 0
      <4>1. m \in Nodes /\ n < m
        BY <3>2, OperandsBelow DEF Nodes0
      <4>2. ~Dirty(exp, m)
        BY <1>3, <2>3, <3>2, DirtyUp
      <4> QED BY <2>3, <4>1, <4>2
    <3> QED BY <3>1, <3>2
  <2>5. tree[n].op # "STATIC" /\ tree[n].op \in Ops /\ (tree[n].op = "SIG" => value[tree[n].sig] = "x")
    BY <1>2 DEF Shape, NodeShape, FreshState
  <2>6. /\ Worth[tree[n].left] = "x" /\ Worth[tree[n].right] = "x"
        /\ tree[n].op = "COND_SEL" => Worth[tree[Parent(n)].left] = "x"
    BY <2>4 DEF Operands
  <2>7. And("x", "x") = "x" /\ Not("x") = "x" /\ Xor("x", "x") = "x"
    BY DEF And, Not, Xor
  <2>8. Or("x", "x") = "x"
    BY <2>7 DEF Or
  <2>9. Operation(n, Worth) = "x"
    BY <2>5, <2>6, <2>7, <2>8 DEF Operation, Ops, Leaf, Unary, Binary
  <2> QED BY <1>4, <2>3, <2>9 DEF WorthIs
<1>6. \A n \in Nodes : BitsSound(n)
  BY <1>1, <1>2 DEF BitsSound
<1>7. ASSUME NEW n \in Nodes PROVE EvalNN(n, exp[tree[n].left], exp[tree[n].right]) = {}
  <2>1. CASE tree[n].op \in {"AND", "OR", "XOR"}
    <3> DEFINE l == exp[tree[n].left]
               r == exp[tree[n].right]
    <3>1. tree[n].left \in Nodes /\ tree[n].right \in Nodes
      BY <2>1 DEF Shape, NodeShape, Binary, IsKid
    <3>2. ~l.eval_t /\ ~l.eval_f /\ ~r.eval_t /\ ~r.eval_f
      BY <1>1, <3>1
    <3> HIDE DEF l, r
    <3>3. AndEvalNN(l, r) = {} /\ OrEvalNN(l, r) = {} /\ OtherEvalNN(l, r) = {}
      BY <3>2 DEF AndEvalNN, OrEvalNN, OtherEvalNN
    <3>4. EvalNN(n, l, r) = {}
      BY <2>1, <3>3 DEF EvalNN
    <3> QED BY <3>4 DEF l, r
  <2>2. CASE tree[n].op \notin {"AND", "OR", "XOR"}
    BY <2>2 DEF EvalNN
  <2> QED BY <2>1, <2>2
<1>8. Recorded
  BY <1>7 DEF Recorded
<1>9. RootCurrent
  <2>1. 1 \in Nodes /\ tree[1].op # "STATIC" /\ tree[1].right \in Nodes
    BY DEF Shape, NodeShape, Unary, IsKid
  <2> QED BY <1>1, <2>1 DEF RootCurrent
<1> QED BY <1>3, <1>5, <1>6, <1>8, <1>9 DEF ScoreInv

-----------------------------------------------------------------------------
(* A change of a signal.                                                    *)

(* The tree stays as it is. *)
LEMMA SameParent ==
  ASSUME tree' = tree, NEW n
  PROVE  Parent(n)' = Parent(n)
BY DEF Parent, Kids, Nodes

LEMMA SameShape ==
  ASSUME tree' = tree, Shape
  PROVE  Shape' /\ Nodes' = Nodes
BY SameParent DEF Shape, NodeShape, ParentOf, IsKid, Nodes

LEMMA SameMarks ==
  ASSUME tree' = tree, NEW c, exp' = c, MarksSound(c)
  PROVE  MarksSound(exp)'
BY SameParent DEF MarksSound, Dirty, Marked, Nodes

LEMMA WorthNext ==
  ASSUME tree' = tree, Shape, ValueType'
  PROVE  WorthIs'
<1>1. Shape'
  BY SameShape
<1>2. (Shape /\ ValueType)'
  BY <1>1
<1>3. (Shape /\ ValueType)' => WorthIs'
  BY WorthDef, PTL
<1> QED BY <1>2, <1>3

LEMMA ChangeScore ==
  ASSUME Shape, ValueType, ExpTypes, ScoreInv, tree' = tree,
         NEW s \in Signals, NEW v \in Bit, value' = [value EXCEPT ![s] = v],
         exp' = Changed(exp, Leaves(s))
  PROVE  ValueType' /\ ExpTypes' /\ ScoreInv'
<1>1. ValueType'
  BY DEF ValueType
<1>2. WorthIs /\ WorthIs'
  BY <1>1, WorthDef, WorthNext
<1>3. LeavesOnly(Leaves(s))
  BY DEF LeavesOnly, Leaves, Leaf
<1> DEFINE c == Changed(exp, Leaves(s))
<1>4. /\ c \in [Nodes -> ExpType]
      /\ MarksSound(c)
      /\ \A n \in Leaves(s) : Dirty(c, n)
      /\ \A n \in Nodes : (Dirty(exp, n) => Dirty(c, n)) /\ SameRecord(c[n], exp[n])
  BY <1>3, ChangedMarks DEF ScoreInv, ExpTypes
<1> HIDE DEF c
<1>5. exp' = c /\ Nodes' = Nodes /\ Shape'
  BY SameShape DEF c
<1>6. ExpTypes'
  BY <1>4, <1>5 DEF ExpTypes
<1>7. MarksSound(exp)'
  BY <1>4, <1>5, SameMarks
<1>8. \A n \in Nodes : Dirty(exp, n)' <=> Dirty(c, n)
  BY <1>5, SameParent DEF Dirty
<1>9. ASSUME NEW n \in Nodes, ~Dirty(c, n) PROVE Worth'[n] = Worth[n]
  <2> DEFINE X == {k \in Nodes : ~Dirty(c, k) /\ Worth'[k] # Worth[k]}
  <2>1. SUFFICES ASSUME X # {} PROVE FALSE
    BY <1>9
  <2>2. PICK k \in X : \A m \in Nodes : k < m => m \notin X
    BY <2>1, FromTheLeaves
  <2>3. ASSUME NEW m \in Operands(k) PROVE Worth'[m] = Worth[m]
    <3>1. CASE m = 0
      BY <1>2, <3>1 DEF WorthIs
    <3>2. CASE m # 0
      <4>1. m \in Nodes /\ k < m
        BY <3>2, OperandsBelow DEF Nodes0
      <4>2. ~Dirty(c, m)
        BY <1>4, <2>2, <3>2, DirtyUp
      <4> QED BY <2>2, <4>1, <4>2
    <3> QED BY <3>1, <3>2
  <2>4. /\ Worth'[tree[k].left] = Worth[tree[k].left] /\ Worth'[tree[k].right] = Worth[tree[k].right]
        /\ tree[k].op = "COND_SEL" => Worth'[tree[Parent(k)].left] = Worth[tree[Parent(k)].left]
    BY <2>3 DEF Operands
  <2>5. tree[k].op = "SIG" => value'[tree[k].sig] = value[tree[k].sig]
    <3>1. tree[k].op = "SIG" => tree[k].sig # s /\ tree[k].sig \in Signals
      BY <1>4, <2>2 DEF Leaves, Shape, NodeShape
    <3> QED BY <3>1 DEF ValueType
  <2>6. Operation(k, Worth)' = Operation(k, Worth)
    <3>1. Parent(k)' = Parent(k) /\ tree' = tree
      BY SameParent
    <3>2. /\ Worth'[tree'[k].left] = Worth[tree[k].left] /\ Worth'[tree'[k].right] = Worth[tree[k].right]
          /\ tree[k].op = "COND_SEL" => Worth'[tree'[Parent(k)'].left] = Worth[tree[Parent(k)].left]
          /\ tree[k].op = "SIG" => value'[tree'[k].sig] = value[tree[k].sig]
      BY <2>4, <2>5, <3>1
    <3>3. tree'[k].op = tree[k].op /\ tree'[k].sig = tree[k].sig
      BY <3>1
    <3>4. CASE tree[k].op = "SIG"
      BY <3>2, <3>3, <3>4 DEF Operation
    <3>5. CASE tree[k].op = "STATIC"
      BY <3>2, <3>3, <3>5 DEF Operation
    <3>6. CASE tree[k].op \in {"AND", "OR", "XOR"}
      BY <3>2, <3>3, <3>6 DEF Operation
    <3>7. CASE tree[k].op \in {"UINV", "COND", "IF", "ASSIGN"}
      BY <3>2, <3>3, <3>7 DEF Operation
    <3>8. CASE tree[k].op = "COND_SEL"
      BY <3>2, <3>3, <3>8 DEF Operation
    <3> QED BY <2>2, <3>4, <3>5, <3>6, <3>7, <3>8 DEF Shape, NodeShape, Ops, Leaf, Unary, Binary
  <2>7. Worth'[k] = Operation(k, Worth)' /\ Worth[k] = Operation(k, Worth)
    BY <1>2, <1>5, <2>2 DEF WorthIs
  <2> QED BY <2>2, <2>6, <2>7
<1>10. Current'
  BY <1>4, <1>5, <1>8, <1>9 DEF Current, SameRecord, ScoreInv
<1>11. ASSUME NEW n \in Nodes PROVE BitsSound(n)'
  <2>1. BitsSound(n) /\ SameRecord(c[n], exp[n]) /\ (Dirty(exp, n) => Dirty(c, n))
    BY <1>4 DEF ScoreInv
  <2> QED BY <1>5, <1>8, <2>1 DEF BitsSound, SameRecord
<1>12. Recorded'
  <2>1. SUFFICES ASSUME NEW n \in Nodes, ~Dirty(c, n)
                 PROVE  EvalNN(n, exp[tree[n].left], exp[tree[n].right])' \subseteq exp'[n].eval
    BY <1>5, <1>8 DEF Recorded
  <2>2. EvalNN(n, exp[tree[n].left], exp[tree[n].right]) \subseteq exp[n].eval
    BY <1>4, <2>1 DEF ScoreInv, Recorded
  <2>3. EvalNN(n, exp[tree[n].left], exp[tree[n].right])' = EvalNN(n, exp[tree[n].left], exp[tree[n].right])
    <3>1. CASE tree[n].op \in {"AND", "OR", "XOR"}
      <4>1. tree[n].left \in Nodes /\ tree[n].right \in Nodes
        BY <3>1 DEF Shape, NodeShape, Binary, IsKid
      <4>2. SameRecord(c[tree[n].left], exp[tree[n].left]) /\ SameRecord(c[tree[n].right], exp[tree[n].right])
        BY <1>4, <4>1
      <4> QED BY <1>5, <3>1, <4>2 DEF EvalNN, AndEvalNN, OrEvalNN, OtherEvalNN, SameRecord
    <3>2. CASE tree[n].op \notin {"AND", "OR", "XOR"}
      BY <3>2 DEF EvalNN
    <3> QED BY <3>1, <3>2
  <2>4. exp'[n].eval = exp[n].eval
    BY <1>4, <1>5 DEF SameRecord
  <2> QED BY <2>2, <2>3, <2>4
<1>13. RootCurrent'
  <2>1. 1 \in Nodes /\ tree[1].right \in Nodes
    BY DEF Shape, NodeShape, Unary, IsKid
  <2> QED BY <1>4, <1>5, <2>1 DEF RootCurrent, SameRecord, ScoreInv, cont
<1> QED BY <1>1, <1>5, <1>6, <1>7, <1>10, <1>11, <1>12, <1>13 DEF ScoreInv

-----------------------------------------------------------------------------
(* An execution of the statement.                                           *)

(* What is marked is visited. *)
LEMMA DirtyVisited ==
  ASSUME Shape, MarksSound(exp), NEW n \in Nodes, Dirty(exp, n)
  PROVE  n \in Visited
<1> DEFINE X == {m \in Nodes : Dirty(exp, m) /\ m \notin Visited}
<1>1. SUFFICES ASSUME X # {} PROVE FALSE
  OBVIOUS
<1>2. PICK m \in X : m = 1 \/ Parent(m) \in Nodes \ X
  BY <1>1, FromTheRoot
<1>3. m # 1 /\ Parent(m) \in Nodes \ X
  BY <1>2, VisitsIs
<1>4. Marked(exp, m, Parent(m))
  BY <1>2, <1>3 DEF MarksSound
<1>5. Dirty(exp, Parent(m))
  BY <1>4 DEF Marked, Dirty
<1>6. m \in Visited
  BY <1>2, <1>3, <1>4, <1>5, VisitsIs
<1> QED BY <1>2, <1>6

(* The simulation computes the values that the signals give. *)
LEMMA EvaluatedWorth ==
  ASSUME Shape, ValueType, ExpTypes, ScoreInv
  PROVE  \A n \in Nodes0 : Evaluated[n] = Worth[n]
<1> DEFINE X == {n \in Nodes : Evaluated[n] # Worth[n]}
<1>1. WorthIs
  BY WorthDef
<1>2. Evaluated[0] = Worth[0]
  BY <1>1, EvaluatedDef DEF WorthIs
<1>3. SUFFICES ASSUME X # {} PROVE FALSE
  BY <1>2 DEF Nodes0
<1>4. PICK n \in X : \A m \in Nodes : n < m => m \notin X
  BY <1>3, FromTheLeaves
<1>5. ASSUME NEW m \in Operands(n) PROVE Evaluated[m] = Worth[m]
  BY <1>2, <1>4, OperandsBelow DEF Nodes0
<1>6. Operation(n, Evaluated) = Operation(n, Worth)
  BY <1>5, OperationLooks
<1>7. Worth[n] = Operation(n, Worth)
  BY <1>1, <1>4 DEF WorthIs
<1>8. CASE n \in Visited \/ tree[n].op = "SIG"
  BY <1>4, <1>6, <1>7, <1>8, EvaluatedDef
<1>9. CASE n \notin Visited /\ tree[n].op # "SIG"
  <2>1. ~Dirty(exp, n)
    BY <1>4, <1>9, DirtyVisited DEF ScoreInv
  <2>2. exp[n].val = Worth[n]
    BY <1>4, <2>1 DEF ScoreInv, Current
  <2> QED BY <1>4, <1>9, <2>2, EvaluatedDef
<1> QED BY <1>8, <1>9

(* An expression that is not operated has the value it should have. *)
LEMMA NotOperated ==
  ASSUME Shape, ValueType, ExpTypes, ScoreInv, NEW n \in Nodes, n \notin Operated
  PROVE  exp[n].val = Worth[n] /\ (tree[n].op = "STATIC" => exp[n].set)
<1>1. CASE n \notin Visited
  <2>1. ~Dirty(exp, n)
    BY <1>1, DirtyVisited DEF ScoreInv
  <2>2. exp[n].val = Worth[n]
    BY <2>1 DEF ScoreInv, Current
  <2>3. tree[n].op = "STATIC" => exp[n].set
    BY <2>1 DEF ScoreInv, BitsSound
  <2> QED BY <2>2, <2>3
<1>2. CASE n \in Visited
  <2> DEFINE r == tree[1].right
  <2>1. n = 1 /\ cont /\ \A k \in Kids(1) \cap Visited : ~Returns(k)
    BY <1>2 DEF Operated
  <2>2. /\ 1 \in Nodes /\ r \in Nodes /\ r \in Kids(1) /\ r # 1 /\ IsKid(r, 1) /\ tree[1].left # r
        /\ tree[1].op \in {"IF", "ASSIGN"}
    BY DEF Shape, NodeShape, Unary, IsKid, Kids
  <2>3. Worth[1] = Worth[r]
    <3>1. Worth[1] = Operation(1, Worth)
      BY <2>2, WorthDef DEF WorthIs
    <3> QED BY <2>2, <3>1 DEF Operation
  <2>4. CASE r \in Visited
    <3>1. ~Returns(r)
      BY <2>1, <2>2, <2>4
    <3>2. Evaluated[r] = exp[r].val /\ tree[r].op # "STATIC"
      BY <3>1 DEF Returns, Null, Same
    <3>3. exp[r].val = Worth[r]
      BY <2>2, <3>2, EvaluatedWorth DEF Nodes0
    <3>4. exp[1].val = exp[r].val
      BY <2>1, <3>2 DEF ScoreInv, RootCurrent
    <3> QED BY <2>1, <2>2, <2>3, <3>3, <3>4
  <2>5. CASE r \notin Visited
    <3>1. Parent(r) = 1
      BY <2>2 DEF Shape, ParentOf
    <3>2. ~Marked(exp, r, 1)
      BY <1>2, <2>1, <2>2, <2>5, <3>1, VisitsIs
    <3>3. ~exp[1].right_changed /\ ~exp[1].left_changed
      BY <2>2, <3>2 DEF Marked, ScoreInv, MarksSound
    <3>4. ~Dirty(exp, 1)
      BY <2>2, <3>3 DEF Dirty
    <3> QED BY <2>1, <2>2, <3>4 DEF ScoreInv, Current
  <2> QED BY <2>4, <2>5
<1> QED BY <1>1, <1>2

(* The record of expression n when the statement has been executed. *)
Done(n, e) ==
  /\ ~e[n].left_changed /\ ~e[n].right_changed
  /\ e[n].val = Worth[n]
  /\ e[n].eval_t <=> Worth[n] = "1"
  /\ e[n].eval_f <=> Worth[n] = "0"
  /\ e[n].true <=> exp[n].true \/ Worth[n] = "1"
  /\ e[n].false <=> exp[n].false \/ Worth[n] = "0"
  /\ tree[n].op = "STATIC" => e[n].set
  /\ ~e[n].set => Worth[n] = "x"
  /\ e[n].eval = exp[n].eval \cup EvalNN(n, e[tree[n].left], e[tree[n].right])

(* The values of the children of an operator are those of the result. *)
LEMMA SimulatedKids ==
  ASSUME Shape, ValueType, ExpTypes, NEW n \in Nodes
  PROVE  EvalNN(n, Simulated[tree[n].left], Simulated[tree[n].right])
           = EvalNN(n, SimExpression[tree[n].left], SimExpression[tree[n].right])
<1>1. CASE tree[n].op \in {"AND", "OR", "XOR"}
  <2>1. tree[n].left \in Nodes /\ tree[n].right \in Nodes
    BY <1>1 DEF Shape, NodeShape, Binary, IsKid
  <2> QED BY <2>1, SimulatedDef
<1>2. CASE tree[n].op \notin {"AND", "OR", "XOR"}
  BY <1>2 DEF EvalNN
<1> QED BY <1>1, <1>2

LEMMA DoneOperated ==
  ASSUME Shape, ValueType, ExpTypes, ScoreInv, NEW n \in Operated
  PROVE  Done(n, SimExpression)
<1> DEFINE w == Worth[n]
           x == exp[n]
           f == [x EXCEPT !.val = w, !.exec_num = TRUE]
           s == SetTf(f, n)
           nn == EvalNN(n, SimExpression[tree[n].left], SimExpression[tree[n].right])
           y == [s EXCEPT !.eval = @ \cup nn]
<1>1. n \in Visited /\ n \in Nodes
  BY DEF Operated, Visited
<1>2. Evaluated[n] = w
  BY <1>1, EvaluatedWorth DEF Nodes0
<1>3. SimExpression[n] = Unmarked(y)
  <2>1. SimExpression[n] = Unmarked(Operate(n, Simulated))
    BY <1>1, SimulatedDef
  <2>2. Operate(n, Simulated) = y
    BY <1>1, <1>2, SimulatedKids DEF Operate
  <2> QED BY <2>1, <2>2
<1>4. x \in ExpType /\ BitsSound(n) /\ w \in Bit
  <2>1. w \in Bit
    BY <1>1, WorthDef DEF WorthIs, Nodes0
  <2> QED BY <1>1, <2>1 DEF ExpTypes, ScoreInv
<1>5. /\ f \in ExpType /\ f.val = w /\ f.set = x.set /\ f.eval = x.eval
      /\ f.true = x.true /\ f.false = x.false /\ f.eval_t = x.eval_t /\ f.eval_f = x.eval_f
  <2> HIDE DEF w, x
  <2> QED BY <1>4 DEF ExpType
<1>6. /\ s \in ExpType /\ s.val = w /\ s.set /\ s.eval = x.eval
      /\ s.eval_t <=> w = "1"
      /\ s.eval_f <=> w = "0"
      /\ s.true <=> x.true \/ w = "1"
      /\ s.false <=> x.false \/ w = "0"
  <2>1. CASE ~Returns(n) /\ f.set
    <3>1. s = f
      BY <2>1 DEF SetTf
    <3>2. x.val = w
      BY <1>2, <2>1 DEF Returns, Same
    <3>3. x.set
      BY <1>5, <2>1
    <3> HIDE DEF f, s, w
    <3> QED BY <1>4, <1>5, <3>1, <3>2, <3>3 DEF BitsSound
  <2>2. CASE ~(~Returns(n) /\ f.set)
    <3>1. s = SetRecord(f)
      BY <2>2 DEF SetTf, SetRecord
    <3> HIDE DEF f, s, x, w
    <3> QED BY <1>5, <3>1, SetRecordIs
  <2> QED BY <2>1, <2>2
<1>7. y \in ExpType /\ y.eval = x.eval \cup nn /\ SameRecord([y EXCEPT !.eval = s.eval], s)
  <2>1. s.eval \cup nn \in SUBSET {"00", "01", "10", "11"}
    <3> HIDE DEF s
    <3> QED BY <1>6, EvalNNType DEF ExpType
  <2> HIDE DEF s, nn, x, w
  <2> QED BY <1>6, <2>1 DEF ExpType, SameRecord
<1>8. /\ Unmarked(y).val = s.val /\ Unmarked(y).set = s.set /\ Unmarked(y).eval = x.eval \cup nn
      /\ Unmarked(y).eval_t = s.eval_t /\ Unmarked(y).eval_f = s.eval_f
      /\ Unmarked(y).true = s.true /\ Unmarked(y).false = s.false
      /\ ~Unmarked(y).left_changed /\ ~Unmarked(y).right_changed
  <2> HIDE DEF s, nn, x, w
  <2> QED BY <1>6, <1>7 DEF ExpType, Unmarked, SameRecord
<1> HIDE DEF s, y, f
<1> QED BY <1>3, <1>6, <1>8 DEF Done

LEMMA DoneAll ==
  ASSUME Shape, ValueType, ExpTypes, ScoreInv, NEW n \in Nodes
  PROVE  Done(n, SimExpression)
<1> DEFINE x == exp[n]
           y == SimExpression[n]
           l == tree[n].left
           r == tree[n].right
<1>1. CASE n \in Operated
  BY <1>1, DoneOperated
<1>2. CASE n \notin Operated
  <2>1. x.val = Worth[n] /\ (tree[n].op = "STATIC" => x.set)
    BY <1>2, NotOperated
  <2>2. x \in ExpType /\ BitsSound(n)
    BY DEF ExpTypes, ScoreInv
  <2>3. /\ y.val = x.val /\ y.set = x.set /\ y.true = x.true /\ y.false = x.false
        /\ y.eval_t = x.eval_t /\ y.eval_f = x.eval_f /\ y.eval = x.eval
        /\ ~y.left_changed /\ ~y.right_changed
    <3>1. CASE n \in Visited
      <4>1. y = Unmarked(x)
        BY <1>2, <3>1, SimulatedDef DEF Operate
      <4> HIDE DEF x, y
      <4> QED BY <2>2, <4>1 DEF Unmarked, ExpType
    <3>2. CASE n \notin Visited
      <4>1. y = x
        BY <3>2, SimulatedDef
      <4>2. ~Dirty(exp, n)
        BY <3>2, DirtyVisited DEF ScoreInv
      <4> QED BY <4>1, <4>2 DEF Dirty
    <3> QED BY <3>1, <3>2
  <2>4. /\ x.eval_t <=> Worth[n] = "1"
        /\ x.eval_f <=> Worth[n] = "0"
        /\ Worth[n] = "1" => x.true
        /\ Worth[n] = "0" => x.false
    BY <2>1, <2>2 DEF BitsSound
  <2>5. EvalNN(n, SimExpression[l], SimExpression[r]) \subseteq x.eval
    <3>1. CASE tree[n].op \in {"AND", "OR", "XOR"}
      <4>1. n # 1 /\ n \notin Visited
        BY <1>2, <3>1 DEF Operated, Shape, NodeShape
      <4>2. l \in Nodes /\ r \in Nodes /\ IsKid(l, n) /\ IsKid(r, n)
        BY <3>1 DEF Shape, NodeShape, Binary, IsKid
      <4>3. l # 1 /\ r # 1 /\ Parent(l) = n /\ Parent(r) = n
        <5>1. n < l /\ n < r /\ n >= 1
          BY <4>2 DEF Shape, NodeShape
        <5>2. l # 1 /\ r # 1
          BY <5>1 DEF Shape
        <5> QED BY <4>2, <5>2 DEF Shape, ParentOf
      <4>4. l \notin Visited /\ r \notin Visited
        BY <4>1, <4>2, <4>3, VisitsIs
      <4>5. SimExpression[l] = exp[l] /\ SimExpression[r] = exp[r]
        BY <4>2, <4>4, SimulatedDef
      <4>6. ~Dirty(exp, n)
        BY <4>1, DirtyVisited DEF ScoreInv
      <4> QED BY <4>5, <4>6 DEF ScoreInv, Recorded
    <3>2. CASE tree[n].op \notin {"AND", "OR", "XOR"}
      BY <3>2 DEF EvalNN
    <3> QED BY <3>1, <3>2
  <2>6. y.eval = x.eval \cup EvalNN(n, SimExpression[l], SimExpression[r])
    BY <2>3, <2>5
  <2>8. ~x.set => Worth[n] = "x"
    BY <2>1, <2>2 DEF BitsSound
  <2> HIDE DEF x
  <2>7. /\ y.eval_t <=> Worth[n] = "1"
        /\ y.eval_f <=> Worth[n] = "0"
        /\ y.true <=> x.true \/ Worth[n] = "1"
        /\ y.false <=> x.false \/ Worth[n] = "0"
        /\ y.val = Worth[n] /\ (tree[n].op = "STATIC" => y.set) /\ (~y.set => Worth[n] = "x")
    BY <2>1, <2>3, <2>4, <2>8
  <2> QED BY <2>3, <2>6, <2>7 DEF Done, x
<1> QED BY <1>1, <1>2

LEMMA SameWorth ==
  ASSUME tree' = tree, value' = value
  PROVE  Worth' = Worth
BY SameParent DEF Worth, Operation, Nodes

LEMMA ExecuteScore ==
  ASSUME Shape, ValueType, ExpTypes, ScoreInv, tree' = tree, value' = value, exp' = SimExpression
  PROVE  ExpTypes' /\ ScoreInv'
<1> DEFINE c == SimExpression
<1>1. \A n \in Nodes : Done(n, c)
  BY DoneAll
<1>2. c \in [Nodes -> ExpType]
  BY SimulatedDef
<1> HIDE DEF c
<1>3. exp' = c /\ Nodes' = Nodes /\ Shape' /\ Worth' = Worth
  BY SameShape, SameWorth DEF c
<1>4. ExpTypes'
  BY <1>2, <1>3 DEF ExpTypes
<1>5. ASSUME NEW n \in Nodes PROVE ~Dirty(c, n)
  <2>1. tree[n].op = "COND_SEL" => Parent(n) \in Nodes
    BY DEF Shape, NodeShape, ParentOf
  <2> QED BY <1>1, <2>1 DEF Done, Dirty
<1>6. \A n \in Nodes : ~Dirty(exp, n)'
  BY <1>3, <1>5, SameParent DEF Dirty
<1>7. MarksSound(exp)'
  <2>1. MarksSound(c)
    BY <1>1, <1>5 DEF MarksSound, Done
  <2> QED BY <1>3, <2>1, SameMarks
<1>8. Current'
  BY <1>1, <1>3 DEF Current, Done
<1>9. ASSUME NEW n \in Nodes PROVE BitsSound(n)'
  <2>1. Done(n, c)
    BY <1>1
  <2> QED BY <1>3, <2>1 DEF BitsSound, Done
<1>10. Recorded'
  <2>1. SUFFICES ASSUME NEW n \in Nodes
                 PROVE  EvalNN(n, exp[tree[n].left], exp[tree[n].right])' \subseteq exp'[n].eval
    BY <1>3 DEF Recorded
  <2>2. EvalNN(n, exp[tree[n].left], exp[tree[n].right])' = EvalNN(n, c[tree[n].left], c[tree[n].right])
    BY <1>3 DEF EvalNN, AndEvalNN, OrEvalNN, OtherEvalNN
  <2> QED BY <1>1, <1>3, <2>2 DEF Done
<1>11. RootCurrent'
  <2> DEFINE r == tree[1].right
  <2>1. 1 \in Nodes /\ r \in Nodes /\ tree[1].op \in {"IF", "ASSIGN"}
    BY DEF Shape, NodeShape, Unary, IsKid
  <2>2. Worth[1] = Worth[r]
    <3>1. Worth[1] = Operation(1, Worth)
      BY <2>1, WorthDef DEF WorthIs
    <3> QED BY <2>1, <3>1 DEF Operation
  <2>3. c[1].val = c[r].val
    BY <1>1, <2>1, <2>2 DEF Done
  <2> QED BY <1>3, <2>3 DEF RootCurrent
<1> QED BY <1>3, <1>4, <1>7, <1>8, <1>9, <1>10, <1>11 DEF ScoreInv

-----------------------------------------------------------------------------
(* Coverage.                                                                *)

Was(s, side, is) == [side |-> side, is |-> is] \in s

(* What is recorded for expression n in record x is what it was in s.       *)
ExactAt(n, x, s) ==
  /\ tree[n].op = "AND" => x.eval = {nn \in {"01", "10", "11"} : \/ nn = "01" /\ Was(s, "left", "0")
                                                                 \/ nn = "10" /\ Was(s, "right", "0")
                                                                 \/ nn = "11" /\ Was(s, "both", "11")}
  /\ tree[n].op = "OR"  => x.eval = {nn \in {"00", "01", "10"} : \/ nn = "00" /\ Was(s, "both", "00")
                                                                 \/ nn = "01" /\ Was(s, "right", "1")
                                                                 \/ nn = "10" /\ Was(s, "left", "1")}
  /\ tree[n].op = "XOR" => x.eval = {nn \in {"00", "01", "10", "11"} : Was(s, "both", nn)}
  /\ tree[n].op \notin {"AND", "OR", "XOR"} => x.eval = {}
  /\ x.true <=> Was(s, "value", "1")
  /\ x.false <=> Was(s, "value", "0")

Exact(e, s) == \A n \in Nodes : ExactAt(n, e[n], s[n])

LEMMA ExactCoverage == ExpTypes /\ Exact(exp, seen) => CoverageExact
<1> SUFFICES ASSUME ExpTypes, Exact(exp, seen) PROVE CoverageExact
  OBVIOUS
<1>1. EvalsExact
  BY DEF EvalsExact, Exact, ExactAt, Was
<1>2. TruthExact
  <2> SUFFICES ASSUME NEW n \in Nodes
               PROVE  /\ exp[n].true = ([side |-> "value", is |-> "1"] \in seen[n])
                      /\ exp[n].false = ([side |-> "value", is |-> "0"] \in seen[n])
    BY DEF TruthExact
  <2>1. exp[n].true \in BOOLEAN /\ exp[n].false \in BOOLEAN
    BY DEF ExpTypes, ExpType
  <2>2. /\ exp[n].true <=> [side |-> "value", is |-> "1"] \in seen[n]
        /\ exp[n].false <=> [side |-> "value", is |-> "0"] \in seen[n]
    BY DEF Exact, ExactAt, Was
  <2> QED BY <2>1, <2>2
<1> QED BY <1>1, <1>2 DEF CoverageExact

(* The facts of one execution. *)
LEMMA FactsAre ==
  ASSUME NEW l \in Bit, NEW r \in Bit, NEW v \in Bit
  PROVE  /\ Was(Facts(l, r, v), "left", "0") <=> l = "0"
         /\ Was(Facts(l, r, v), "left", "1") <=> l = "1"
         /\ Was(Facts(l, r, v), "right", "0") <=> r = "0"
         /\ Was(Facts(l, r, v), "right", "1") <=> r = "1"
         /\ Was(Facts(l, r, v), "value", "0") <=> v = "0"
         /\ Was(Facts(l, r, v), "value", "1") <=> v = "1"
         /\ Was(Facts(l, r, v), "both", "00") <=> l = "0" /\ r = "0"
         /\ Was(Facts(l, r, v), "both", "01") <=> l = "0" /\ r = "1"
         /\ Was(Facts(l, r, v), "both", "10") <=> l = "1" /\ r = "0"
         /\ Was(Facts(l, r, v), "both", "11") <=> l = "1" /\ r = "1"
<1>1. \A side, is : Was(Facts(l, r, v), side, is) <=>
                      /\ is # "x"
                      /\ \/ side = "left" /\ is = l
                         \/ side = "right" /\ is = r
                         \/ side = "both" /\ is = Pair(l, r)
                         \/ side = "value" /\ is = v
  BY DEF Was, Facts
<1>2. /\ Pair(l, r) = "00" <=> l = "0" /\ r = "0"
      /\ Pair(l, r) = "01" <=> l = "0" /\ r = "1"
      /\ Pair(l, r) = "10" <=> l = "1" /\ r = "0"
      /\ Pair(l, r) = "11" <=> l = "1" /\ r = "1"
  BY DEF Pair, Bit
<1> QED BY <1>1, <1>2

LEMMA WasUnion ==
  \A s, t, side, is : Was(s \cup t, side, is) <=> Was(s, side, is) \/ Was(t, side, is)
BY DEF Was

(* An execution records what it should. *)
LEMMA ExecuteExact ==
  ASSUME Shape, ValueType, ExpTypes, ScoreInv, Exact(exp, seen), NEW n \in Nodes
  PROVE  ExactAt(n, SimExpression[n], seen[n] \cup Facts(Worth[tree[n].left], Worth[tree[n].right], Worth[n]))
<1> DEFINE l == tree[n].left
           r == tree[n].right
           a == SimExpression[l]
           b == SimExpression[r]
           y == SimExpression[n]
           f == Facts(Worth[l], Worth[r], Worth[n])
           s == seen[n] \cup f
<1>1. l \in Nodes0 /\ r \in Nodes0 /\ n \in Nodes0
  BY OperandsBelow DEF Operands, Nodes0
<1>2. Worth[l] \in Bit /\ Worth[r] \in Bit /\ Worth[n] \in Bit
  BY <1>1, WorthDef DEF WorthIs
<1>3. /\ Was(f, "left", "0") <=> Worth[l] = "0"
      /\ Was(f, "left", "1") <=> Worth[l] = "1"
      /\ Was(f, "right", "0") <=> Worth[r] = "0"
      /\ Was(f, "right", "1") <=> Worth[r] = "1"
      /\ Was(f, "value", "0") <=> Worth[n] = "0"
      /\ Was(f, "value", "1") <=> Worth[n] = "1"
      /\ Was(f, "both", "00") <=> Worth[l] = "0" /\ Worth[r] = "0"
      /\ Was(f, "both", "01") <=> Worth[l] = "0" /\ Worth[r] = "1"
      /\ Was(f, "both", "10") <=> Worth[l] = "1" /\ Worth[r] = "0"
      /\ Was(f, "both", "11") <=> Worth[l] = "1" /\ Worth[r] = "1"
  BY <1>2, FactsAre
<1>4. /\ y.true <=> exp[n].true \/ Worth[n] = "1"
      /\ y.false <=> exp[n].false \/ Worth[n] = "0"
      /\ y.eval = exp[n].eval \cup EvalNN(n, a, b)
  BY DoneAll DEF Done
<1>5. ExactAt(n, exp[n], seen[n])
  BY DEF Exact
<1>6. \A side, is : Was(s, side, is) <=> Was(seen[n], side, is) \/ Was(f, side, is)
  BY WasUnion
<1>7. (y.true <=> Was(s, "value", "1")) /\ (y.false <=> Was(s, "value", "0"))
  <2> HIDE DEF y, f, s
  <2> QED BY <1>3, <1>4, <1>5, <1>6 DEF ExactAt
<1>8. ASSUME tree[n].op \in {"AND", "OR", "XOR"}
      PROVE  /\ a.eval_t <=> Worth[l] = "1"
             /\ a.eval_f <=> Worth[l] = "0"
             /\ b.eval_t <=> Worth[r] = "1"
             /\ b.eval_f <=> Worth[r] = "0"
  <2>1. l \in Nodes /\ r \in Nodes
    BY <1>8 DEF Shape, NodeShape, Binary, IsKid
  <2>2. Done(l, SimExpression) /\ Done(r, SimExpression)
    BY <2>1, DoneAll
  <2> QED BY <2>2 DEF Done
<1> HIDE DEF a, b, y, f, s, l, r
<1>9. CASE tree[n].op = "AND"
  <2>1. y.eval = exp[n].eval \cup AndEvalNN(a, b)
    BY <1>4, <1>9 DEF EvalNN
  <2>2. exp[n].eval = {nn \in {"01", "10", "11"} : \/ nn = "01" /\ Was(seen[n], "left", "0")
                                                   \/ nn = "10" /\ Was(seen[n], "right", "0")
                                                   \/ nn = "11" /\ Was(seen[n], "both", "11")}
    BY <1>5, <1>9 DEF ExactAt
  <2>3. y.eval = {nn \in {"01", "10", "11"} : \/ nn = "01" /\ Was(s, "left", "0")
                                              \/ nn = "10" /\ Was(s, "right", "0")
                                              \/ nn = "11" /\ Was(s, "both", "11")}
    BY <1>3, <1>6, <1>8, <1>9, <2>1, <2>2 DEF AndEvalNN
  <2> QED BY <1>7, <1>9, <2>3 DEF ExactAt, y, s, f, l, r
<1>10. CASE tree[n].op = "OR"
  <2>1. y.eval = exp[n].eval \cup OrEvalNN(a, b)
    BY <1>4, <1>10 DEF EvalNN
  <2>2. exp[n].eval = {nn \in {"00", "01", "10"} : \/ nn = "00" /\ Was(seen[n], "both", "00")
                                                   \/ nn = "01" /\ Was(seen[n], "right", "1")
                                                   \/ nn = "10" /\ Was(seen[n], "left", "1")}
    BY <1>5, <1>10 DEF ExactAt
  <2>3. y.eval = {nn \in {"00", "01", "10"} : \/ nn = "00" /\ Was(s, "both", "00")
                                              \/ nn = "01" /\ Was(s, "right", "1")
                                              \/ nn = "10" /\ Was(s, "left", "1")}
    BY <1>3, <1>6, <1>8, <1>10, <2>1, <2>2 DEF OrEvalNN
  <2> QED BY <1>7, <1>10, <2>3 DEF ExactAt, y, s, f, l, r
<1>11. CASE tree[n].op = "XOR"
  <2>1. y.eval = exp[n].eval \cup OtherEvalNN(a, b)
    BY <1>4, <1>11 DEF EvalNN
  <2>2. exp[n].eval = {nn \in {"00", "01", "10", "11"} : Was(seen[n], "both", nn)}
    BY <1>5, <1>11 DEF ExactAt
  <2>3. y.eval = {nn \in {"00", "01", "10", "11"} : Was(s, "both", nn)}
    BY <1>3, <1>6, <1>8, <1>11, <2>1, <2>2 DEF OtherEvalNN
  <2> QED BY <1>7, <1>11, <2>3 DEF ExactAt, y, s, f, l, r
<1>12. CASE tree[n].op \notin {"AND", "OR", "XOR"}
  <2>1. exp[n].eval = {} /\ EvalNN(n, a, b) = {}
    BY <1>5, <1>12 DEF ExactAt, EvalNN
  <2> QED BY <1>4, <1>7, <1>12, <2>1 DEF ExactAt, y, s, f, l, r
<1> QED BY <1>9, <1>10, <1>11, <1>12

(* The record of two runs is that of either. *)
LEMMA UnionExact ==
  ASSUME NEW n, NEW x, NEW a, NEW b, NEW s, NEW t, ExactAt(n, a, s), ExactAt(n, b, t),
         x.true <=> a.true \/ b.true, x.false <=> a.false \/ b.false, x.eval = a.eval \cup b.eval
  PROVE  ExactAt(n, x, s \cup t)
<1>1. \A side, is : Was(s \cup t, side, is) <=> Was(s, side, is) \/ Was(t, side, is)
  BY WasUnion
<1> DEFINE u == s \cup t
<1>2. \A side, is : Was(u, side, is) <=> Was(s, side, is) \/ Was(t, side, is)
  BY <1>1
<1> HIDE DEF u
<1>3. tree[n].op = "AND" =>
        x.eval = {nn \in {"01", "10", "11"} : \/ nn = "01" /\ Was(u, "left", "0")
                                              \/ nn = "10" /\ Was(u, "right", "0")
                                              \/ nn = "11" /\ Was(u, "both", "11")}
  BY <1>2 DEF ExactAt
<1>4. tree[n].op = "OR" =>
        x.eval = {nn \in {"00", "01", "10"} : \/ nn = "00" /\ Was(u, "both", "00")
                                              \/ nn = "01" /\ Was(u, "right", "1")
                                              \/ nn = "10" /\ Was(u, "left", "1")}
  BY <1>2 DEF ExactAt
<1>5. tree[n].op = "XOR" => x.eval = {nn \in {"00", "01", "10", "11"} : Was(u, "both", nn)}
  BY <1>2 DEF ExactAt
<1>6. tree[n].op \notin {"AND", "OR", "XOR"} => x.eval = {}
  BY DEF ExactAt
<1>7. (x.true <=> Was(u, "value", "1")) /\ (x.false <=> Was(u, "value", "0"))
  BY <1>2 DEF ExactAt
<1>8. ExactAt(n, x, u)
  BY <1>3, <1>4, <1>5, <1>6, <1>7 DEF ExactAt
<1> QED BY <1>8 DEF u

-----------------------------------------------------------------------------
(* The theorems.                                                            *)

Dark == value = [s \in Signals |-> "x"]

(* The CDD of the first run is as exact as the state it was written in.     *)
FileExact == file # None => file.exp \in [Nodes -> ExpType] /\ Exact(file.exp, file.seen)

CoverageInv ==
  /\ tree \in Trees /\ ValueType /\ ExpTypes
  /\ phase = "score" => ScoreInv
  /\ phase # "score" => Dark
  /\ Exact(exp, seen)
  /\ FileExact

LEMMA FreshType ==
  ASSUME Shape
  PROVE  /\ Fresh(tree) \in [Nodes -> ExpType]
         /\ MarksSound(Fresh(tree))
         /\ Exact(Fresh(tree), Unseen(tree))
         /\ LeavesOnly(Statics)
<1> DEFINE e == Fresh(tree)
<1>1. ASSUME NEW n \in Nodes
      PROVE  /\ e[n] \in ExpType /\ ~e[n].left_changed /\ ~e[n].right_changed
             /\ ~e[n].true /\ ~e[n].false /\ e[n].eval = {}
             /\ Unseen(tree)[n] = {}
  <2>1. (IF tree[n].op = "STATIC" THEN tree[n].sig ELSE "x") \in Bit
    BY DEF Shape, NodeShape, Bit
  <2> QED BY <2>1 DEF Fresh, Nodes, ExpType, Unseen
<1>2. e \in [Nodes -> ExpType]
  BY <1>1 DEF Fresh, Nodes
<1> HIDE DEF e
<1>3. MarksSound(e)
  <2>1. \A n \in Nodes : tree[n].op = "COND_SEL" => Parent(n) \in Nodes
    BY DEF Shape, NodeShape, ParentOf
  <2> QED BY <1>1, <2>1 DEF MarksSound, Dirty
<1>4. Exact(e, Unseen(tree))
  <2>1. \A side, is : ~Was({}, side, is)
    BY DEF Was
  <2>2. ASSUME NEW n \in Nodes PROVE ExactAt(n, e[n], {})
    <3>1. e[n].eval = {} /\ ~e[n].true /\ ~e[n].false
      BY <1>1
    <3> QED BY <2>1, <3>1 DEF ExactAt
  <2> QED BY <1>1, <2>2 DEF Exact
<1>5. LeavesOnly(Statics)
  BY DEF LeavesOnly, Statics, Leaf
<1> QED BY <1>2, <1>3, <1>4, <1>5 DEF e

(* A run starts with the marks of the constants. *)
LEMMA FreshChanged ==
  ASSUME Shape, NEW c, c = Changed(Fresh(tree), Statics)
  PROVE  /\ c \in [Nodes -> ExpType]
         /\ MarksSound(c)
         /\ \A n \in Statics : Dirty(c, n)
         /\ \A n \in Nodes : SameRecord(c[n], Fresh(tree)[n])
BY FreshType, ChangedMarks

LEMMA SameExact ==
  ASSUME NEW e, NEW g, NEW s, Exact(e, s), \A n \in Nodes : SameRecord(g[n], e[n])
  PROVE  Exact(g, s)
BY DEF Exact, ExactAt, SameRecord

LEMMA InitCoverage == Init => CoverageInv
<1> SUFFICES ASSUME Init PROVE CoverageInv
  OBVIOUS
<1>1. tree \in Trees /\ Dark /\ phase = "score" /\ file = None
  BY DEF Init, Dark
<1>2. Shape
  BY <1>1, TreeShape
<1>3. /\ ExpTypes /\ MarksSound(exp)
      /\ \A n \in Statics : Dirty(exp, n)
      /\ \A n \in Nodes : SameRecord(exp[n], Fresh(tree)[n])
  BY <1>2, FreshChanged DEF Init, ExpTypes
<1>4. ScoreInv
  BY <1>1, <1>2, <1>3, FreshScore DEF FreshState, Dark
<1>5. Exact(exp, seen)
  BY <1>2, <1>3, FreshType, SameExact DEF Init
<1>6. ValueType
  BY <1>1 DEF Dark, ValueType, Bit
<1> QED BY <1>1, <1>3, <1>4, <1>5, <1>6 DEF CoverageInv, FileExact

(* The truth of Exact depends on the tree and its arguments only.           *)
LEMMA SameTreeExact ==
  ASSUME tree' = tree, NEW e, NEW s, exp' = e, seen' = s, Exact(e, s)
  PROVE  Exact(exp, seen)'
BY DEF Exact, ExactAt, Nodes

LEMMA SameTreeFile ==
  ASSUME tree' = tree, FileExact, file' = file
  PROVE  FileExact'
BY DEF FileExact, Exact, ExactAt, Nodes

LEMMA ChangeInv ==
  ASSUME CoverageInv, NEW s \in Signals, NEW v \in {"0", "1", "x"}, Change(s, v)
  PROVE  CoverageInv'
<1> USE DEF CoverageInv
<1>1. /\ phase = "score" /\ phase' = phase /\ tree' = tree /\ seen' = seen /\ file' = file
      /\ value' = [value EXCEPT ![s] = v] /\ exp' = Changed(exp, Leaves(s)) /\ v \in Bit
  BY DEF Change, Bit
<1>2. Shape
  BY TreeShape
<1>3. ValueType' /\ ExpTypes' /\ ScoreInv'
  BY <1>1, <1>2, ChangeScore
<1>4. \A n \in Nodes : SameRecord(Changed(exp, Leaves(s))[n], exp[n])
  <2>1. LeavesOnly(Leaves(s))
    BY DEF LeavesOnly, Leaves, Leaf
  <2> QED BY <1>1, <1>2, <2>1, ChangedMarks DEF ScoreInv, ExpTypes
<1>5. Exact(Changed(exp, Leaves(s)), seen)
  BY <1>4, SameExact
<1>6. Exact(exp, seen)'
  BY <1>1, <1>5, SameTreeExact
<1>7. FileExact'
  BY <1>1, SameTreeFile
<1> QED BY <1>1, <1>3, <1>6, <1>7

LEMMA ExecuteInv ==
  ASSUME CoverageInv, Execute
  PROVE  CoverageInv'
<1> USE DEF CoverageInv
<1> DEFINE s == [n \in Nodes |-> seen[n] \cup Facts(Worth[tree[n].left], Worth[tree[n].right], Worth[n])]
<1>1. /\ phase = "score" /\ phase' = phase /\ tree' = tree /\ value' = value /\ file' = file
      /\ exp' = SimExpression /\ seen' = s
  BY DEF Execute
<1>2. Shape
  BY TreeShape
<1>3. ExpTypes' /\ ScoreInv'
  BY <1>1, <1>2, ExecuteScore
<1>4. Exact(SimExpression, s)
  BY <1>1, <1>2, ExecuteExact DEF Exact
<1> HIDE DEF s
<1>5. Exact(exp, seen)'
  BY <1>1, <1>4, SameTreeExact
<1>6. FileExact'
  BY <1>1, SameTreeFile
<1>7. ValueType'
  BY <1>1 DEF ValueType
<1> QED BY <1>1, <1>3, <1>5, <1>6, <1>7

LEMMA WrittenType ==
  ASSUME Shape, ExpTypes
  PROVE  /\ Written \in [Nodes -> ExpType]
         /\ \A n \in Nodes : /\ Written[n].true = exp[n].true /\ Written[n].false = exp[n].false
                             /\ Written[n].eval = exp[n].eval
<1> SUFFICES ASSUME NEW n \in Nodes
             PROVE  /\ Written[n] \in ExpType
                    /\ Written[n].true = exp[n].true /\ Written[n].false = exp[n].false
                    /\ Written[n].eval = exp[n].eval
  BY DEF Written
<1> DEFINE f == Fresh(tree)[n]
           x == exp[n]
           num == x.exec_num \/ (n = 1 /\ cont)
<1>1. f \in ExpType /\ x \in ExpType /\ num \in BOOLEAN
  BY FreshType DEF ExpTypes, ExpType
<1>2. Written[n] = [f EXCEPT !.true = x.true, !.false = x.false, !.eval = x.eval,
                             !.excluded = x.excluded, !.exec_num = num]
  BY DEF Written
<1> HIDE DEF f, x, num
<1>3. Written[n] \in ExpType /\ Written[n].true = x.true /\ Written[n].false = x.false /\ Written[n].eval = x.eval
  BY <1>1, <1>2 DEF ExpType
<1> QED BY <1>3 DEF x

LEMMA EndRunInv ==
  ASSUME CoverageInv, EndRun
  PROVE  CoverageInv'
<1> USE DEF CoverageInv
<1>1. /\ phase' = "report" /\ tree' = tree /\ seen' = seen /\ file' = file
      /\ exp' = Written /\ value' = [s \in Signals |-> "x"]
  BY DEF EndRun
<1>2. Shape
  BY TreeShape
<1>3. Dark' /\ ValueType'
  BY <1>1 DEF Dark, ValueType, Bit
<1>4. ExpTypes'
  BY <1>1, <1>2, WrittenType DEF ExpTypes, Nodes
<1>5. Exact(Written, seen)
  BY <1>2, WrittenType DEF Exact, ExactAt
<1>6. Exact(exp, seen)' /\ FileExact'
  BY <1>1, <1>5, SameTreeExact, SameTreeFile
<1> QED BY <1>1, <1>3, <1>4, <1>6

LEMMA ExcludeInv ==
  ASSUME CoverageInv, NEW n \in Nodes, NEW ex \in BOOLEAN, NEW line, Exclude(n, ex, line)
  PROVE  CoverageInv'
<1> USE DEF CoverageInv
<1> DEFINE c == [exp EXCEPT ![n].excluded = ex]
<1>1. /\ phase # "score" /\ phase' = phase /\ tree' = tree /\ value' = value /\ seen' = seen /\ file' = file
      /\ exp' = c
  BY DEF Exclude
<1>2. c \in [Nodes -> ExpType] /\ \A m \in Nodes : SameRecord(c[m], exp[m])
  <2>1. exp[n] \in ExpType
    BY DEF ExpTypes
  <2>2. [exp[n] EXCEPT !.excluded = ex] \in ExpType /\ SameRecord([exp[n] EXCEPT !.excluded = ex], exp[n])
    BY <2>1 DEF ExpType, SameRecord
  <2> QED BY <2>2 DEF ExpTypes, SameRecord
<1>3. Exact(c, seen)
  BY <1>2, SameExact
<1> HIDE DEF c
<1>4. Exact(exp, seen)' /\ FileExact'
  BY <1>1, <1>3, SameTreeExact, SameTreeFile
<1>5. Dark' /\ ValueType' /\ ExpTypes'
  BY <1>1, <1>2 DEF Dark, ValueType, ExpTypes, Nodes
<1> QED BY <1>1, <1>4, <1>5

LEMMA NextRunInv ==
  ASSUME CoverageInv, NextRun
  PROVE  CoverageInv'
<1> USE DEF CoverageInv
<1> DEFINE c == Changed(Fresh(tree), Statics)
<1>1. /\ phase # "score" /\ phase' = "score" /\ tree' = tree /\ value' = value
      /\ exp' = c /\ seen' = Unseen(tree)
      /\ file' = [exp |-> exp, excluded |-> excluded, seen |-> seen, excluded_line |-> excluded_line]
  BY DEF NextRun
<1>2. Shape /\ Shape' /\ Nodes' = Nodes
  BY <1>1, TreeShape, SameShape
<1>3. /\ c \in [Nodes -> ExpType] /\ MarksSound(c)
      /\ \A n \in Statics : Dirty(c, n)
      /\ \A n \in Nodes : SameRecord(c[n], Fresh(tree)[n])
  BY <1>2, FreshChanged
<1>4. Exact(c, Unseen(tree))
  BY <1>2, <1>3, FreshType, SameExact
<1> HIDE DEF c
<1>5. FreshState'
  <2>1. (value = [s \in Signals |-> "x"])'
    BY <1>1 DEF Dark
  <2>2. ExpTypes'
    BY <1>1, <1>2, <1>3 DEF ExpTypes
  <2>3. MarksSound(exp)'
    BY <1>1, <1>3, SameMarks
  <2>4. (\A n \in Statics : Dirty(exp, n))'
    BY <1>1, <1>2, <1>3, SameParent DEF Statics, Dirty
  <2>5. (\A n \in Nodes : SameRecord(exp[n], Fresh(tree)[n]))'
    BY <1>1, <1>2, <1>3 DEF SameRecord
  <2> QED BY <2>1, <2>2, <2>3, <2>4, <2>5 DEF FreshState
<1>6. ScoreInv'
  <2>1. (Shape /\ FreshState)'
    BY <1>2, <1>5
  <2>2. (Shape /\ FreshState)' => ScoreInv'
    BY FreshScore, PTL
  <2> QED BY <2>1, <2>2
<1>7. Exact(exp, seen)'
  BY <1>1, <1>4, SameTreeExact
<1>8. FileExact'
  <2>1. file'.exp = exp /\ file'.seen = seen
    BY <1>1
  <2>2. file'.exp \in [Nodes' -> ExpType]
    BY <1>2, <2>1 DEF ExpTypes
  <2>3. Exact(file.exp, file.seen)'
    BY <1>1, <2>1 DEF Exact, ExactAt, Nodes
  <2> QED BY <2>2, <2>3 DEF FileExact
<1>9. ValueType' /\ ExpTypes'
  BY <1>1, <1>5 DEF ValueType, FreshState
<1> QED BY <1>1, <1>6, <1>7, <1>8, <1>9

LEMMA MergedRecord ==
  ASSUME NEW a \in ExpType, NEW b \in ExpType
  PROVE  /\ MergedExp(a, b) \in ExpType
         /\ MergedExp(a, b).true <=> a.true \/ b.true
         /\ MergedExp(a, b).false <=> a.false \/ b.false
         /\ MergedExp(a, b).eval = a.eval \cup b.eval
<1> DEFINE t == a.true \/ b.true
           z == a.false \/ b.false
           ex == a.excluded \/ b.excluded
           num == a.exec_num \/ b.exec_num
           ev == a.eval \cup b.eval
           c == [a EXCEPT !.true = t, !.false = z, !.eval = ev, !.excluded = ex, !.exec_num = num]
<1>1. t \in BOOLEAN /\ z \in BOOLEAN /\ ex \in BOOLEAN /\ num \in BOOLEAN
  OBVIOUS
<1>2. ev \in SUBSET {"00", "01", "10", "11"}
  <2>1. a.eval \in SUBSET {"00", "01", "10", "11"} /\ b.eval \in SUBSET {"00", "01", "10", "11"}
    BY DEF ExpType
  <2> QED BY <2>1
<1>3. MergedExp(a, b) = c
  BY DEF MergedExp
<1>4. c \in ExpType /\ c.true = t /\ c.false = z /\ c.eval = ev
  <2> DEFINE E == SUBSET {"00", "01", "10", "11"}
             R == [val : Bit, set : BOOLEAN, left_changed : BOOLEAN, right_changed : BOOLEAN,
                   true : BOOLEAN, false : BOOLEAN, eval_t : BOOLEAN, eval_f : BOOLEAN,
                   eval : E, excluded : BOOLEAN, exec_num : BOOLEAN]
  <2>1. a \in R /\ ev \in E /\ R = ExpType
    BY <1>2 DEF ExpType
  <2> HIDE DEF t, z, ex, num, ev, E
  <2>2. c \in R
    BY <1>1, <2>1
  <2>3. c.true = t /\ c.false = z /\ c.eval = ev
    BY <2>1
  <2> QED BY <2>1, <2>2, <2>3
<1> HIDE DEF c
<1> QED BY <1>3, <1>4

LEMMA MergeInv ==
  ASSUME CoverageInv, Merge
  PROVE  CoverageInv'
<1> USE DEF CoverageInv
<1> DEFINE c == [n \in Nodes |-> MergedExp(exp[n], file.exp[n])]
           s == [n \in Nodes |-> seen[n] \cup file.seen[n]]
<1>1. /\ phase # "score" /\ phase' # "score" /\ tree' = tree /\ value' = value /\ file # None
      /\ exp' = c /\ seen' = s /\ file' = None
  BY DEF Merge
<1>2. ASSUME NEW n \in Nodes
      PROVE  /\ c[n] \in ExpType
             /\ c[n].true <=> exp[n].true \/ file.exp[n].true
             /\ c[n].false <=> exp[n].false \/ file.exp[n].false
             /\ c[n].eval = exp[n].eval \cup file.exp[n].eval
  <2>1. exp[n] \in ExpType /\ file.exp[n] \in ExpType
    BY <1>1 DEF ExpTypes, FileExact
  <2>2. c[n] = MergedExp(exp[n], file.exp[n])
    OBVIOUS
  <2> HIDE DEF c, CoverageInv
  <2> QED BY <2>1, <2>2, MergedRecord
<1>3. ASSUME NEW n \in Nodes PROVE ExactAt(n, c[n], s[n])
  <2>1. ExactAt(n, exp[n], seen[n]) /\ ExactAt(n, file.exp[n], file.seen[n])
    BY <1>1 DEF Exact, FileExact
  <2>2. ExactAt(n, c[n], seen[n] \cup file.seen[n])
    <3> HIDE DEF c
    <3> QED BY <1>2, <2>1, UnionExact
  <2>3. s[n] = seen[n] \cup file.seen[n]
    OBVIOUS
  <2> HIDE DEF c, s
  <2> QED BY <2>2, <2>3
<1>4. c \in [Nodes -> ExpType]
  <2>1. c = [n \in Nodes |-> c[n]]
    OBVIOUS
  <2> HIDE DEF c
  <2> QED BY <1>2, <2>1
<1>5. Exact(c, s)
  BY <1>3 DEF Exact
<1> HIDE DEF c, s
<1>6. Exact(exp, seen)'
  BY <1>1, <1>5, SameTreeExact
<1>7. Dark' /\ ValueType' /\ ExpTypes' /\ FileExact'
  BY <1>1, <1>4 DEF Dark, ValueType, ExpTypes, Nodes, FileExact
<1> QED BY <1>1, <1>6, <1>7

LEMMA SameScore ==
  ASSUME tree' = tree, value' = value, exp' = exp, ScoreInv
  PROVE  ScoreInv'
<1>1. Worth' = Worth /\ Nodes' = Nodes
  BY SameWorth DEF Nodes
<1>2. MarksSound(exp)'
  BY SameMarks DEF ScoreInv
<1>3. \A n : Dirty(exp, n)' <=> Dirty(exp, n)
  BY SameParent DEF Dirty
<1>4. Current' /\ \A n \in Nodes : BitsSound(n)'
  BY <1>1, <1>3 DEF ScoreInv, Current, BitsSound
<1>5. Recorded' /\ RootCurrent'
  BY <1>1, <1>3 DEF ScoreInv, Recorded, RootCurrent, cont, EvalNN, AndEvalNN, OrEvalNN, OtherEvalNN
<1> QED BY <1>1, <1>2, <1>4, <1>5 DEF ScoreInv

LEMMA NextCoverage == CoverageInv /\ [Next]_vars => CoverageInv'
<1> SUFFICES ASSUME CoverageInv, [Next]_vars PROVE CoverageInv'
  OBVIOUS
<1>1. ASSUME NEW s \in Signals, NEW v \in {"0", "1", "x"}, Change(s, v) PROVE CoverageInv'
  BY <1>1, ChangeInv
<1>2. CASE Execute
  BY <1>2, ExecuteInv
<1>3. CASE EndRun
  BY <1>3, EndRunInv
<1>4. ASSUME NEW n \in Nodes, ExcludeComb(n) PROVE CoverageInv'
  <2>1. (~exp[n].excluded) \in BOOLEAN
    OBVIOUS
  <2> QED BY <1>4, <2>1, ExcludeInv DEF ExcludeComb
<1>5. CASE ExcludeLine
  <2>1. (~excluded) \in BOOLEAN /\ 1 \in Nodes
    BY TreeShape DEF CoverageInv, Shape
  <2> QED BY <1>5, <2>1, ExcludeInv DEF ExcludeLine
<1>6. CASE NextRun
  BY <1>6, NextRunInv
<1>7. CASE Merge
  BY <1>7, MergeInv
<1>8. CASE UNCHANGED vars
  <2>1. /\ tree' = tree /\ value' = value /\ exp' = exp /\ phase' = phase /\ file' = file /\ seen' = seen
    BY <1>8 DEF vars
  <2>2. Shape
    BY TreeShape DEF CoverageInv
  <2>3. ScoreInv => ScoreInv'
    BY <2>1, <2>2, SameScore
  <2>4. Exact(exp, seen)' /\ FileExact'
    BY <2>1, SameTreeExact, SameTreeFile DEF CoverageInv
  <2> QED BY <2>1, <2>3, <2>4 DEF CoverageInv, ValueType, ExpTypes, Nodes, Dark
<1> QED BY <1>1, <1>2, <1>3, <1>4, <1>5, <1>6, <1>7, <1>8 DEF Next

(* What the marks, the bits of the last values and the coverage have in     *)
(* common, whatever the order of changes, executions, exclusions and runs.  *)
THEOREM CoverageAlways == Spec => []CoverageInv
<1> QED BY InitCoverage, NextCoverage, PTL DEF Spec

(* No mark is lost where sim_expr_changed stops climbing: what is not       *)
(* marked has the value that the signals give it now.                       *)
THEOREM UnmarkedAlwaysCurrent == Spec => []UnmarkedCurrent
<1>1. CoverageInv => UnmarkedCurrent
  BY DEF CoverageInv, ScoreInv, Current, Dirty, UnmarkedCurrent
<1> QED BY <1>1, CoverageAlways, PTL

(* The combinations and values recorded are exactly those that occurred, in *)
(* a run and in the merge of two.                                           *)
THEOREM CoverageAlwaysExact == Spec => []CoverageExact
<1>1. CoverageInv => CoverageExact
  BY ExactCoverage DEF CoverageInv
<1> QED BY <1>1, CoverageAlways, PTL

-----------------------------------------------------------------------------
(* What is above an expression.                                             *)

LEMMA AncestorsAre ==
  ASSUME Shape
  PROVE  \A n \in Nodes : Ancestors(n) = IF n = 1 THEN {1} ELSE {n} \cup Ancestors(Parent(n))
<1> DEFINE E(g, n) == IF n = 1 THEN {1} ELSE {n} \cup g[Parent(n)]
           V == SUBSET Nodes
           D == [g \in [Nodes -> V] |-> [n \in Nodes |-> E(g, n)]]
           r == [n \in Nodes |-> n]
<1>1. Len(tree) \in Nat /\ Nodes = 1..Len(tree)
  BY DEF Shape
<1>2. \A n \in Nodes : n # 1 => Parent(n) \in Nodes /\ Parent(n) < n
  BY DEF Shape, ParentOf
<1>3. Ranked(Nodes, r, Len(tree))
  BY <1>1 DEF Ranked
<1>4. ASSUME NEW g \in [Nodes -> V], NEW h \in [Nodes -> V], NEW n \in Nodes,
             \A m \in Nodes : r[m] < r[n] => g[m] = h[m]
      PROVE  D[g][n] = D[h][n]
  <2>1. n # 1 => g[Parent(n)] = h[Parent(n)]
    BY <1>2, <1>4
  <2> QED BY <2>1
<1>5. Looks(Nodes, V, r, D)
  <2>1. D \in [[Nodes -> V] -> [Nodes -> V]] /\ V # {}
    <3> SUFFICES ASSUME NEW g \in [Nodes -> V], NEW n \in Nodes PROVE E(g, n) \in V
      OBVIOUS
    <3>1. CASE n = 1
      BY <3>1
    <3>2. CASE n # 1
      <4>1. g[Parent(n)] \in V
        BY <1>2, <3>2
      <4> QED BY <3>2, <4>1
    <3> QED BY <3>1, <3>2
  <2> HIDE DEF D, r, V
  <2> QED BY <1>4, <2>1 DEF Looks
<1>6. PICK f \in [Nodes -> V] : f = D[f]
  <2> HIDE DEF D, r, V
  <2> QED BY <1>3, <1>5, RecursiveFunction
<1>7. f = [n \in Nodes |-> E(f, n)]
  BY <1>6
<1> DEFINE U == CHOOSE up : up = [n \in Nodes |-> IF n = 1 THEN {1} ELSE {n} \cup up[Parent(n)]]
<1>8. U = [n \in Nodes |-> IF n = 1 THEN {1} ELSE {n} \cup U[Parent(n)]]
  BY <1>7
<1>9. \A n : Ancestors(n) = U[n]
  BY DEF Ancestors
<1> HIDE DEF U
<1> QED BY <1>8, <1>9

(* The ancestors of an expression are a chain from it to the root.          *)
LEMMA AncestorsAbove ==
  ASSUME Shape, NEW n \in Nodes
  PROVE  /\ n \in Ancestors(n) /\ 1 \in Ancestors(n) /\ Ancestors(n) \subseteq Nodes
         /\ \A a \in Ancestors(n) : a <= n
<1> DEFINE Good(m) == /\ m \in Ancestors(m) /\ 1 \in Ancestors(m) /\ Ancestors(m) \subseteq Nodes
                      /\ \A a \in Ancestors(m) : a <= m
           S == {m \in Nodes : ~Good(m)}
<1>1. SUFFICES ASSUME S # {} PROVE FALSE
  BY <1>1
<1>2. PICK m \in S : m = 1 \/ Parent(m) \in Nodes \ S
  BY <1>1, FromTheRoot
<1>3. 1 \in Nodes /\ Nodes \subseteq Nat
  BY DEF Shape
<1>4. CASE m = 1
  BY <1>3, <1>4, AncestorsAre
<1>5. CASE m # 1
  <2>1. Good(Parent(m)) /\ Parent(m) < m /\ Parent(m) \in Nodes
    BY <1>2, <1>5 DEF Shape, ParentOf
  <2>2. Ancestors(m) = {m} \cup Ancestors(Parent(m))
    BY <1>5, AncestorsAre
  <2>3. ASSUME NEW a \in Ancestors(m) PROVE a <= m
    <3>1. m \in Nat /\ Parent(m) \in Nat
      BY <1>3, <2>1
    <3>2. CASE a = m
      BY <3>1, <3>2
    <3>3. CASE a \in Ancestors(Parent(m))
      <4>1. a \in Nat /\ a <= Parent(m)
        BY <1>3, <2>1, <3>3
      <4> QED BY <2>1, <3>1, <4>1
    <3> QED BY <2>2, <3>2, <3>3
  <2> QED BY <2>1, <2>2, <2>3
<1> QED BY <1>4, <1>5

LEMMA AncestorsChain ==
  ASSUME Shape, NEW n \in Nodes, NEW a \in Ancestors(n)
  PROVE  /\ Ancestors(a) \subseteq Ancestors(n)
         /\ \A b \in Ancestors(n) : a \in Ancestors(b) \/ b \in Ancestors(a)
<1> DEFINE Good(m) == \A c \in Ancestors(m) :
                         /\ Ancestors(c) \subseteq Ancestors(m)
                         /\ \A b \in Ancestors(m) : c \in Ancestors(b) \/ b \in Ancestors(c)
           S == {m \in Nodes : ~Good(m)}
<1>1. SUFFICES ASSUME S # {} PROVE FALSE
  BY <1>1
<1>2. PICK m \in S : m = 1 \/ Parent(m) \in Nodes \ S
  BY <1>1, FromTheRoot
<1>4. CASE m = 1
  BY <1>4, AncestorsAre
<1>5. CASE m # 1
  <2>1. Good(Parent(m)) /\ Parent(m) \in Nodes
    BY <1>2, <1>5
  <2>2. Ancestors(m) = {m} \cup Ancestors(Parent(m))
    BY <1>5, AncestorsAre
  <2>3. \A c \in Ancestors(m) : Ancestors(c) \subseteq Ancestors(m)
    BY <2>1, <2>2
  <2>4. ASSUME NEW c \in Ancestors(m), NEW b \in Ancestors(m)
        PROVE  c \in Ancestors(b) \/ b \in Ancestors(c)
    <3>1. CASE c = m \/ b = m
      BY <3>1
    <3>2. CASE c # m /\ b # m
      BY <2>1, <2>2, <3>2
    <3> QED BY <3>1, <3>2
  <2> QED BY <2>3, <2>4
<1> QED BY <1>4, <1>5

(* Something above m is excluded if and only if something above n is, or    *)
(* something between the two.                                               *)
LEMMA ExcludedAbove ==
  ASSUME Shape, NEW n \in Nodes, NEW m \in Subtree(n), NEW e
  PROVE  ParentExcluded(e, m) <=> ParentExcluded(e, n) \/ ExcludedBelow(e, n, m)
<1>1. m \in Nodes /\ n \in Ancestors(m)
  BY DEF Subtree
<1>2. Ancestors(n) \subseteq Ancestors(m) /\ Ancestors(m) \subseteq Nodes
  BY <1>1, AncestorsChain, AncestorsAbove
<1>3. \A a \in Ancestors(m) : a \in Ancestors(n) \/ a \in Subtree(n)
  BY <1>1, <1>2, AncestorsChain DEF Subtree
<1> QED BY <1>2, <1>3 DEF ParentExcluded, ExcludedBelow

-----------------------------------------------------------------------------
(* Chains of one operator, and what a report takes of the tree below an     *)
(* expression.                                                              *)

LEMMA InnerAbove ==
  ASSUME Shape, NEW n \in Nodes, Inner(n)
  PROVE  n # 1 /\ tree[n].op \in {"AND", "OR"} /\ tree[Parent(n)].op = tree[n].op
BY DEF Inner, Chains

LEMMA TopIs ==
  ASSUME Shape
  PROVE  \A n \in Nodes : Top[n] \in Nodes /\ Top[n] = IF Inner(n) THEN Top[Parent(n)] ELSE n
<1> DEFINE E(g, n) == IF Inner(n) THEN g[Parent(n)] ELSE n
           D == [g \in [Nodes -> Nodes] |-> [n \in Nodes |-> E(g, n)]]
           r == [n \in Nodes |-> n]
<1>1. Len(tree) \in Nat /\ Nodes = 1..Len(tree) /\ Nodes # {}
  BY DEF Shape
<1>2. \A n \in Nodes : Inner(n) => Parent(n) \in Nodes /\ Parent(n) < n
  BY InnerAbove DEF Shape, ParentOf
<1>3. Ranked(Nodes, r, Len(tree))
  BY <1>1 DEF Ranked
<1>4. ASSUME NEW g \in [Nodes -> Nodes], NEW h \in [Nodes -> Nodes], NEW n \in Nodes,
             \A m \in Nodes : r[m] < r[n] => g[m] = h[m]
      PROVE  D[g][n] = D[h][n]
  <2>1. Inner(n) => g[Parent(n)] = h[Parent(n)]
    BY <1>2, <1>4
  <2> QED BY <2>1
<1>5. Looks(Nodes, Nodes, r, D)
  <2>1. D \in [[Nodes -> Nodes] -> [Nodes -> Nodes]]
    <3> SUFFICES ASSUME NEW g \in [Nodes -> Nodes], NEW n \in Nodes PROVE E(g, n) \in Nodes
      OBVIOUS
    <3> QED BY <1>2
  <2> HIDE DEF D, r
  <2> QED BY <1>1, <1>4, <2>1 DEF Looks
<1>6. PICK f \in [Nodes -> Nodes] : f = D[f]
  <2> HIDE DEF D, r
  <2> QED BY <1>3, <1>5, RecursiveFunction
<1>7. f = [n \in Nodes |-> E(f, n)]
  BY <1>6
<1> DEFINE T == CHOOSE top : top = [n \in Nodes |-> IF Inner(n) THEN top[Parent(n)] ELSE n]
<1>8. T = [n \in Nodes |-> E(T, n)]
  BY <1>7
<1>9. Top = T
  BY DEF Top
<1> HIDE DEF T
<1>10. \A n \in Nodes : Top[n] = E(Top, n)
  BY <1>8, <1>9
<1> DEFINE S == {m \in Nodes : Top[m] \notin Nodes}
<1>11. S = {}
  <2> SUFFICES ASSUME S # {} PROVE FALSE
    OBVIOUS
  <2>1. PICK m \in S : m = 1 \/ Parent(m) \in Nodes \ S
    BY FromTheRoot
  <2>2. Inner(m) => m # 1
    BY DEF Inner
  <2> QED BY <1>10, <2>1, <2>2
<1> QED BY <1>10, <1>11

(* The topmost member of a chain is above its members, and nothing between  *)
(* is the child of an expression outside the chain.                         *)
LEMMA TopAbove ==
  ASSUME Shape, NEW n \in Nodes
  PROVE  /\ Top[n] \in Ancestors(n) /\ Top[n] \in Nodes
         /\ \A a \in Ancestors(n) : ~Inner(a) => a \in Ancestors(Top[n])
<1> DEFINE Good(m) == /\ Top[m] \in Ancestors(m)
                      /\ \A a \in Ancestors(m) : ~Inner(a) => a \in Ancestors(Top[m])
           S == {m \in Nodes : ~Good(m)}
<1>1. SUFFICES ASSUME S # {} PROVE FALSE
  BY <1>1, TopIs
<1>2. PICK m \in S : m = 1 \/ Parent(m) \in Nodes \ S
  BY <1>1, FromTheRoot
<1>3. CASE ~Inner(m)
  <2>1. Top[m] = m
    BY <1>3, TopIs
  <2> QED BY <2>1, AncestorsAbove
<1>4. CASE Inner(m)
  <2>1. m # 1 /\ Parent(m) \in Nodes
    BY <1>2, <1>4 DEF Inner
  <2>2. Good(Parent(m))
    BY <1>2, <2>1
  <2>3. Top[m] = Top[Parent(m)]
    BY <1>4, TopIs
  <2>4. Ancestors(m) = {m} \cup Ancestors(Parent(m))
    BY <2>1, AncestorsAre
  <2> QED BY <1>4, <2>2, <2>3, <2>4
<1> QED BY <1>3, <1>4

(* The members of a chain are taken where their topmost one is: below an    *)
(* expression that is not itself within a chain, everything.                *)
LEMMA TakenBelow ==
  ASSUME Shape, NEW n \in Nodes, ~Inner(n)
  PROVE  {m \in Subtree(n) : Top[m] \in Subtree(n)} = Subtree(n)
<1>1. ASSUME NEW m \in Subtree(n) PROVE Top[m] \in Subtree(n)
  <2>1. m \in Nodes /\ n \in Ancestors(m)
    BY DEF Subtree
  <2> QED BY <2>1, TopAbove DEF Subtree
<1> QED BY <1>1

LEMMA SubtreeOfRoot ==
  ASSUME Shape
  PROVE  Subtree(1) = Nodes /\ ~Inner(1)
BY AncestorsAbove DEF Subtree, Inner

LEMMA KidsParent ==
  ASSUME Shape, NEW n \in Nodes, NEW k \in Kids(n)
  PROVE  k \in Nodes /\ k # 1 /\ Parent(k) = n
<1>1. IsKid(k, n)
  BY DEF Kids, IsKid
<1>2. k \in Nodes /\ n < k /\ n \in Nat /\ 1 <= n
  BY <1>1 DEF Shape, NodeShape
<1>3. k # 1
  BY <1>2
<1> QED BY <1>1, <1>2, <1>3 DEF Shape, ParentOf

LEMMA ChainedOp ==
  ASSUME Shape, NEW n \in Nodes, Chained(n)
  PROVE  tree[n].op \in {"AND", "OR"}
<1>1. CASE Inner(n)
  BY <1>1, InnerAbove
<1>2. ASSUME NEW k \in Kids(n), Inner(k) PROVE tree[n].op \in {"AND", "OR"}
  <2>1. k \in Nodes /\ Parent(k) = n
    BY KidsParent
  <2> QED BY <1>2, <2>1, InnerAbove
<1> QED BY <1>1, <1>2 DEF Chained

(* What is underlined is not within a chain. *)
LEMMA UnderlinedTop ==
  ASSUME Shape, NEW n \in Nodes, Underlined(n)
  PROVE  ~Inner(n)
<1>1. CASE ~Chained(n)
  BY <1>1 DEF Chained
<1>2. CASE Top[n] = n
  <2> SUFFICES ASSUME Inner(n) PROVE FALSE
    OBVIOUS
  <2>1. n # 1
    BY DEF Inner
  <2>2. Parent(n) \in Nodes /\ Parent(n) < n
    BY <2>1 DEF Shape, ParentOf
  <2>3. n = Top[Parent(n)]
    BY <1>2, TopIs
  <2>4. n <= Parent(n)
    BY <2>2, <2>3, TopAbove, AncestorsAbove
  <2>5. n \in Nat /\ Parent(n) \in Nat
    BY <2>2 DEF Shape
  <2> QED BY <2>2, <2>4, <2>5
<1> QED BY <1>1, <1>2 DEF Underlined

-----------------------------------------------------------------------------
(* The number of coverage points.                                           *)

AllPoints == {"00", "01", "10", "11", "true", "false"}

LEMMA PointsAre ==
  ASSUME Shape, NEW n \in Nodes
  PROVE  Points(n) \subseteq AllPoints
<1>1. ASSUME NEW o \in {"AND", "OR", "XOR"} PROVE Pairs(o) \subseteq AllPoints
  BY DEF Pairs, AllPoints
<1>2. CASE Chained(n)
  <2>1. Points(n) \subseteq Pairs(tree[n].op)
    BY <1>2 DEF Points
  <2> QED BY <1>1, <1>2, <2>1, ChainedOp
<1>3. CASE ~Chained(n) /\ Measurable(n) /\ ~StaticOnly[n]
  <2>1. Points(n) = IF Comb(n) THEN Pairs(tree[n].op) ELSE {"true", "false"}
    BY <1>3 DEF Points
  <2>2. Comb(n) => tree[n].op \in {"AND", "OR", "XOR"}
    BY DEF Comb
  <2> QED BY <1>1, <2>1, <2>2 DEF AllPoints
<1>4. CASE ~Chained(n) /\ ~(Measurable(n) /\ ~StaticOnly[n])
  BY <1>4 DEF Points
<1> QED BY <1>2, <1>3, <1>4

LEMMA FinitePoints ==
  ASSUME Shape
  PROVE  IsFiniteSet(Nodes \X AllPoints)
<1>1. IsFiniteSet(Nodes)
  <2>1. IsFiniteSet(1..Len(tree))
    BY FS_Interval DEF Shape
  <2> QED BY <2>1 DEF Shape
<1>2. IsFiniteSet({}) /\ \A S, x : IsFiniteSet(S) => IsFiniteSet(S \cup {x})
  BY FS_EmptySet, FS_AddElement
<1>3. AllPoints = ((((({} \cup {"00"}) \cup {"01"}) \cup {"10"}) \cup {"11"}) \cup {"true"}) \cup {"false"}
  BY DEF AllPoints
<1>4. IsFiniteSet(AllPoints)
  <2>1. IsFiniteSet((({} \cup {"00"}) \cup {"01"}) \cup {"10"})
    BY <1>2
  <2> QED BY <1>2, <1>3, <2>1
<1> QED BY <1>1, <1>4, FS_Product

LEMMA DisjointUnion ==
  ASSUME NEW S, IsFiniteSet(S), NEW T, IsFiniteSet(T), S \cap T = {}
  PROVE  Cardinality(S \cup T) = Cardinality(S) + Cardinality(T)
<1>1. Cardinality(S \cap T) = 0
  BY FS_EmptySet
<1>2. Cardinality(S) \in Nat /\ Cardinality(T) \in Nat
  BY FS_CardinalityType
<1>3. Cardinality(S \cup T) = Cardinality(S) + Cardinality(T) - Cardinality(S \cap T)
  BY FS_Union
<1>4. Cardinality(S \cup T) = Cardinality(S) + Cardinality(T) - 0
  BY <1>1, <1>3
<1> QED BY <1>2, <1>4

(* How many of the points F[n] the expressions S have. *)
Number(F, S) == Cardinality(UNION {{n} \X F[n] : n \in S})

LEMMA NumberAdd ==
  ASSUME Shape, NEW F \in [Nodes -> SUBSET AllPoints], NEW S \in SUBSET Nodes
  PROVE  /\ Number(F, S) \in Nat
         /\ \A T \in SUBSET Nodes : S \cap T = {} => Number(F, S \cup T) = Number(F, S) + Number(F, T)
<1> DEFINE u(R) == UNION {{n} \X F[n] : n \in R}
<1>1. IsFiniteSet(Nodes \X AllPoints)
  BY FinitePoints
<1>2. \A R \in SUBSET Nodes : u(R) \subseteq Nodes \X AllPoints
  OBVIOUS
<1>3. ASSUME NEW R \in SUBSET Nodes PROVE IsFiniteSet(u(R)) /\ Cardinality(u(R)) \in Nat
  <2>1. u(R) \subseteq Nodes \X AllPoints
    BY <1>2
  <2> HIDE DEF u
  <2>2. IsFiniteSet(u(R))
    BY <1>1, <2>1, FS_Subset
  <2> QED BY <2>2, FS_CardinalityType
<1>4. ASSUME NEW T \in SUBSET Nodes, S \cap T = {}
      PROVE  Cardinality(u(S \cup T)) = Cardinality(u(S)) + Cardinality(u(T))
  <2>1. u(S \cup T) = u(S) \cup u(T)
    OBVIOUS
  <2>2. u(S) \cap u(T) = {}
    BY <1>4
  <2>3. IsFiniteSet(u(S)) /\ Cardinality(u(S)) \in Nat
    BY <1>3
  <2>4. IsFiniteSet(u(T)) /\ Cardinality(u(T)) \in Nat
    BY <1>3
  <2> HIDE DEF u
  <2>5. Cardinality(u(S) \cup u(T)) = Cardinality(u(S)) + Cardinality(u(T))
    BY <2>2, <2>3, <2>4, DisjointUnion
  <2> QED BY <2>1, <2>5
<1>5. \A R : Number(F, R) = Cardinality(u(R))
  BY DEF Number
<1> HIDE DEF u
<1> QED BY <1>3, <1>4, <1>5

PointsNumber(S) == Cardinality(PointsOf(S))
HitsNumber(e, S) == Cardinality(HitsOf(e, S))

LEMMA PointsAdd ==
  ASSUME Shape, NEW S \in SUBSET Nodes
  PROVE  /\ PointsNumber(S) \in Nat
         /\ \A T \in SUBSET Nodes :
               S \cap T = {} => PointsNumber(S \cup T) = PointsNumber(S) + PointsNumber(T)
<1> DEFINE F == [n \in Nodes |-> Points(n)]
<1>1. F \in [Nodes -> SUBSET AllPoints]
  BY PointsAre
<1>2. \A R \in SUBSET Nodes : PointsNumber(R) = Number(F, R)
  <2>1. ASSUME NEW R \in SUBSET Nodes
        PROVE  {{n} \X Points(n) : n \in R} = {{n} \X F[n] : n \in R}
    OBVIOUS
  <2> QED BY <2>1 DEF PointsNumber, PointsOf, Number
<1> HIDE DEF F
<1>3. ASSUME NEW T \in SUBSET Nodes PROVE S \cup T \in SUBSET Nodes
  OBVIOUS
<1> QED BY <1>1, <1>2, <1>3, NumberAdd

LEMMA HitsAdd ==
  ASSUME Shape, NEW e, NEW S \in SUBSET Nodes
  PROVE  /\ HitsNumber(e, S) \in Nat
         /\ \A T \in SUBSET Nodes :
               S \cap T = {} => HitsNumber(e, S \cup T) = HitsNumber(e, S) + HitsNumber(e, T)
<1> DEFINE F == [n \in Nodes |-> Hits(e, n)]
<1>1. F \in [Nodes -> SUBSET AllPoints]
  BY PointsAre DEF Hits
<1>2. \A R \in SUBSET Nodes : HitsNumber(e, R) = Number(F, R)
  <2>1. ASSUME NEW R \in SUBSET Nodes
        PROVE  {{n} \X Hits(e, n) : n \in R} = {{n} \X F[n] : n \in R}
    OBVIOUS
  <2> QED BY <2>1 DEF HitsNumber, HitsOf, Number
<1> HIDE DEF F
<1>3. ASSUME NEW T \in SUBSET Nodes PROVE S \cup T \in SUBSET Nodes
  OBVIOUS
<1> QED BY <1>1, <1>2, <1>3, NumberAdd

(* Not more points are hit than there are. *)
LEMMA HitsAtMost ==
  ASSUME Shape, NEW e, NEW S \in SUBSET Nodes
  PROVE  HitsNumber(e, S) <= PointsNumber(S)
<1>1. HitsOf(e, S) \subseteq PointsOf(S)
  <2>1. \A n : Hits(e, n) \subseteq Points(n)
    BY DEF Hits
  <2> QED BY <2>1 DEF HitsOf, PointsOf
<1>2. IsFiniteSet(PointsOf(S))
  <2>1. IsFiniteSet(Nodes \X AllPoints)
    BY FinitePoints
  <2>2. PointsOf(S) \subseteq Nodes \X AllPoints
    BY PointsAre DEF PointsOf
  <2> QED BY <2>1, <2>2, FS_Subset
<1> QED BY <1>1, <1>2, FS_Subset DEF HitsNumber, PointsNumber

(* Exclusions do not change what is hit. *)
LEMMA SameHits ==
  ASSUME NEW e, NEW g, \A n \in Nodes : g[n].true = e[n].true /\ g[n].false = e[n].false /\ g[n].eval = e[n].eval,
         NEW S \in SUBSET Nodes
  PROVE  HitsNumber(g, S) = HitsNumber(e, S)
<1>1. \A n \in Nodes : Hits(g, n) = Hits(e, n)
  BY DEF Hits
<1>2. {{n} \X Hits(g, n) : n \in S} = {{n} \X Hits(e, n) : n \in S}
  BY <1>1
<1> QED BY <1>2 DEF HitsNumber, HitsOf

-----------------------------------------------------------------------------
(* The numbers of a report, from the expressions that are excluded or have  *)
(* something excluded above them.                                           *)

Out(e) == {m \in Nodes : ParentExcluded(e, m)}

LEMMA TreeNumbers ==
  ASSUME Shape, NEW e, NEW n \in Nodes, ~Inner(n), NEW above,
         above => ParentExcluded(e, n), ParentExcluded(e, n) => above \/ e[n].excluded
  PROVE  TreeStats(e, n, above) =
           [hit |-> PointsNumber(Subtree(n) \cap Out(e)) + HitsNumber(e, Subtree(n) \ Out(e)),
            excluded |-> PointsNumber(Subtree(n) \cap Out(e)),
            total |-> PointsNumber(Subtree(n))]
<1> DEFINE S == {m \in Subtree(n) : Top[m] \in Subtree(n)}
           X == {m \in S : above \/ ExcludedBelow(e, n, m)}
<1>1. S = Subtree(n) /\ S \subseteq Nodes
  BY TakenBelow DEF Subtree
<1>2. ASSUME NEW m \in Subtree(n)
      PROVE  above \/ ExcludedBelow(e, n, m) <=> ParentExcluded(e, m)
  <2>1. ParentExcluded(e, m) <=> ParentExcluded(e, n) \/ ExcludedBelow(e, n, m)
    BY ExcludedAbove
  <2>2. e[n].excluded => ExcludedBelow(e, n, m)
    BY AncestorsAbove DEF ExcludedBelow, Subtree
  <2> QED BY <2>1, <2>2
<1>3. X = Subtree(n) \cap Out(e) /\ S \ X = Subtree(n) \ Out(e)
  BY <1>1, <1>2 DEF Out
<1>4. TreeStats(e, n, above) =
        [hit |-> PointsNumber(X) + HitsNumber(e, S \ X), excluded |-> PointsNumber(X), total |-> PointsNumber(S)]
  BY DEF TreeStats, PointsNumber, HitsNumber
<1> HIDE DEF S, X
<1> QED BY <1>1, <1>3, <1>4

LEMMA ReportNumbers ==
  ASSUME Shape, NEW e, NEW ex, ex => e[1].excluded
  PROVE  Report(e, ex) =
           [comb |-> [hit |-> PointsNumber(Out(e)) + HitsNumber(e, Nodes \ Out(e)),
                      excluded |-> PointsNumber(Out(e)),
                      total |-> PointsNumber(Nodes)],
            line |-> LineStats(e, ex)]
<1>1. 1 \in Nodes /\ ~Inner(1) /\ Subtree(1) = Nodes
  BY SubtreeOfRoot DEF Shape
<1>2. ParentExcluded(e, 1) <=> e[1].excluded
  BY <1>1, AncestorsAre DEF ParentExcluded
<1>3. Nodes \cap Out(e) = Out(e)
  BY DEF Out
<1>4. TreeStats(e, 1, ex) =
        [hit |-> PointsNumber(Out(e)) + HitsNumber(e, Nodes \ Out(e)),
         excluded |-> PointsNumber(Out(e)), total |-> PointsNumber(Nodes)]
  BY <1>1, <1>2, <1>3, TreeNumbers
<1> QED BY <1>4 DEF Report

(* What the exclusion of all below an expression, T, adds to what is out, O. *)
Splits(e, O, T) ==
  /\ PointsNumber(T) = PointsNumber(T \cap O) + PointsNumber(T \ O)
  /\ PointsNumber(O \cup T) = PointsNumber(O) + PointsNumber(T \ O)
  /\ HitsNumber(e, Nodes \ O) = HitsNumber(e, T \ O) + HitsNumber(e, Nodes \ (O \cup T))

LEMMA NumbersAdd ==
  ASSUME Shape, NEW e, NEW O \in SUBSET Nodes, NEW T \in SUBSET Nodes
  PROVE  Splits(e, O, T)
<1>1. /\ T = (T \cap O) \cup (T \ O) /\ (T \cap O) \cap (T \ O) = {}
      /\ T \cap O \in SUBSET Nodes /\ T \ O \in SUBSET Nodes
  OBVIOUS
<1>2. O \cup T = O \cup (T \ O) /\ O \cap (T \ O) = {}
  OBVIOUS
<1>3. /\ Nodes \ O = (T \ O) \cup (Nodes \ (O \cup T)) /\ (T \ O) \cap (Nodes \ (O \cup T)) = {}
      /\ Nodes \ (O \cup T) \in SUBSET Nodes
  OBVIOUS
<1>4. PointsNumber((T \cap O) \cup (T \ O)) = PointsNumber(T \cap O) + PointsNumber(T \ O)
  BY <1>1, PointsAdd
<1>5. PointsNumber(O \cup (T \ O)) = PointsNumber(O) + PointsNumber(T \ O)
  BY <1>1, <1>2, PointsAdd
<1>6. HitsNumber(e, (T \ O) \cup (Nodes \ (O \cup T)))
        = HitsNumber(e, T \ O) + HitsNumber(e, Nodes \ (O \cup T))
  BY <1>1, <1>3, HitsAdd
<1>7. PointsNumber(T) = PointsNumber(T \cap O) + PointsNumber(T \ O)
  BY <1>1, <1>4
<1>8. PointsNumber(O \cup T) = PointsNumber(O) + PointsNumber(T \ O)
  BY <1>2, <1>5
<1>9. HitsNumber(e, Nodes \ O) = HitsNumber(e, T \ O) + HitsNumber(e, Nodes \ (O \cup T))
  BY <1>3, <1>6
<1> QED BY <1>7, <1>8, <1>9 DEF Splits

LEMMA OutMore ==
  ASSUME Shape, NEW e \in [Nodes -> ExpType], NEW g \in [Nodes -> ExpType], NEW n \in Nodes, g[n].excluded,
         \A m \in Nodes \ {n} : g[m] = e[m]
  PROVE  Out(g) = Out(e) \cup Subtree(n)
<1>1. ASSUME NEW m \in Nodes
      PROVE  ParentExcluded(g, m) <=> ParentExcluded(e, m) \/ n \in Ancestors(m)
  <2>1. \A a \in Ancestors(m) : a \in Nodes
    BY AncestorsAbove
  <2>2. \A a \in Ancestors(m) \ {n} : g[a].excluded <=> e[a].excluded
    BY <2>1
  <2> QED BY <2>2 DEF ParentExcluded
<1> QED BY <1>1 DEF Out, Subtree

(* The numbers with expression n excluded, in g, and without it, in e.      *)
LEMMA ExcludeNumbers ==
  ASSUME Shape, NEW e \in [Nodes -> ExpType], NEW g \in [Nodes -> ExpType], NEW n \in Nodes, ~Inner(n),
         g[n].excluded, \A m \in Nodes \ {n} : g[m] = e[m],
         \A m \in Nodes : g[m].true = e[m].true /\ g[m].false = e[m].false /\ g[m].eval = e[m].eval,
         NEW ex, ex => e[1].excluded, NEW gx, gx => g[1].excluded
  PROVE  LET s == TreeStats(e, n, ParentExcluded(e, n))
             c == Report(e, ex).comb
             d == Report(g, gx).comb
         IN /\ s.hit \in Nat /\ s.excluded \in Nat /\ s.total \in Nat
            /\ c.hit \in Nat /\ c.excluded \in Nat
            /\ d.hit = c.hit + (s.total - s.hit) /\ d.excluded = c.excluded + (s.total - s.excluded)
            /\ d.total = c.total
<1> DEFINE O == Out(e)
           T == Subtree(n)
           po == PointsNumber(O)
           pb == PointsNumber(T \cap O)
           pd == PointsNumber(T \ O)
           hd == HitsNumber(e, T \ O)
           hr == HitsNumber(e, Nodes \ (O \cup T))
<1>1. O \in SUBSET Nodes /\ T \in SUBSET Nodes /\ T \cap O \in SUBSET Nodes /\ T \ O \in SUBSET Nodes
      /\ Nodes \ (O \cup T) \in SUBSET Nodes
  BY DEF Out, Subtree
<1>2. po \in Nat /\ pb \in Nat /\ pd \in Nat /\ hd \in Nat /\ hr \in Nat
  <2> HIDE DEF O, T
  <2> QED BY <1>1, PointsAdd, HitsAdd
<1>3. TreeStats(e, n, ParentExcluded(e, n)) = [hit |-> pb + hd, excluded |-> pb, total |-> PointsNumber(T)]
  BY TreeNumbers
<1>4. Report(e, ex).comb = [hit |-> po + HitsNumber(e, Nodes \ O), excluded |-> po, total |-> PointsNumber(Nodes)]
  BY ReportNumbers
<1>5. Out(g) = O \cup T
  BY OutMore
<1>6. Report(g, gx).comb = [hit |-> PointsNumber(O \cup T) + HitsNumber(g, Nodes \ (O \cup T)),
                            excluded |-> PointsNumber(O \cup T), total |-> PointsNumber(Nodes)]
  <2>1. Report(g, gx).comb = [hit |-> PointsNumber(Out(g)) + HitsNumber(g, Nodes \ Out(g)),
                              excluded |-> PointsNumber(Out(g)), total |-> PointsNumber(Nodes)]
    BY ReportNumbers
  <2> HIDE DEF O, T
  <2> QED BY <1>5, <2>1
<1>7. HitsNumber(g, Nodes \ (O \cup T)) = hr
  BY <1>1, SameHits
<1>8. PointsNumber(T) = pb + pd /\ PointsNumber(O \cup T) = po + pd /\ HitsNumber(e, Nodes \ O) = hd + hr
  <2> HIDE DEF O, T
  <2>1. Splits(e, O, T)
    BY <1>1, NumbersAdd
  <2> QED BY <2>1 DEF Splits
<1> HIDE DEF O, T, po, pb, pd, hd, hr
<1>9. TreeStats(e, n, ParentExcluded(e, n)) = [hit |-> pb + hd, excluded |-> pb, total |-> pb + pd]
  BY <1>3, <1>8
<1>10. Report(e, ex).comb = [hit |-> po + (hd + hr), excluded |-> po, total |-> PointsNumber(Nodes)]
  BY <1>4, <1>8
<1>11. Report(g, gx).comb = [hit |-> (po + pd) + hr, excluded |-> po + pd, total |-> PointsNumber(Nodes)]
  BY <1>6, <1>7, <1>8
<1> QED BY <1>2, <1>9, <1>10, <1>11

-----------------------------------------------------------------------------
(* A report depends on the tree and on what it is given only.               *)

LEMMA SameAncestors ==
  ASSUME tree' = tree, NEW n
  PROVE  Ancestors(n)' = Ancestors(n) /\ Subtree(n)' = Subtree(n)
<1>1. \A k : Parent(k)' = Parent(k)
  BY SameParent
<1>2. Nodes' = Nodes
  BY DEF Nodes
<1>3. ASSUME NEW m PROVE Ancestors(m)' = Ancestors(m)
  BY <1>1, <1>2, Zenon DEF Ancestors
<1> QED BY <1>2, <1>3 DEF Subtree

LEMMA SameInner ==
  ASSUME tree' = tree
  PROVE  /\ \A n : (Inner(n)' <=> Inner(n)) /\ (Chained(n)' <=> Chained(n))
         /\ Top' = Top /\ StaticOnly' = StaticOnly
<1>1. \A n : Inner(n)' <=> Inner(n)
  BY SameParent DEF Inner, Chains
<1>2. \A n : Chained(n)' <=> Chained(n)
  BY <1>1 DEF Chained, Kids
<1>3. Top' = Top
  BY <1>1, SameParent DEF Top, Nodes
<1>4. StaticOnly' = StaticOnly
  BY DEF StaticOnly, Nodes
<1> QED BY <1>1, <1>2, <1>3, <1>4

LEMMA SamePoints ==
  ASSUME tree' = tree, NEW n
  PROVE  Points(n)' = Points(n)
<1>1. Measurable(n)' <=> Measurable(n)
  BY SameParent DEF Measurable
<1>2. Comb(n)' <=> Comb(n)
  BY SameInner DEF Comb
<1> QED BY <1>1, <1>2, SameInner DEF Points

LEMMA SameTreeStats ==
  ASSUME tree' = tree, NEW e, NEW n, NEW above
  PROVE  TreeStats(e, n, above)' = TreeStats(e, n, above)
<1>1. \A m : Points(m)' = Points(m)
  BY SamePoints
<1>2. \A m : Hits(e, m)' = Hits(e, m)
  BY <1>1 DEF Hits
<1>3. \A S : PointsOf(S)' = PointsOf(S) /\ HitsOf(e, S)' = HitsOf(e, S)
  BY <1>1, <1>2 DEF PointsOf, HitsOf
<1>4. \A m : Ancestors(m)' = Ancestors(m) /\ Subtree(m)' = Subtree(m)
  BY SameAncestors
<1>5. \A m : ExcludedBelow(e, n, m)' <=> ExcludedBelow(e, n, m)
  BY <1>4 DEF ExcludedBelow
<1> QED BY <1>3, <1>4, <1>5, SameInner DEF TreeStats

LEMMA SameReport ==
  ASSUME tree' = tree, NEW e, NEW x, exp' = e, excluded' = x
  PROVE  Report(exp, excluded)' = Report(e, x)
<1>1. TreeStats(e, 1, x)' = TreeStats(e, 1, x)
  BY SameTreeStats
<1> QED BY <1>1 DEF Report, LineStats

-----------------------------------------------------------------------------
(* The numbers shown are those of a new report.                             *)

StatInv ==
  /\ excluded \in BOOLEAN
  /\ phase = "score" => ~excluded /\ stat = None
  /\ phase # "score" => stat = Report(exp, excluded)
  /\ excluded => exp[1].excluded
  /\ file # None => file.excluded \in BOOLEAN /\ (file.excluded => file.exp[1].excluded)

LEMMA RecordOf ==
  ASSUME NEW r, NEW a, NEW b, NEW c, NEW l, r = [comb |-> [hit |-> a, excluded |-> b, total |-> c], line |-> l]
  PROVE  /\ r = [comb |-> r.comb, line |-> l] /\ r.line = l
         /\ r.comb = [hit |-> r.comb.hit, excluded |-> r.comb.excluded, total |-> r.comb.total]
OBVIOUS

LEMMA ReportRecord ==
  ASSUME Shape, NEW e, NEW ex, ex => e[1].excluded
  PROVE  LET r == Report(e, ex)
         IN /\ r = [comb |-> r.comb, line |-> LineStats(e, ex)] /\ r.line = LineStats(e, ex)
            /\ r.comb = [hit |-> r.comb.hit, excluded |-> r.comb.excluded, total |-> r.comb.total]
<1> DEFINE a == PointsNumber(Out(e)) + HitsNumber(e, Nodes \ Out(e))
           b == PointsNumber(Out(e))
           c == PointsNumber(Nodes)
           l == LineStats(e, ex)
           r == Report(e, ex)
<1>1. r = [comb |-> [hit |-> a, excluded |-> b, total |-> c], line |-> l]
  BY ReportNumbers
<1> HIDE DEF a, b, c, l, r
<1>2. /\ r = [comb |-> r.comb, line |-> l] /\ r.line = l
      /\ r.comb = [hit |-> r.comb.hit, excluded |-> r.comb.excluded, total |-> r.comb.total]
  BY <1>1, RecordOf
<1> QED BY <1>2 DEF l, r

(* An exclusion or inclusion of a whole chain, or of something that is in   *)
(* none.                                                                    *)
LEMMA RecalculatedIs ==
  ASSUME Shape, ExpTypes, StatInv, phase # "score", NEW n \in Nodes, ~Inner(n), NEW ex \in BOOLEAN,
         NEW cx \in BOOLEAN, ~ex => exp[n].excluded,
         n # 1 => cx = excluded, n = 1 => cx = ex /\ excluded = ~ex /\ ~exp[1].exec_num
  PROVE  Recalculated(n, ex) = Report([exp EXCEPT ![n].excluded = ex], cx)
<1> DEFINE c == [exp EXCEPT ![n].excluded = ex]
           e == IF ex THEN exp ELSE c
           s == TreeStats(e, n, ParentExcluded(e, n))
           old == Report(exp, excluded)
           new == Report(c, cx)
           line == IF n = 1 /\ ~exp[1].exec_num THEN 1 ELSE 0
           plus(a, b) == IF ex THEN a + b ELSE a - b
<1>1. stat = old
  BY DEF StatInv
<1>2. Recalculated(n, ex) =
        [comb |-> [hit      |-> plus(old.comb.hit, s.total - s.hit),
                   excluded |-> plus(old.comb.excluded, s.total - s.excluded),
                   total    |-> old.comb.total],
         line |-> [hit      |-> plus(old.line.hit, line),
                   excluded |-> plus(old.line.excluded, line)]]
  <2>1. e = IF ex THEN exp ELSE [exp EXCEPT ![n].excluded = FALSE]
    OBVIOUS
  <2> QED BY <1>1, <2>1 DEF Recalculated
<1>3. /\ c \in [Nodes -> ExpType] /\ exp \in [Nodes -> ExpType] /\ c[n].excluded = ex
      /\ \A m \in Nodes \ {n} : c[m] = exp[m] /\ exp[m] = c[m]
      /\ \A m \in Nodes : /\ c[m].true = exp[m].true /\ c[m].false = exp[m].false /\ c[m].eval = exp[m].eval
                          /\ c[m].exec_num = exp[m].exec_num /\ exp[m].exec_num \in BOOLEAN
  <2>1. exp[n] \in ExpType
    BY DEF ExpTypes
  <2>2. [exp[n] EXCEPT !.excluded = ex] \in ExpType
    BY <2>1 DEF ExpType
  <2> QED BY <2>1, <2>2 DEF ExpTypes, ExpType
<1>4. 1 \in Nodes
  BY DEF Shape
<1>5. (cx => c[1].excluded) /\ (excluded => exp[1].excluded) /\ excluded \in BOOLEAN
  BY <1>3, <1>4 DEF StatInv
<1> HIDE DEF c
<1>6. new.comb = [hit |-> plus(old.comb.hit, s.total - s.hit),
                  excluded |-> plus(old.comb.excluded, s.total - s.excluded),
                  total |-> old.comb.total]
  <2>1. CASE ex
    <3>1. e = exp /\ c[n].excluded
      BY <1>3, <2>1
    <3>2. LET t == TreeStats(exp, n, ParentExcluded(exp, n))
          IN /\ new.comb.hit = old.comb.hit + (t.total - t.hit)
             /\ new.comb.excluded = old.comb.excluded + (t.total - t.excluded)
             /\ new.comb.total = old.comb.total
      BY <1>3, <1>5, <3>1, ExcludeNumbers
    <3>3. new.comb = [hit |-> new.comb.hit, excluded |-> new.comb.excluded, total |-> new.comb.total]
      BY <1>5, ReportRecord
    <3> HIDE DEF new, old
    <3> QED BY <2>1, <3>1, <3>2, <3>3
  <2>2. CASE ~ex
    <3>1. e = c /\ exp[n].excluded
      BY <2>2
    <3>2. LET t == TreeStats(c, n, ParentExcluded(c, n))
          IN /\ t.hit \in Nat /\ t.excluded \in Nat /\ t.total \in Nat
             /\ new.comb.hit \in Nat /\ new.comb.excluded \in Nat
             /\ old.comb.hit = new.comb.hit + (t.total - t.hit)
             /\ old.comb.excluded = new.comb.excluded + (t.total - t.excluded)
             /\ old.comb.total = new.comb.total
      BY <1>3, <1>5, <3>1, ExcludeNumbers
    <3>3. new.comb = [hit |-> new.comb.hit, excluded |-> new.comb.excluded, total |-> new.comb.total]
      BY <1>5, ReportRecord
    <3> HIDE DEF new, old
    <3> QED BY <2>2, <3>1, <3>2, <3>3
  <2> QED BY <2>1, <2>2
<1>7. new.line = [hit |-> plus(old.line.hit, line), excluded |-> plus(old.line.excluded, line)]
  <2>1. old.line = LineStats(exp, excluded) /\ new.line = LineStats(c, cx)
    BY <1>5, ReportRecord
  <2>2. exp[1].exec_num = c[1].exec_num /\ exp[1].exec_num \in BOOLEAN
    BY <1>3, <1>4
  <2>3. CASE n # 1
    BY <1>5, <2>1, <2>2, <2>3 DEF LineStats
  <2>4. CASE n = 1
    <3>1. ~exp[1].exec_num /\ ~c[1].exec_num
      BY <2>2, <2>4
    <3>2. CASE ex
      <4>1. ~excluded /\ cx
        BY <2>4, <3>2
      <4> QED BY <2>1, <2>4, <3>1, <3>2, <4>1 DEF LineStats
    <3>3. CASE ~ex
      <4>1. excluded /\ ~cx
        BY <2>4, <3>3
      <4> QED BY <2>1, <2>4, <3>1, <3>3, <4>1 DEF LineStats
    <3> QED BY <3>2, <3>3
  <2> QED BY <2>3, <2>4
<1>8. new = [comb |-> new.comb, line |-> new.line]
  <2>1. new = [comb |-> new.comb, line |-> LineStats(c, cx)] /\ new.line = LineStats(c, cx)
    BY <1>5, ReportRecord
  <2> QED BY <2>1
<1> HIDE DEF new, old, s, line
<1>9. Recalculated(n, ex) = new
  BY <1>2, <1>6, <1>7, <1>8
<1> QED BY <1>9 DEF new, c

LEMMA InitStat == Init => StatInv
<1> SUFFICES ASSUME Init PROVE StatInv
  OBVIOUS
<1>1. excluded = FALSE /\ phase = "score" /\ stat = None /\ file = None
  BY DEF Init
<1> QED BY <1>1 DEF StatInv

LEMMA ExcludeStat ==
  ASSUME CoverageInv, StatInv, NEW n \in Nodes, ~Inner(n), NEW ex \in BOOLEAN, NEW set_line \in BOOLEAN,
         n # 1 => ~set_line /\ ex = ~exp[n].excluded,
         n = 1 => set_line /\ ex = ~excluded /\ ~exp[1].exec_num,
         Exclude(n, ex, set_line)
  PROVE  StatInv'
<1> DEFINE c == [exp EXCEPT ![n].excluded = ex]
           cx == IF n = 1 THEN ex ELSE excluded
<1>1. Shape /\ ExpTypes
  BY TreeShape DEF CoverageInv
<1>2. /\ phase # "score" /\ phase' = phase /\ tree' = tree /\ file' = file /\ exp' = c
      /\ stat' = Recalculated(n, ex)
  BY DEF Exclude
<1>3. excluded' = cx /\ cx \in BOOLEAN /\ excluded \in BOOLEAN
  BY DEF Exclude, StatInv
<1>4. c[n].excluded = ex /\ \A m \in Nodes \ {n} : c[m] = exp[m]
  BY <1>1 DEF ExpTypes, ExpType
<1>5. 1 \in Nodes
  BY <1>1 DEF Shape
<1>6. cx => c[1].excluded
  BY <1>3, <1>4, <1>5 DEF StatInv
<1>7. ~ex => exp[n].excluded
  <2>1. CASE n # 1
    BY <2>1
  <2>2. CASE n = 1
    <3>1. ~ex => excluded
      BY <1>3, <2>2
    <3> QED BY <2>2, <3>1 DEF StatInv
  <2> QED BY <2>1, <2>2
<1>8. Recalculated(n, ex) = Report(c, cx)
  <2> HIDE DEF CoverageInv
  <2> QED BY <1>1, <1>2, <1>3, <1>7, RecalculatedIs
<1> HIDE DEF c, cx
<1>9. Report(exp, excluded)' = Report(c, cx)
  BY <1>2, <1>3, SameReport
<1> QED BY <1>2, <1>3, <1>6, <1>8, <1>9 DEF StatInv

LEMMA EndRunStat ==
  ASSUME CoverageInv, StatInv, EndRun
  PROVE  StatInv'
<1>1. /\ phase = "score" /\ phase' = "report" /\ tree' = tree /\ exp' = Written /\ stat' = Report(Written, excluded)
      /\ excluded' = excluded /\ file' = file
  BY DEF EndRun
<1>2. Report(exp, excluded)' = Report(Written, excluded)
  BY <1>1, SameReport
<1> QED BY <1>1, <1>2 DEF StatInv

LEMMA MergeStat ==
  ASSUME CoverageInv, StatInv, Merge
  PROVE  StatInv'
<1> DEFINE c == [n \in Nodes |-> MergedExp(exp[n], file.exp[n])]
<1>1. PICK first \in {excluded, file.excluded} :
         exp' = c /\ excluded' = first /\ stat' = Report(c, first)
  BY DEF Merge
<1>2. tree' = tree /\ phase' = "merged" /\ file # None /\ file' = None
  BY DEF Merge
<1>3. Shape /\ 1 \in Nodes
  BY TreeShape DEF CoverageInv, Shape
<1>4. c[1].excluded <=> exp[1].excluded \/ file.exp[1].excluded
  <2>1. c[1] = MergedExp(exp[1], file.exp[1])
    BY <1>3
  <2>2. exp[1] \in ExpType
    BY <1>3 DEF CoverageInv, ExpTypes
  <2> HIDE DEF c, CoverageInv
  <2> QED BY <2>1, <2>2 DEF MergedExp, ExpType
<1>5. first \in BOOLEAN /\ (first => c[1].excluded)
  BY <1>2, <1>4 DEF StatInv
<1> HIDE DEF c
<1>6. Report(exp, excluded)' = Report(c, first)
  BY <1>1, <1>2, SameReport
<1> QED BY <1>1, <1>2, <1>5, <1>6 DEF StatInv

LEMMA NextStat == CoverageInv /\ StatInv /\ [Next]_vars => StatInv'
<1> SUFFICES ASSUME CoverageInv, StatInv, [Next]_vars PROVE StatInv'
  OBVIOUS
<1>1. ASSUME NEW s \in Signals, NEW v \in {"0", "1", "x"}, Change(s, v) PROVE StatInv'
  BY <1>1 DEF Change, StatInv
<1>2. CASE Execute
  BY <1>2 DEF Execute, StatInv
<1>3. CASE EndRun
  BY <1>3, EndRunStat
<1>4. ASSUME NEW n \in Nodes, ExcludeComb(n) PROVE StatInv'
  <2>1. Shape /\ exp[n].excluded \in BOOLEAN
    BY TreeShape DEF CoverageInv, ExpTypes, ExpType
  <2>2. n # 1 /\ Underlined(n) /\ Exclude(n, ~exp[n].excluded, FALSE)
    BY <1>4 DEF ExcludeComb
  <2>3. ~Inner(n)
    BY <2>1, <2>2, UnderlinedTop
  <2>4. PICK ex \in BOOLEAN : ex = ~exp[n].excluded
    BY <2>1
  <2>5. Exclude(n, ex, FALSE)
    BY <2>2, <2>4
  <2> QED BY <2>2, <2>3, <2>4, <2>5, ExcludeStat
<1>5. CASE ExcludeLine
  <2>1. Shape /\ 1 \in Nodes /\ ~Inner(1)
    BY TreeShape, SubtreeOfRoot DEF CoverageInv, Shape
  <2>2. ~exp[1].exec_num /\ Exclude(1, ~excluded, TRUE)
    BY <1>5 DEF ExcludeLine
  <2>3. PICK ex \in BOOLEAN : ex = ~excluded
    BY DEF StatInv
  <2>4. Exclude(1, ex, TRUE)
    BY <2>2, <2>3
  <2> QED BY <2>1, <2>2, <2>3, <2>4, ExcludeStat
<1>6. CASE NextRun
  <2>1. /\ phase' = "score" /\ excluded' = FALSE /\ stat' = None
        /\ file' = [exp |-> exp, excluded |-> excluded, seen |-> seen, excluded_line |-> excluded_line]
    BY <1>6 DEF NextRun
  <2>2. file'.exp = exp /\ file'.excluded = excluded
    BY <2>1
  <2> QED BY <2>1, <2>2 DEF StatInv
<1>7. CASE Merge
  BY <1>7, MergeStat
<1>8. CASE UNCHANGED vars
  <2>1. tree' = tree /\ exp' = exp /\ excluded' = excluded /\ phase' = phase /\ stat' = stat /\ file' = file
    BY <1>8 DEF vars
  <2>2. Report(exp, excluded)' = Report(exp, excluded)
    BY <2>1, SameReport
  <2> QED BY <2>1, <2>2 DEF StatInv
<1> QED BY <1>1, <1>2, <1>3, <1>4, <1>5, <1>6, <1>7, <1>8 DEF Next

(* After any exclusions and inclusions, of nested expressions, of chains    *)
(* and of the line, and after a merge, the adjusted numbers are those that  *)
(* a new report would show (exclude_expr_assign_and_recalc and              *)
(* combination_get_tree_stats agree).                                       *)
THEOREM StatsAlwaysExact == Spec => []StatExact
<1>1. StatInv => StatExact
  BY DEF StatInv, StatExact
<1> QED BY <1>1, InitStat, NextStat, CoverageAlways, PTL DEF Spec

-----------------------------------------------------------------------------
(* The types, and the order of the numbers.                                 *)

LEMMA ReportOrder ==
  ASSUME Shape, NEW e, e[1].exec_num \in BOOLEAN, NEW ex \in BOOLEAN, ex => e[1].excluded
  PROVE  LET r == Report(e, ex)
         IN /\ r # None
            /\ r.comb.excluded \in 0..r.comb.hit /\ r.comb.hit \in 0..r.comb.total
            /\ r.line.excluded \in 0..r.line.hit /\ r.line.hit \in 0..1
<1> DEFINE O == Out(e)
           R == Nodes \ O
           p == PointsNumber(O)
           h == HitsNumber(e, R)
           q == PointsNumber(R)
           l == LineStats(e, ex)
           r == Report(e, ex)
<1>1. O \in SUBSET Nodes /\ R \in SUBSET Nodes /\ O \cap R = {} /\ O \cup R = Nodes
  BY DEF Out
<1>2. r = [comb |-> [hit |-> p + h, excluded |-> p, total |-> PointsNumber(Nodes)], line |-> l]
  BY ReportNumbers
<1>3. l.excluded \in 0..l.hit /\ l.hit \in 0..1
  BY DEF LineStats
<1>4. p \in Nat /\ h \in Nat /\ q \in Nat /\ h <= q
  <2> HIDE DEF O, R
  <2> QED BY <1>1, PointsAdd, HitsAdd, HitsAtMost
<1>5. PointsNumber(Nodes) = p + q
  <2> HIDE DEF O, R
  <2>1. PointsNumber(O \cup R) = PointsNumber(O) + PointsNumber(R)
    BY <1>1, PointsAdd
  <2> QED BY <1>1, <2>1
<1> HIDE DEF O, R, p, h, q, l, r
<1>6. r.comb.hit = p + h /\ r.comb.excluded = p /\ r.comb.total = p + q /\ r.line = l
  BY <1>2, <1>5
<1>7. r # None
  <2>1. "comb" \in DOMAIN r /\ "comb" \notin DOMAIN None
    BY <1>2 DEF None
  <2> QED BY <2>1
<1>8. r.comb.excluded \in 0..r.comb.hit /\ r.comb.hit \in 0..r.comb.total
  BY <1>4, <1>6
<1>9. r.line.excluded \in 0..r.line.hit /\ r.line.hit \in 0..1
  BY <1>3, <1>6
<1> QED BY <1>7, <1>8, <1>9 DEF r

Counters ==
  /\ phase \in {"score", "report", "merged"}
  /\ changes \in 0..MaxChanges /\ excludes \in 0..MaxExcludes

LEMMA InitCounters == Init => Counters
BY BoundsAssumption DEF Init, Counters

LEMMA NextCounters == Counters /\ [Next]_vars => Counters'
<1> SUFFICES ASSUME Counters, [Next]_vars PROVE Counters'
  OBVIOUS
<1> USE BoundsAssumption DEF Counters
<1>1. ASSUME NEW s \in Signals, NEW v \in {"0", "1", "x"}, Change(s, v) PROVE Counters'
  BY <1>1 DEF Change
<1>2. CASE Execute
  BY <1>2 DEF Execute
<1>3. CASE EndRun
  BY <1>3 DEF EndRun
<1>4. ASSUME NEW n, NEW ex, NEW line, Exclude(n, ex, line) PROVE Counters'
  BY <1>4 DEF Exclude
<1>5. CASE NextRun
  BY <1>5 DEF NextRun
<1>6. CASE Merge
  BY <1>6 DEF Merge
<1>7. CASE UNCHANGED vars
  BY <1>7 DEF vars
<1> QED BY <1>1, <1>2, <1>3, <1>4, <1>5, <1>6, <1>7 DEF Next, ExcludeComb, ExcludeLine

(* The variables keep their types; the excluded are never more than the     *)
(* hit, nor the hit more than all, and none drops below zero.               *)
THEOREM TypeCorrect == Spec => []TypeOK
<1>1. CoverageInv /\ StatInv /\ Counters => TypeOK
  <2> SUFFICES ASSUME CoverageInv, StatInv, Counters PROVE TypeOK
    OBVIOUS
  <2>1. tree \in Trees /\ value \in [Signals -> Bit] /\ exp \in [Nodes -> ExpType]
    BY DEF CoverageInv, ValueType, ExpTypes
  <2>2. Shape /\ 1 \in Nodes
    BY <2>1, TreeShape DEF Shape
  <2>3. exp[1].exec_num \in BOOLEAN
    BY <2>1, <2>2 DEF ExpType
  <2>4. CASE phase = "score"
    BY <2>1, <2>4 DEF StatInv, Counters, TypeOK
  <2>5. CASE phase # "score"
    <3>1. stat = Report(exp, excluded) /\ excluded \in BOOLEAN /\ (excluded => exp[1].excluded)
      BY <2>5 DEF StatInv
    <3>2. /\ stat # None
          /\ stat.comb.excluded \in 0..stat.comb.hit /\ stat.comb.hit \in 0..stat.comb.total
          /\ stat.line.excluded \in 0..stat.line.hit /\ stat.line.hit \in 0..1
      BY <2>2, <2>3, <3>1, ReportOrder
    <3> QED BY <2>1, <2>5, <3>1, <3>2 DEF Counters, TypeOK
  <2> QED BY <2>4, <2>5
<1> QED BY <1>1, InitStat, NextStat, InitCounters, NextCounters, CoverageAlways, PTL DEF Spec
=============================================================================
