-------------------------- MODULE EventWait_proofs --------------------------
(***************************************************************************)
(* Theorems about changed bits and events, for expression trees of every   *)
(* shape and any number of threads and signals.                            *)
(***************************************************************************)
EXTENDS EventWait, FiniteSetTheorems, SequenceTheorems, WellFoundedInduction, TLAPS

-----------------------------------------------------------------------------
(* Recursive functions on finite trees.                                     *)

(* B[n] are the elements just below n; there is no way down without an end. *)
Below(N, B) ==
  /\ B \in [N -> SUBSET N]
  /\ \A S \in SUBSET N : S # {} => \E n \in S : B[n] \cap S = {}

(* The right side of an equation for functions that looks below only.       *)
Looks(N, V, B, D) ==
  /\ V # {}
  /\ D \in [[N -> V] -> [N -> V]]
  /\ \A g, h \in [N -> V], n \in N : (\A m \in B[n] : g[m] = h[m]) => D[g][n] = D[h][n]

(* Such an equation has a solution. *)
LEMMA RecursiveFunction ==
  ASSUME NEW N, NEW V, NEW B, NEW D, Below(N, B), Looks(N, V, B, D)
  PROVE  \E f \in [N -> V] : f = D[f]
<1>0. ASSUME NEW g \in [N -> V], NEW h \in [N -> V], NEW n \in N, \A m \in B[n] : g[m] = h[m]
      PROVE  D[g][n] = D[h][n]
  BY <1>0 DEF Looks
<1> USE DEF Below, Looks
<1> DEFINE Closed(S) == \A n \in S : B[n] \subseteq S
           Solves(g, S) == g \in [N -> V] /\ \A n \in S : g[n] = D[g][n]
           Part(S) == S \in SUBSET N /\ Closed(S) /\ \E g : Solves(g, S)
           U == {n \in N : \E S : Part(S) /\ n \in S}
           Is(n, v) == \E S, g : Part(S) /\ Solves(g, S) /\ n \in S /\ v = g[n]
           F == [n \in N |-> IF n \in U THEN CHOOSE v : Is(n, v) ELSE CHOOSE v \in V : TRUE]
<1>1. ASSUME NEW S, NEW T, Part(S), Part(T), NEW g, NEW h, Solves(g, S), Solves(h, T)
      PROVE  \A n \in S \cap T : g[n] = h[n]
  <2> DEFINE X == {n \in S \cap T : g[n] # h[n]}
  <2>1. SUFFICES ASSUME X # {} PROVE FALSE
    OBVIOUS
  <2>2. X \in SUBSET N
    BY <1>1
  <2>3. PICK n \in X : B[n] \cap X = {}
    BY <2>1, <2>2
  <2>4. \A m \in B[n] : g[m] = h[m]
    BY <1>1, <2>3
  <2>5. D[g][n] = D[h][n]
    <3>1. g \in [N -> V] /\ h \in [N -> V] /\ n \in N
      BY <1>1, <2>2
    <3> HIDE DEF Part, Solves, X
    <3> QED BY <1>0, <2>4, <3>1
  <2> QED BY <1>1, <2>3, <2>5
<1>2. ASSUME NEW S, Part(S), NEW g, Solves(g, S), NEW n \in S
      PROVE  n \in U /\ F[n] = g[n]
  <2>1. n \in U /\ n \in N
    BY <1>2
  <2>2. Is(n, g[n])
    BY <1>2
  <2>3. ASSUME NEW v, Is(n, v) PROVE v = g[n]
    <3>1. PICK T, h : Part(T) /\ Solves(h, T) /\ n \in T /\ v = h[n]
      BY <2>3
    <3>2. \A m \in S \cap T : g[m] = h[m]
      <4> HIDE DEF Part, Solves
      <4> QED BY <1>1, <1>2, <3>1
    <3> QED BY <1>2, <3>1, <3>2
  <2>4. (CHOOSE v : Is(n, v)) = g[n]
    BY <2>2, <2>3
  <2> QED BY <2>1, <2>4
<1>3. F \in [N -> V]
  <2> SUFFICES ASSUME NEW n \in N PROVE F[n] \in V
    OBVIOUS
  <2>1. CASE n \in U
    <3>1. PICK S, g : Part(S) /\ n \in S /\ Solves(g, S)
      BY <2>1
    <3>2. g \in [N -> V]
      BY <3>1
    <3> HIDE DEF F, Part, Solves, U
    <3>3. F[n] = g[n]
      BY <1>2, <3>1
    <3> QED BY <3>2, <3>3
  <2> QED BY <2>1
<1>4. Closed(U)
  OBVIOUS
<1>5. \A n \in U : F[n] = D[F][n]
  <2> SUFFICES ASSUME NEW n \in U PROVE F[n] = D[F][n]
    OBVIOUS
  <2>1. PICK S, g : Part(S) /\ n \in S /\ Solves(g, S)
    OBVIOUS
  <2>a. n \in N /\ B[n] \subseteq S /\ g \in [N -> V] /\ g[n] = D[g][n]
    BY <2>1
  <2> HIDE DEF F, Part, Solves, U
  <2>2. \A m \in B[n] : F[m] = g[m]
    BY <1>2, <2>1, <2>a
  <2>3. D[F][n] = D[g][n]
    BY <1>0, <1>3, <2>2, <2>a
  <2>4. F[n] = g[n]
    BY <1>2, <2>1
  <2> QED BY <2>a, <2>3, <2>4
<1>6. U = N
  <2> SUFFICES ASSUME N \ U # {} PROVE FALSE
    OBVIOUS
  <2> HIDE DEF F
  <2>1. PICK n \in N \ U : B[n] \cap (N \ U) = {}
    OBVIOUS
  <2> DEFINE G == [F EXCEPT ![n] = D[F][n]]
             W == U \cup {n}
  <2>2. D[F][n] \in V /\ G \in [N -> V]
    BY <1>3
  <2>3. B[n] \subseteq U /\ Closed(W)
    BY <1>4, <2>1
  <2>4. \A m \in U : G[m] = F[m]
    BY <1>3
  <2>5. \A m \in W : D[G][m] = D[F][m]
    <3> SUFFICES ASSUME NEW m \in W PROVE D[G][m] = D[F][m]
      OBVIOUS
    <3>1. \A k \in B[m] : G[k] = F[k]
      BY <1>4, <2>3, <2>4
    <3>2. m \in N
      OBVIOUS
    <3> HIDE DEF G, U, W
    <3> QED BY <1>0, <1>3, <2>2, <3>1, <3>2
  <2>6. \A m \in W : G[m] = D[G][m]
    <3>1. G[n] = D[F][n]
      BY <1>3
    <3> HIDE DEF G
    <3> QED BY <1>5, <2>4, <2>5, <3>1
  <2>7. Solves(G, W)
    BY <2>2, <2>6
  <2>8. Part(W)
    <3>1. W \in SUBSET N
      OBVIOUS
    <3> HIDE DEF Solves, G, U, W
    <3> QED BY <2>3, <2>7, <3>1
  <2>9. n \in W
    OBVIOUS
  <2> HIDE DEF Part, W
  <2> QED BY <2>1, <2>8, <2>9
<1>7. D[F] \in [N -> V]
  <2> HIDE DEF F
  <2> QED BY <1>3
<1>8. F = D[F]
  <2> HIDE DEF F, U
  <2>1. \A n \in N : F[n] = D[F][n]
    BY <1>5, <1>6
  <2> QED BY <1>3, <1>7, <2>1
<1> QED BY <1>3, <1>8

-----------------------------------------------------------------------------
(* The way from an expression to the root.                                  *)

Sides == {"left", "right"}

(* An expression other than a root has one parent. *)
LEMMA ParentOf ==
  ASSUME NEW n \in Node, n \notin Roots
  PROVE  /\ Parent(n) \in Node
         /\ n \in Children(Parent(n))
         /\ \A p \in Node : n \in Children(p) => p = Parent(n)
         /\ Side(n) \in Sides
<1>1. n # NULL
  BY TreeAssumption
<1>2. PICK p \in Node : n \in Children(p)
  BY ShapeAssumption
<1>3. Parent(n) \in Node /\ n \in {Left[Parent(n)], Right[Parent(n)]}
  BY <1>2 DEF Parent, Children
<1>4. n \in Children(Parent(n))
  BY <1>1, <1>3 DEF Children
<1>5. \A q \in Node : n \in Children(q) => q = Parent(n)
  BY <1>3, <1>4, ShapeAssumption
<1> QED BY <1>3, <1>4, <1>5 DEF Side, Sides

(* A root has none. *)
LEMMA RootsOnTop ==
  ASSUME NEW r \in Roots
  PROVE  r \in Node /\ \A p \in Node : r \notin Children(p)
<1>1. r \in Node
  BY TreeAssumption DEF Roots
<1>2. \A p \in Node : r \notin Children(p)
  BY ShapeAssumption
<1> QED BY <1>1, <1>2

(* One of them, the set of expressions upwards closed, is without parent.   *)
LEMMA TopDown ==
  ASSUME NEW S \in SUBSET Node, S # {}
  PROVE  \E n \in S : n \in Roots \/ Parent(n) \notin S
<1>1. PICK n \in S : \A p \in S : n \notin Children(p)
  BY ShapeAssumption
<1> QED BY <1>1, ParentOf

LEMMA BottomUp ==
  ASSUME NEW S \in SUBSET Node, S # {}
  PROVE  \E n \in S : Children(n) \cap S = {}
  BY ShapeAssumption

LEMMA UpDef ==
  /\ Up \in [Node -> Seq(Node \X Sides)]
  /\ \A n \in Node :
       Up[n] = IF n \in Roots THEN <<>> ELSE <<<<Parent(n), Side(n)>>>> \o Up[Parent(n)]
<1> DEFINE V == Seq(Node \X Sides)
           E(g, n) == IF n \in Roots THEN <<>> ELSE <<<<Parent(n), Side(n)>>>> \o g[Parent(n)]
           D == [g \in [Node -> V] |-> [n \in Node |-> E(g, n)]]
           B == [n \in Node |-> IF n \in Roots THEN {} ELSE {Parent(n)}]
<1>1. Up = CHOOSE f : f = [n \in Node |-> E(f, n)]
  BY DEF Up
<1>2. ASSUME NEW g \in [Node -> V], NEW n \in Node PROVE E(g, n) \in V
  <2>1. CASE n \in Roots
    BY <2>1
  <2>2. CASE n \notin Roots
    <3>1. <<<<Parent(n), Side(n)>>>> \in V /\ g[Parent(n)] \in V
      BY <2>2, ParentOf
    <3> QED BY <2>2, <3>1, ConcatProperties
  <2> QED BY <2>1, <2>2
<1>3. \A S \in SUBSET Node : S # {} => \E n \in S : B[n] \cap S = {}
  BY TopDown
<1>4. B \in [Node -> SUBSET Node]
  BY ParentOf
<1>5. ASSUME NEW g \in [Node -> V], NEW h \in [Node -> V], NEW n \in Node, \A m \in B[n] : g[m] = h[m]
      PROVE  D[g][n] = D[h][n]
  <2>1. E(g, n) = E(h, n)
    BY <1>5
  <2> HIDE DEF E
  <2> QED BY <2>1
<1>6. D \in [[Node -> V] -> [Node -> V]]
  BY <1>2
<1>7. V # {}
  <2>1. <<>> \in V
    BY EmptySeq
  <2> QED BY <2>1
<1>8. PICK f \in [Node -> V] : f = D[f]
  <2> HIDE DEF D, B, V
  <2>1. Below(Node, B) /\ Looks(Node, V, B, D)
    BY <1>3, <1>4, <1>5, <1>6, <1>7 DEF Below, Looks
  <2> QED BY <2>1, RecursiveFunction
<1>9. f = [n \in Node |-> E(f, n)]
  BY <1>8
<1>10. Up = [n \in Node |-> E(Up, n)]
  BY <1>1, <1>9
<1>11. \A n \in Node : Up[n] = f[n]
  <2> DEFINE X == {n \in Node : Up[n] # f[n]}
  <2>1. SUFFICES ASSUME X # {} PROVE FALSE
    OBVIOUS
  <2>2. PICK n \in X : n \in Roots \/ Parent(n) \notin X
    BY <2>1, TopDown
  <2>3. E(Up, n) = E(f, n)
    BY <2>2, ParentOf
  <2> HIDE DEF E
  <2> QED BY <1>9, <1>10, <2>2, <2>3
<1>12. Up = f
  BY <1>8, <1>10, <1>11
<1> QED BY <1>8, <1>10, <1>12

(* The same for the table of them: the first bit above an expression is that *)
(* of its parent, the others are those above the parent.                     *)
LEMMA PathDef ==
  ASSUME NEW n \in Node
  PROVE  /\ Path[n] \in Seq(Node \X Sides)
         /\ n \in Roots => Path[n] = <<>> /\ Top[n] = n
         /\ n \notin Roots =>
              /\ Len(Path[n]) = Len(Path[Parent(n)]) + 1
              /\ Path[n][1] = <<Parent(n), Side(n)>>
              /\ \A i \in DOMAIN Path[Parent(n)] : Path[n][i + 1] = Path[Parent(n)][i]
              /\ ToSet(Path[n]) = {<<Parent(n), Side(n)>>} \cup ToSet(Path[Parent(n)])
              /\ Top[n] = Top[Parent(n)]
<1>1. Path[n] = Up[n] /\ Up[n] \in Seq(Node \X Sides)
  BY UpDef DEF Path
<1>2. CASE n \in Roots
  BY <1>1, <1>2, UpDef DEF Top
<1>3. CASE n \notin Roots
  <2> DEFINE p == Parent(n)
             u == Path[p]
             e == <<p, Side(n)>>
  <2>1. p \in Node /\ e \in Node \X Sides
    BY <1>3, ParentOf
  <2>2. u \in Seq(Node \X Sides) /\ Path[n] = <<e>> \o u
    BY <1>1, <1>3, <2>1, UpDef DEF Path
  <2> HIDE DEF u, e
  <2>3. <<e>> \in Seq(Node \X Sides) /\ Len(<<e>>) = 1 /\ <<e>>[1] = e
    BY <2>1
  <2>4. /\ Len(Path[n]) = Len(u) + 1
        /\ Path[n][1] = e
        /\ \A i \in DOMAIN u : Path[n][i + 1] = u[i]
    BY <2>2, <2>3, ConcatProperties, LenProperties
  <2>5. DOMAIN Path[n] = 1..(Len(u) + 1) /\ DOMAIN u = 1..Len(u) /\ Len(u) \in Nat
    BY <1>1, <2>2, <2>4, LenProperties
  <2>6. ToSet(Path[n]) = {e} \cup ToSet(u)
    <3>1. ASSUME NEW i \in DOMAIN Path[n] PROVE Path[n][i] \in {e} \cup ToSet(u)
      <4>1. CASE i = 1
        BY <2>4, <4>1
      <4>2. CASE i # 1
        <5>1. i - 1 \in DOMAIN u /\ (i - 1) + 1 = i
          BY <2>5, <4>2
        <5>2. Path[n][(i - 1) + 1] = u[i - 1]
          BY <2>4, <5>1
        <5>3. u[i - 1] \in ToSet(u)
          BY <5>1 DEF ToSet
        <5> QED BY <5>1, <5>2, <5>3
      <4> QED BY <4>1, <4>2
    <3>2. e \in ToSet(Path[n])
      BY <2>4, <2>5 DEF ToSet
    <3>3. ASSUME NEW i \in DOMAIN u PROVE u[i] \in ToSet(Path[n])
      <4>1. i + 1 \in DOMAIN Path[n] /\ Path[n][i + 1] = u[i]
        BY <2>4, <2>5
      <4> QED BY <4>1 DEF ToSet
    <3> QED BY <3>1, <3>2, <3>3 DEF ToSet
  <2>7. Top[n] = Top[p]
    <3>1. Top[n] = Path[n][Len(Path[n])][1]
      BY <1>3 DEF Top, Last
    <3>2. CASE p \in Roots
      <4>1. u = <<>> /\ Top[p] = p
        BY <2>1, <3>2, UpDef DEF Path, Top, u
      <4>2. Len(Path[n]) = 1
        BY <2>4, <4>1
      <4>3. Top[n] = e[1]
        BY <2>4, <3>1, <4>2
      <4> QED BY <4>1, <4>3 DEF e
    <3>3. CASE p \notin Roots
      <4>1. Top[p] = u[Len(u)][1]
        BY <2>1, <3>3 DEF Top, Last, u
      <4>2. Len(u) >= 1
        <5>1. u = <<<<Parent(p), Side(p)>>>> \o Up[Parent(p)]
          BY <2>1, <3>3, UpDef DEF Path, u
        <5>2. <<<<Parent(p), Side(p)>>>> \in Seq(Node \X Sides) /\ Up[Parent(p)] \in Seq(Node \X Sides)
          BY <2>1, <3>3, ParentOf, UpDef
        <5>3. Len(u) = Len(<<<<Parent(p), Side(p)>>>>) + Len(Up[Parent(p)])
          BY <5>1, <5>2, ConcatProperties
        <5> QED BY <5>2, <5>3, LenProperties
      <4>3. Len(u) \in DOMAIN u
        BY <2>5, <4>2
      <4>4. Path[n][Len(Path[n])] = u[Len(u)]
        BY <2>4, <4>3
      <4> QED BY <3>1, <4>1, <4>4
    <3> QED BY <3>2, <3>3
  <2> QED BY <1>1, <1>3, <2>4, <2>6, <2>7 DEF u, e
<1> QED BY <1>2, <1>3

(* The bits between an expression and its root. *)
Way(n) == ToSet(Path[n])

LEMMA WayDef ==
  ASSUME NEW n \in Node
  PROVE  /\ Way(n) \subseteq Node \X Sides
         /\ n \in Roots => Way(n) = {} /\ Top[n] = n
         /\ n \notin Roots => /\ Way(n) = {<<Parent(n), Side(n)>>} \cup Way(Parent(n))
                              /\ Top[n] = Top[Parent(n)]
<1>1. Way(n) \subseteq Node \X Sides
  BY PathDef DEF Way, ToSet
<1>2. n \in Roots => Way(n) = {}
  BY PathDef DEF Way, ToSet
<1> QED BY <1>1, <1>2, PathDef DEF Way

(* It ends at the root, and goes through expressions of the same tree, the  *)
(* ways of which it contains.                                               *)
LEMMA WayUp ==
  ASSUME NEW n \in Node
  PROVE  /\ Top[n] \in Roots
         /\ n \notin Roots => \E side \in Sides : <<Top[n], side>> \in Way(n)
         /\ \A b \in Way(n) : b[1] \in Node /\ Top[b[1]] = Top[n] /\ Way(b[1]) \subseteq Way(n)
<1> DEFINE Good(m) ==
             /\ Top[m] \in Roots
             /\ m \notin Roots => \E side \in Sides : <<Top[m], side>> \in Way(m)
             /\ \A b \in Way(m) : b[1] \in Node /\ Top[b[1]] = Top[m] /\ Way(b[1]) \subseteq Way(m)
           S == {m \in Node : ~Good(m)}
<1>1. SUFFICES ASSUME S # {} PROVE FALSE
  OBVIOUS
<1>2. PICK m \in S : m \in Roots \/ Parent(m) \notin S
  BY <1>1, TopDown
<1>3. CASE m \in Roots
  BY <1>2, <1>3, WayDef
<1>4. CASE m \notin Roots
  <2>1. /\ Parent(m) \in Node /\ Side(m) \in Sides
        /\ Way(m) = {<<Parent(m), Side(m)>>} \cup Way(Parent(m)) /\ Top[m] = Top[Parent(m)]
    BY <1>4, ParentOf, WayDef
  <2>2. Good(Parent(m))
    BY <1>2, <1>4, <2>1
  <2>3. Top[m] \in Roots
    BY <2>1, <2>2
  <2>4. \E side \in Sides : <<Top[m], side>> \in Way(m)
    <3>1. CASE Parent(m) \in Roots
      BY <2>1, <3>1, WayDef
    <3>2. CASE Parent(m) \notin Roots
      BY <2>1, <2>2, <3>2
    <3> QED BY <3>1, <3>2
  <2>5. \A b \in Way(m) : b[1] \in Node /\ Top[b[1]] = Top[m] /\ Way(b[1]) \subseteq Way(m)
    BY <2>1, <2>2
  <2> QED BY <1>2, <2>3, <2>4, <2>5
<1> QED BY <1>3, <1>4

(* Of two bits on a way, the later is on the way from the expression of the *)
(* earlier.                                                                 *)
LEMMA LaterOnWay ==
  ASSUME NEW n \in Node, NEW k \in DOMAIN Path[n], NEW j \in DOMAIN Path[n], k < j
  PROVE  Path[n][j] \in Way(Path[n][k][1])
<1> DEFINE Good(m) == \A x, y \in DOMAIN Path[m] : x < y => Path[m][y] \in Way(Path[m][x][1])
           S == {m \in Node : ~Good(m)}
<1>1. SUFFICES ASSUME S # {} PROVE FALSE
  OBVIOUS
<1>2. PICK m \in S : m \in Roots \/ Parent(m) \notin S
  BY <1>1, TopDown
<1>3. CASE m \in Roots
  BY <1>2, <1>3, PathDef
<1>4. CASE m \notin Roots
  <2> DEFINE u == Path[Parent(m)]
  <2>1. /\ Parent(m) \in Node
        /\ Path[m][1] = <<Parent(m), Side(m)>>
        /\ \A i \in DOMAIN u : Path[m][i + 1] = u[i]
        /\ Len(Path[m]) = Len(u) + 1
        /\ Path[m] \in Seq(Node \X Sides) /\ u \in Seq(Node \X Sides)
    BY <1>4, ParentOf, PathDef
  <2>2. \A i, l \in DOMAIN u : i < l => u[l] \in Way(u[i][1])
    BY <1>2, <1>4, <2>1
  <2>3. DOMAIN u = 1..Len(u) /\ DOMAIN Path[m] = 1..(Len(u) + 1) /\ Len(u) \in Nat
    BY <2>1, LenProperties
  <2>4. ASSUME NEW x \in DOMAIN Path[m], NEW y \in DOMAIN Path[m], x < y
        PROVE  Path[m][y] \in Way(Path[m][x][1])
    <3>1. y - 1 \in DOMAIN u /\ (y - 1) + 1 = y
      BY <2>3, <2>4
    <3>2. Path[m][y] = u[y - 1]
      BY <2>1, <3>1
    <3>3. CASE x = 1
      <4>1. u[y - 1] \in Way(Parent(m))
        BY <3>1 DEF Way, ToSet
      <4> QED BY <2>1, <3>2, <3>3, <4>1
    <3>4. CASE x # 1
      <4>1. x - 1 \in DOMAIN u /\ (x - 1) + 1 = x /\ x - 1 < y - 1
        BY <2>3, <2>4, <3>4
      <4>2. Path[m][x] = u[x - 1]
        BY <2>1, <4>1
      <4> QED BY <2>2, <3>1, <3>2, <4>1, <4>2
    <3> QED BY <3>3, <3>4
  <2> QED BY <1>2, <2>4
<1> QED BY <1>3, <1>4

-----------------------------------------------------------------------------
(* A change goes up.                                                        *)

(* Above a bit that is set all bits are set. *)
UpClosed(b) == \A e \in b : e[1] \in Node /\ Way(e[1]) \subseteq b

HasBit(b, n) == \E side \in Sides : <<n, side>> \in b

(* The walk up ends where all is set, so that afterwards all of the way is. *)
LEMMA ChangedBits ==
  ASSUME NEW acc, UpClosed(acc.bits), NEW n \in Node
  PROVE  /\ ExprChanged(acc, n).bits = acc.bits \cup Way(n)
         /\ UpClosed(ExprChanged(acc, n).bits)
<1> DEFINE b == acc.bits
<1>1. ExprChanged(acc, n).bits = b \cup {Path[n][i] : i \in BelowSet(b, n)}
  BY DEF ExprChanged
<1>2. {Path[n][i] : i \in BelowSet(b, n)} \subseteq Way(n)
  BY DEF BelowSet, Way, ToSet
<1>3. ASSUME NEW j \in DOMAIN Path[n]
      PROVE  Path[n][j] \in b \cup {Path[n][i] : i \in BelowSet(b, n)}
  <2>1. CASE j \in BelowSet(b, n)
    BY <2>1
  <2>2. CASE j \notin BelowSet(b, n)
    <3>1. PICK k \in 1..j : Path[n][k] \in b
      BY <2>2 DEF BelowSet
    <3>2. DOMAIN Path[n] = 1..Len(Path[n]) /\ Len(Path[n]) \in Nat
      BY PathDef, LenProperties
    <3>3. k \in DOMAIN Path[n] /\ (k = j \/ k < j)
      BY <3>1, <3>2
    <3>4. k < j => Path[n][j] \in Way(Path[n][k][1])
      BY <3>3, LaterOnWay
    <3> QED BY <3>1, <3>3, <3>4 DEF UpClosed
  <2> QED BY <2>1, <2>2
<1>4. Way(n) \subseteq b \cup {Path[n][i] : i \in BelowSet(b, n)}
  BY <1>3 DEF Way, ToSet
<1>5. ExprChanged(acc, n).bits = b \cup Way(n)
  BY <1>1, <1>2, <1>4
<1>6. UpClosed(b \cup Way(n))
  BY WayUp DEF UpClosed
<1> QED BY <1>5, <1>6

(* The root is reached if it had no bit. *)
LEMMA ChangedRoots ==
  ASSUME NEW acc, UpClosed(acc.bits), NEW n \in Node
  PROVE  LET new == ExprChanged(acc, n)
         IN  /\ acc.roots \subseteq new.roots /\ new.roots \subseteq acc.roots \cup {Top[n]}
             /\ \A r \in Roots : HasBit(new.bits, r) => HasBit(acc.bits, r) \/ r \in new.roots
<1> DEFINE new == ExprChanged(acc, n)
<1>1. new.roots = acc.roots \cup {r \in {Top[n]} : ReachesRoot(acc.bits, n)}
  BY DEF ExprChanged
<1>2. new.bits = acc.bits \cup Way(n)
  BY ChangedBits
<1> HIDE DEF new
<1>3. ASSUME NEW r \in Roots, HasBit(new.bits, r), ~HasBit(acc.bits, r)
      PROVE  r \in new.roots
  <2>1. PICK side \in Sides : <<r, side>> \in Way(n)
    BY <1>2, <1>3 DEF HasBit
  <2>2. Top[n] = r
    <3>1. Top[r] = Top[n] /\ r \in Node
      BY <2>1, WayUp
    <3> QED BY <3>1, WayDef
  <2>3. ASSUME NEW b \in Way(n), b \in acc.bits PROVE FALSE
    <3>1. b[1] \in Node /\ Top[b[1]] = r /\ Way(b[1]) \subseteq acc.bits /\ b \in Node \X Sides
      BY <2>2, <2>3, WayUp, WayDef DEF UpClosed
    <3>2. CASE b[1] \in Roots
      <4>1. b = <<r, b[2]>> /\ b[2] \in Sides
        BY <3>1, <3>2, WayDef
      <4> QED BY <1>3, <2>3, <4>1 DEF HasBit
    <3>3. CASE b[1] \notin Roots
      BY <1>3, <3>1, <3>3, WayUp DEF HasBit
    <3> QED BY <3>2, <3>3
  <2>4. BelowSet(acc.bits, n) = DOMAIN Path[n]
    <3>1. \A k \in DOMAIN Path[n] : Path[n][k] \notin acc.bits
      BY <2>3 DEF Way, ToSet
    <3>2. DOMAIN Path[n] = 1..Len(Path[n]) /\ Len(Path[n]) \in Nat
      BY PathDef, LenProperties
    <3>3. ASSUME NEW i \in DOMAIN Path[n], NEW k \in 1..i PROVE k \in DOMAIN Path[n]
      BY <3>2
    <3> QED BY <3>1, <3>3 DEF BelowSet
  <2> QED BY <1>1, <2>2, <2>4 DEF ReachesRoot
<1> QED BY <1>1, <1>3 DEF new

(* A non-empty set of natural numbers has a least element. *)
LEMMA LeastNatural ==
  ASSUME NEW S, S \subseteq Nat, S # {}
  PROVE  \E x \in S : \A y \in S : x <= y
<1>1. PICK x \in S : \A y \in S : ~(<<y, x>> \in OpToRel(<, Nat))
  BY NatLessThanWellFounded, WFMin
<1>2. \A y \in S : ~(y < x)
  BY <1>1 DEF OpToRel
<1>3. \A y \in S : x <= y
  BY <1>2
<1> QED BY <1>3

(* All uses of a signal. *)
Uses(sig) == ToSet(Exps[sig])

LEMMA UsesOf ==
  ASSUME NEW sig \in Signal
  PROVE  Uses(sig) = {n \in Node : Kind[n] = "SIG" /\ SigOf[n] = sig}
<1>1. ASSUME NEW n \in Uses(sig) PROVE n \in Node /\ Kind[n] = "SIG" /\ SigOf[n] = sig
  <2>1. Exps[sig] \in Seq(Node)
    BY TreeAssumption
  <2>2. n \in Node
    BY <1>1, <2>1 DEF Uses, ToSet
  <2> QED BY <1>1, <2>2, ShapeAssumption DEF Uses
<1>2. ASSUME NEW n \in Node, Kind[n] = "SIG", SigOf[n] = sig PROVE n \in Uses(sig)
  BY <1>2, ShapeAssumption DEF Uses
<1> QED BY <1>1, <1>2

(* What one change does: the ways of all uses are set, and the roots without *)
(* a bit that are reached are found.                                        *)
LEMMA PropagatedIs ==
  ASSUME NEW sig \in Signal, UpClosed(bits), bits \subseteq Node \X Sides
  PROVE  /\ Propagated(sig).bits = bits \cup UNION {Way(n) : n \in Uses(sig)}
         /\ UpClosed(Propagated(sig).bits)
         /\ Propagated(sig).roots \subseteq {Top[n] : n \in Uses(sig)}
         /\ \A r \in Roots : HasBit(Propagated(sig).bits, r) =>
              HasBit(bits, r) \/ r \in Propagated(sig).roots
<1> DEFINE len == Len(Exps[sig])
           N == 0..len
           V == [bits : SUBSET (Node \X Sides), roots : SUBSET Roots]
           B == [i \in N |-> {i - 1} \cap N]
           E(g, i) == IF i = 0 THEN [bits |-> bits, roots |-> {}]
                      ELSE ExprChanged(g[i - 1], Exps[sig][i])
           D == [g \in [N -> V] |-> [i \in N |-> E(g, i)]]
           Walk == CHOOSE f : f = [i \in N |-> E(f, i)]
<1>1. Propagated(sig) = Walk[len]
  BY DEF Propagated
<1>2. Exps[sig] \in Seq(Node) /\ len \in Nat /\ DOMAIN Exps[sig] = 1..len
  BY TreeAssumption, LenProperties
<1>3. ASSUME NEW g \in [N -> V], NEW i \in N PROVE E(g, i) \in V
  <2>1. CASE i = 0
    BY <2>1
  <2>2. CASE i # 0
    <3>1. i - 1 \in N /\ Exps[sig][i] \in Node
      BY <1>2, <2>2
    <3>2. g[i - 1] \in V
      BY <3>1
    <3>3. ASSUME NEW acc \in V, NEW n \in Node PROVE ExprChanged(acc, n) \in V
      <4>1. {Path[n][k] : k \in BelowSet(acc.bits, n)} \subseteq Node \X Sides
        BY WayDef DEF BelowSet, Way, ToSet
      <4>2. Top[n] \in Roots
        BY WayUp
      <4> QED BY <4>1, <4>2 DEF ExprChanged
    <3> HIDE DEF V, N
    <3> QED BY <2>2, <3>1, <3>2, <3>3
  <2> QED BY <2>1, <2>2
<1>4. Below(N, B)
  <2>1. ASSUME NEW S \in SUBSET N, S # {} PROVE \E n \in S : B[n] \cap S = {}
    <3>1. S \subseteq Nat
      BY <1>2
    <3>2. PICK n \in S : \A m \in S : n <= m
      BY <2>1, <3>1, LeastNatural
    <3>3. n \in Nat /\ ~(n <= n - 1)
      BY <3>1
    <3>4. n - 1 \notin S
      BY <3>2, <3>3
    <3> QED BY <3>4
  <2> QED BY <2>1 DEF Below
<1>5. Looks(N, V, B, D)
  <2>1. [bits |-> {}, roots |-> {}] \in V
    OBVIOUS
  <2>2. ASSUME NEW g \in [N -> V], NEW h \in [N -> V], NEW i \in N, \A m \in B[i] : g[m] = h[m]
        PROVE  D[g][i] = D[h][i]
    <3>1. i # 0 => i - 1 \in B[i]
      BY <1>2
    <3>2. E(g, i) = E(h, i)
      BY <2>2, <3>1
    <3> HIDE DEF E, N, V
    <3> QED BY <3>2
  <2>3. D \in [[N -> V] -> [N -> V]]
    <3> HIDE DEF E, N, V
    <3> QED BY <1>3
  <2>4. V # {}
    BY <2>1
  <2> HIDE DEF N, V, B, D
  <2> QED BY <2>2, <2>3, <2>4 DEF Looks
<1>6. \E f \in [N -> V] : f = D[f]
  <2> HIDE DEF N, V, B, D
  <2> QED BY <1>4, <1>5, RecursiveFunction
<1>7. \E f : f = [i \in N |-> E(f, i)]
  BY <1>6
<1>8. Walk = [i \in N |-> E(Walk, i)]
  <2> HIDE DEF N, E
  <2> QED BY <1>7
<1> HIDE DEF Walk
<1>9. /\ Walk[0] = [bits |-> bits, roots |-> {}]
      /\ \A i \in 1..len : Walk[i] = ExprChanged(Walk[i - 1], Exps[sig][i])
  <2>1. \A i \in N : Walk[i] = E(Walk, i)
    <3> HIDE DEF N, E
    <3> QED BY <1>8
  <2>2. 0 \in N /\ \A i \in 1..len : i \in N /\ i # 0
    BY <1>2
  <2> HIDE DEF N
  <2> QED BY <2>1, <2>2
<1> DEFINE Good(i) ==
             /\ Walk[i].bits = bits \cup UNION {Way(Exps[sig][k]) : k \in 1..i}
             /\ UpClosed(Walk[i].bits)
             /\ Walk[i].roots \subseteq {Top[n] : n \in Uses(sig)}
             /\ \A r \in Roots : HasBit(Walk[i].bits, r) => HasBit(bits, r) \/ r \in Walk[i].roots
           Bad == {i \in N : ~Good(i)}
<1>10. Good(0)
  BY <1>9
<1>11. ASSUME NEW i \in 1..len, Good(i - 1) PROVE Good(i)
  <2> DEFINE n == Exps[sig][i]
             acc == Walk[i - 1]
  <2>1. n \in Node /\ n \in Uses(sig)
    BY <1>2 DEF Uses, ToSet
  <2>2. Walk[i] = ExprChanged(acc, n)
    BY <1>9
  <2>3. UpClosed(acc.bits)
    BY <1>11
  <2> HIDE DEF acc
  <2>4. Walk[i].bits = acc.bits \cup Way(n) /\ UpClosed(Walk[i].bits)
    BY <2>1, <2>2, <2>3, ChangedBits
  <2>5. /\ acc.roots \subseteq Walk[i].roots /\ Walk[i].roots \subseteq acc.roots \cup {Top[n]}
        /\ \A r \in Roots : HasBit(Walk[i].bits, r) => HasBit(acc.bits, r) \/ r \in Walk[i].roots
    BY <2>1, <2>2, <2>3, ChangedRoots
  <2>6. 1..i = (1..(i - 1)) \cup {i}
    BY <1>2
  <2>7. UNION {Way(Exps[sig][k]) : k \in 1..i}
          = (UNION {Way(Exps[sig][k]) : k \in 1..(i - 1)}) \cup Way(n)
    BY <2>6
  <2>8. Walk[i].bits = bits \cup UNION {Way(Exps[sig][k]) : k \in 1..i}
    BY <1>11, <2>4, <2>7 DEF acc
  <2>9. Walk[i].roots \subseteq {Top[m] : m \in Uses(sig)}
    <3>1. Top[n] \in {Top[m] : m \in Uses(sig)}
      BY <2>1
    <3> QED BY <1>11, <2>5, <3>1 DEF acc
  <2>10. \A r \in Roots : HasBit(Walk[i].bits, r) => HasBit(bits, r) \/ r \in Walk[i].roots
    BY <1>11, <2>5 DEF acc
  <2> QED BY <2>4, <2>8, <2>9, <2>10
<1>12. Bad = {}
  <2> SUFFICES ASSUME Bad # {} PROVE FALSE
    OBVIOUS
  <2>1. PICK i \in Bad : B[i] \cap Bad = {}
    BY <1>4 DEF Below
  <2> HIDE DEF Good
  <2>2. i # 0
    BY <1>10, <2>1
  <2>3. i \in 1..len /\ i - 1 \in N
    BY <1>2, <2>1, <2>2
  <2>4. Good(i - 1)
    BY <2>1, <2>3
  <2> QED BY <1>11, <2>1, <2>3, <2>4
<1>13. Good(len)
  <2> HIDE DEF Good
  <2> QED BY <1>2, <1>12
<1>14. {Way(Exps[sig][k]) : k \in 1..len} = {Way(n) : n \in Uses(sig)}
  BY <1>2 DEF Uses, ToSet
<1> QED BY <1>1, <1>13, <1>14

-----------------------------------------------------------------------------
(* The values of expressions.                                               *)

LEMMA ChildrenOf ==
  ASSUME NEW n \in Node
  PROVE  /\ Children(n) \subseteq Node
         /\ Left[n] \in Node => Left[n] \in Children(n)
         /\ Right[n] \in Node => Right[n] \in Children(n)
  BY TreeAssumption DEF Children

(* The children, as a function. *)
ChildSets == [n \in Node |-> Children(n)]

LEMMA ChildrenBelow == Below(Node, ChildSets)
<1>1. ChildSets \in [Node -> SUBSET Node]
  BY ChildrenOf DEF ChildSets
<1>2. ASSUME NEW S \in SUBSET Node, S # {} PROVE \E n \in S : ChildSets[n] \cap S = {}
  BY <1>2, BottomUp DEF ChildSets
<1> QED BY <1>1, <1>2 DEF Below

(* Without system functions no bit stays set. *)
LEMMA NothingStays ==
  ASSUME \A n \in Node : Kind[n] # "TIME"
  PROVE  \A n \in Node : ~ClearChanged[n]
<1> DEFINE V == BOOLEAN
           E(g, n) == \E c \in Children(n) : Kind[c] = "TIME" \/ g[c]
           D == [g \in [Node -> V] |-> [n \in Node |-> E(g, n)]]
<1>1. ClearChanged = CHOOSE f : f = [n \in Node |-> E(f, n)]
  BY DEF ClearChanged
<1>2. Looks(Node, V, ChildSets, D)
  <2>1. ASSUME NEW g \in [Node -> V], NEW h \in [Node -> V], NEW n \in Node,
               \A m \in ChildSets[n] : g[m] = h[m]
        PROVE  D[g][n] = D[h][n]
    <3>1. E(g, n) = E(h, n)
      BY <2>1 DEF ChildSets
    <3> HIDE DEF E
    <3> QED BY <3>1
  <2>2. D \in [[Node -> V] -> [Node -> V]]
    OBVIOUS
  <2> HIDE DEF D
  <2> QED BY <2>1, <2>2 DEF Looks
<1>3. \E f \in [Node -> V] : f = D[f]
  <2> HIDE DEF D, V
  <2> QED BY <1>2, ChildrenBelow, RecursiveFunction
<1>4. ClearChanged = [n \in Node |-> E(ClearChanged, n)]
  <2>1. \E f : f = [n \in Node |-> E(f, n)]
    BY <1>3
  <2> HIDE DEF E
  <2> QED BY <1>1, <2>1
<1> DEFINE S == {n \in Node : ClearChanged[n]}
<1>5. SUFFICES ASSUME S # {} PROVE FALSE
  OBVIOUS
<1>6. PICK n \in S : Children(n) \cap S = {}
  BY <1>5, BottomUp
<1>7. E(ClearChanged, n)
  BY <1>4, <1>6
<1> QED BY <1>6, <1>7, ChildrenOf

(* Worth, of given values of the signals and given stored values. *)
WorthOf(va, ol, n, S) ==
  LET v[m \in Node] ==
        IF Kind[m] = "SIG" THEN va[SigOf[m]]
        ELSE IF m \notin S \/ Kind[m] \notin ValueKind THEN ol[m]
        ELSE IF Kind[m] = "OR" THEN Or(v[Left[m]], v[Right[m]]) ELSE "0"
  IN  v[n]

LEMMA WorthIs ==
  ASSUME NEW n, NEW S
  PROVE  /\ Worth(n, S) = WorthOf(val, old, n, S)
         /\ Now(n) = WorthOf(val, old, n, Node)
         /\ Now(n)' = WorthOf(val', old', n, Node)
  BY DEF Worth, Now, WorthOf

(* What an expression is worth. *)
LEMMA WorthDef ==
  ASSUME NEW va \in [Signal -> Value], NEW ol \in [Node -> Value], NEW S, NEW n \in Node
  PROVE  /\ WorthOf(va, ol, n, S) \in Value
         /\ Kind[n] = "SIG" => WorthOf(va, ol, n, S) = va[SigOf[n]]
         /\ Kind[n] = "OR" /\ n \in S =>
              WorthOf(va, ol, n, S) = Or(WorthOf(va, ol, Left[n], S), WorthOf(va, ol, Right[n], S))
         /\ Kind[n] = "OR" /\ n \notin S => WorthOf(va, ol, n, S) = ol[n]
<1> DEFINE V == Value
           E(g, m) == IF Kind[m] = "SIG" THEN va[SigOf[m]]
                      ELSE IF m \notin S \/ Kind[m] \notin ValueKind THEN ol[m]
                      ELSE IF Kind[m] = "OR" THEN Or(g[Left[m]], g[Right[m]]) ELSE "0"
           D == [g \in [Node -> V] |-> [m \in Node |-> E(g, m)]]
           W == CHOOSE f : f = [m \in Node |-> E(f, m)]
<1>1. \A m : WorthOf(va, ol, m, S) = W[m]
  BY DEF WorthOf
<1>2. ASSUME NEW g, NEW m \in Node PROVE E(g, m) \in V
  <2>1. Or(g[Left[m]], g[Right[m]]) \in Value
    BY DEF Or, Value
  <2>2. Kind[m] = "SIG" => va[SigOf[m]] \in Value
    BY ShapeAssumption
  <2>3. ol[m] \in Value /\ "0" \in Value
    BY DEF Value
  <2> QED BY <2>1, <2>2, <2>3
<1>3. ASSUME NEW g, NEW h, NEW m \in Node, \A k \in ChildSets[m] : g[k] = h[k]
      PROVE  E(g, m) = E(h, m)
  <2>1. Kind[m] = "OR" => g[Left[m]] = h[Left[m]] /\ g[Right[m]] = h[Right[m]]
    BY <1>3, ChildrenOf, ShapeAssumption DEF ChildSets
  <2> QED BY <2>1
<1>4. Looks(Node, V, ChildSets, D)
  <2> HIDE DEF E
  <2>1. ASSUME NEW g \in [Node -> V], NEW h \in [Node -> V], NEW m \in Node,
               \A k \in ChildSets[m] : g[k] = h[k]
        PROVE  D[g][m] = D[h][m]
    BY <1>3, <2>1
  <2>2. D \in [[Node -> V] -> [Node -> V]]
    BY <1>2
  <2>3. V # {}
    BY DEF Value
  <2> HIDE DEF D, V
  <2> QED BY <2>1, <2>2, <2>3 DEF Looks
<1>5. \E f \in [Node -> V] : f = D[f]
  <2> HIDE DEF D, V
  <2> QED BY <1>4, ChildrenBelow, RecursiveFunction
<1>6. W = [m \in Node |-> E(W, m)]
  <2>1. \E f : f = [m \in Node |-> E(f, m)]
    BY <1>5
  <2> HIDE DEF E
  <2> QED BY <2>1
<1> HIDE DEF W
<1>7. W[n] = E(W, n)
  <2> HIDE DEF E
  <2> QED BY <1>6
<1>8. W[n] \in Value
  <2> HIDE DEF E
  <2> QED BY <1>2, <1>7
<1> QED BY <1>1, <1>7, <1>8 DEF ValueKind


-----------------------------------------------------------------------------
(* The evaluation of an event.                                              *)

LEMMA TreeIs ==
  ASSUME NEW r \in Roots
  PROVE  /\ Tree(r) = {n \in Node : Top[n] = r}
         /\ r \in Tree(r)
         /\ Visited(r) = {n \in Tree(r) : Way(n) \subseteq bits}
         /\ r \in Visited(r)
<1>1. Tree(r) = {n \in Node : Top[n] = r}
  BY DEF Tree, Trees
<1>2. r \in Node /\ Top[r] = r /\ Way(r) = {}
  BY RootsOnTop, WayDef
<1>3. Visited(r) = {n \in Tree(r) : Way(n) \subseteq bits}
  BY DEF Visited, Way, ToSet
<1> QED BY <1>1, <1>2, <1>3

LEMMA ChildOf ==
  ASSUME NEW n \in Node, NEW c \in Children(n)
  PROVE  /\ c \in Node /\ c \notin Roots /\ Parent(c) = n
         /\ Top[c] = Top[n]
         /\ Way(c) = {<<n, Side(c)>>} \cup Way(n)
         /\ Side(c) = IF Left[n] = c THEN "left" ELSE "right"
<1>1. c \in Node /\ c \notin Roots
  BY ChildrenOf, RootsOnTop
<1>2. Parent(c) = n
  BY <1>1, ParentOf
<1> QED BY <1>1, <1>2, WayDef DEF Side

LEMMA EdgeFiresType ==
  ASSUME NEW n \in Node, Kind[n] \in Edges, NEW v, NEW ef \in BOOLEAN
  PROVE  EdgeFires(n, v, ef) \in BOOLEAN
  BY DEF EdgeFires, Edge, Edges

LEMMA FiresIs ==
  ASSUME NEW r \in Roots, NEW ef \in BOOLEAN
  PROVE  /\ Fires(r, ef) \subseteq Tree(r)
         /\ \A n \in Tree(r) \ Visited(r) : n \in Fires(r, ef) <=> n \in evalT
         /\ \A n \in Visited(r) :
              /\ Kind[n] \in Edges =>
                   (n \in Fires(r, ef) <=> EdgeFires(n, Operand(n, Visited(r)), ef))
              /\ Kind[n] = "EOR" =>
                   (n \in Fires(r, ef) <=> Left[n] \in Fires(r, ef) \/ Right[n] \in Fires(r, ef))
              /\ Kind[n] = "SLIST" => (n \in Fires(r, ef) <=> Right[n] \in Fires(r, ef))
              /\ Kind[n] = "WAIT" => (n \in Fires(r, ef) <=> Operand(n, Visited(r)) = "1")
              /\ Kind[n] \in ValueKind => n \notin Fires(r, ef)
<1> DEFINE V == BOOLEAN
           S == Visited(r)
           E(g, n) == IF n \notin S THEN n \in evalT
                      ELSE \/ Kind[n] \in Edges /\ EdgeFires(n, Operand(n, S), ef)
                           \/ Kind[n] = "EOR" /\ (g[Left[n]] \/ g[Right[n]])
                           \/ Kind[n] = "SLIST" /\ g[Right[n]]
                           \/ Kind[n] = "WAIT" /\ Operand(n, S) = "1"
           D == [g \in [Node -> V] |-> [n \in Node |-> E(g, n)]]
           W == CHOOSE f : f = [n \in Node |-> E(f, n)]
<1>1. Fires(r, ef) = {n \in Tree(r) : W[n]}
  BY DEF Fires
<1>2. ASSUME NEW g, NEW n \in Node PROVE E(g, n) \in V
  <2> DEFINE F == \/ Kind[n] \in Edges /\ EdgeFires(n, Operand(n, S), ef)
                  \/ Kind[n] = "EOR" /\ (g[Left[n]] \/ g[Right[n]])
                  \/ Kind[n] = "SLIST" /\ g[Right[n]]
                  \/ Kind[n] = "WAIT" /\ Operand(n, S) = "1"
  <2>1. E(g, n) = IF n \notin S THEN n \in evalT ELSE F
    OBVIOUS
  <2>2. (n \in evalT) \in BOOLEAN /\ F \in BOOLEAN
    OBVIOUS
  <2> HIDE DEF E, F
  <2> QED BY <2>1, <2>2
<1>3. ASSUME NEW g, NEW h, NEW n \in Node, \A k \in ChildSets[n] : g[k] = h[k]
      PROVE  E(g, n) = E(h, n)
  <2>1. /\ Kind[n] \in {"EOR", "SLIST"} => g[Right[n]] = h[Right[n]]
        /\ Kind[n] = "EOR" => g[Left[n]] = h[Left[n]]
    BY <1>3, ChildrenOf, ShapeAssumption DEF ChildSets
  <2> QED BY <2>1
<1>4. Looks(Node, V, ChildSets, D)
  <2> HIDE DEF E
  <2>1. ASSUME NEW g \in [Node -> V], NEW h \in [Node -> V], NEW n \in Node,
               \A k \in ChildSets[n] : g[k] = h[k]
        PROVE  D[g][n] = D[h][n]
    BY <1>3, <2>1
  <2>2. D \in [[Node -> V] -> [Node -> V]]
    BY <1>2
  <2>3. V # {}
    OBVIOUS
  <2> HIDE DEF D, V
  <2> QED BY <2>1, <2>2, <2>3 DEF Looks
<1>5. \E f \in [Node -> V] : f = D[f]
  <2> HIDE DEF D, V
  <2> QED BY <1>4, ChildrenBelow, RecursiveFunction
<1>6. W = [n \in Node |-> E(W, n)]
  <2>1. \E f : f = [n \in Node |-> E(f, n)]
    BY <1>5
  <2> HIDE DEF E
  <2> QED BY <2>1
<1> HIDE DEF W
<1>7. \A n \in Node : W[n] = E(W, n)
  <2> HIDE DEF E
  <2> QED BY <1>6
<1>8. S \subseteq Tree(r) /\ Tree(r) \subseteq Node /\ Tree(r) = {n \in Node : Top[n] = r}
  BY TreeIs
<1>9. \A n \in Tree(r) : n \in Fires(r, ef) <=> E(W, n)
  <2> HIDE DEF E
  <2> QED BY <1>1, <1>7, <1>8
<1>10. \A n \in Tree(r) : Children(n) \subseteq Tree(r)
  BY <1>8, ChildOf
<1>11. ASSUME NEW n \in S
       PROVE  /\ Kind[n] \in {"EOR", "SLIST"} => (W[Right[n]] <=> Right[n] \in Fires(r, ef))
              /\ Kind[n] = "EOR" => (W[Left[n]] <=> Left[n] \in Fires(r, ef))
  <2>1. n \in Tree(r) /\ n \in Node
    BY <1>8
  <2>2. /\ Kind[n] \in {"EOR", "SLIST"} => Right[n] \in Tree(r)
        /\ Kind[n] = "EOR" => Left[n] \in Tree(r)
    BY <1>10, <2>1, ChildrenOf, ShapeAssumption
  <2> QED BY <1>1, <2>2
<1> HIDE DEF S
<1>12. ASSUME NEW n \in S, Kind[n] \in Edges
       PROVE  n \in Fires(r, ef) <=> EdgeFires(n, Operand(n, S), ef)
  <2>1. n \in Tree(r) /\ n \in Node
    BY <1>8
  <2> QED BY <1>9, <1>12, <2>1, EdgeFiresType DEF Edges
<1> QED BY <1>1, <1>8, <1>9, <1>11, <1>12 DEF S, ValueKind, Edges

-----------------------------------------------------------------------------
(* The invariant.                                                           *)

Types ==
  /\ val \in [Signal -> Value] /\ old \in [Node -> Value]
  /\ bits \subseteq Node \X Sides /\ evalT \subseteq Node
  /\ at \in [Thread -> {"event", "passed", "body"}]
  /\ state \in [Thread -> {"ACTIVE", "DELAYED", "WAITING"}]
  /\ first \in [Thread -> BOOLEAN]
  /\ moved \in [Thread -> SUBSET Signal]
  /\ seen = [t \in Thread |-> seen[t]]

Distinct(q) == \A i, j \in DOMAIN q : q[i] = q[j] => i = j

(* The queue holds the active threads, the always_comb threads that wait    *)
(* for the end of time 0 are delayed.                                       *)
Queues ==
  /\ queue \in Seq(Thread) /\ Distinct(queue)
  /\ \A t \in Thread : state[t] = "ACTIVE" <=> t \in ToSet(queue)
  /\ zero \in Seq(Comb) /\ Distinct(zero)
  /\ \A t \in ToSet(zero) : state[t] = "DELAYED"

(* A bit has a cause: a use of a signal, or a bit below. *)
Caused ==
  \A b \in bits : \E c \in Children(b[1]) :
    Side(c) = b[2] /\ (Kind[c] = "SIG" \/ HasBit(bits, c))

(* What is stored, and what an edge remembers, is current where no bits     *)
(* lead.                                                                    *)
Stored ==
  \A n \in Node :
    /\ Kind[n] = "OR" /\ Now(n) # old[n] => Way(n) \subseteq bits
    /\ Kind[n] \in {"PEDGE", "NEDGE"} /\ Now(Right[n]) # old[n] => Way(n) \subseteq bits

(* The bit of a signal's any-edge is the memory that it has moved. *)
MovedMarked ==
  \A t \in Thread : \A n \in EdgesOf[t] :
    Kind[n] = "AEDGE" /\ Kind[Right[n]] = "SIG" =>
      (SigOf[Right[n]] \in moved[t] <=> <<n, "right">> \in bits)

(* A thread that has waited and is still at its event: it has been woken by  *)
(* a bit, and its edges remember what there was when it began to wait.      *)
Armed ==
  \A t \in Thread : first[t] =>
    /\ at[t] = "event" /\ state[t] # "DELAYED"
    /\ state[t] = "ACTIVE" => HasBit(bits, Root[t])
    /\ \A n \in EdgesOf[t] : Kind[n] \in {"PEDGE", "NEDGE"} => old[n] = seen[t][n]

(* Below the roots only the forced lists of always_comb blocks that have    *)
(* not begun are true.                                                      *)
Forced ==
  \A n \in evalT \ Roots : \E t \in Comb :
    /\ n = Right[Root[t]] /\ ~first[t] /\ at[t] # "passed"
    /\ t \in ToSet(zero) \/ state[t] = "ACTIVE"

IInv ==
  /\ Types /\ Queues
  /\ UpClosed(bits) /\ Caused /\ ChangedMeansQueued
  /\ Stored /\ MovedMarked /\ Armed /\ Forced /\ NoMissedChange

(* A value only changes with a signal below. *)
LEMMA NowSame ==
  ASSUME PlainDesign,
         NEW va \in [Signal -> Value], NEW va2 \in [Signal -> Value],
         NEW ol \in [Node -> Value], NEW ol2 \in [Node -> Value],
         NEW n \in Node, Kind[n] \in ValueKind,
         WorthOf(va, ol, n, Node) # WorthOf(va2, ol2, n, Node)
  PROVE  \E m \in Node : /\ Kind[m] = "SIG" /\ va[SigOf[m]] # va2[SigOf[m]]
                         /\ Way(n) \subseteq Way(m) /\ Top[m] = Top[n]
<1> DEFINE Differs(k) == WorthOf(va, ol, k, Node) # WorthOf(va2, ol2, k, Node)
           Good(k) == \E m \in Node : /\ Kind[m] = "SIG" /\ va[SigOf[m]] # va2[SigOf[m]]
                                      /\ Way(k) \subseteq Way(m) /\ Top[m] = Top[k]
           S == {k \in Node : Kind[k] \in ValueKind /\ Differs(k) /\ ~Good(k)}
<1>1. SUFFICES ASSUME S # {} PROVE FALSE
  OBVIOUS
<1>2. PICK k \in S : Children(k) \cap S = {}
  BY <1>1, BottomUp
<1>3. k \in Node /\ Kind[k] \in {"SIG", "OR"} /\ Differs(k) /\ ~Good(k)
  BY <1>2 DEF PlainDesign, ValueKind
<1>4. CASE Kind[k] = "SIG"
  <2>1. va[SigOf[k]] # va2[SigOf[k]]
    BY <1>3, <1>4, WorthDef
  <2> QED BY <1>3, <1>4, <2>1
<1>5. CASE Kind[k] = "OR"
  <2>1. /\ Left[k] \in Children(k) /\ Right[k] \in Children(k)
        /\ Kind[Left[k]] \in ValueKind /\ Kind[Right[k]] \in ValueKind
    BY <1>3, <1>5, ChildrenOf, ShapeAssumption
  <2>2. Differs(Left[k]) \/ Differs(Right[k])
    BY <1>3, <1>5, WorthDef
  <2>3. PICK c \in Children(k) : Kind[c] \in ValueKind /\ Differs(c)
    BY <2>1, <2>2
  <2> HIDE DEF Differs
  <2>4. Good(c)
    BY <1>2, <1>3, <2>3, ChildrenOf
  <2>5. Way(k) \subseteq Way(c) /\ Top[c] = Top[k]
    BY <1>3, ChildOf
  <2>6. Good(k)
    BY <2>4, <2>5
  <2> QED BY <1>3, <2>6
<1> QED BY <1>3, <1>4, <1>5

(* What a partial evaluation computes is what a whole one would.            *)
LEMMA PartialIsWhole ==
  ASSUME PlainDesign, Types, Stored, NEW r \in Roots, NEW n \in Tree(r), Kind[n] \in ValueKind
  PROVE  Worth(n, Visited(r)) = Now(n)
<1> DEFINE A(k) == WorthOf(val, old, k, Visited(r))
           B(k) == WorthOf(val, old, k, Node)
           S == {k \in Tree(r) : Kind[k] \in ValueKind /\ A(k) # B(k)}
<1>1. /\ Tree(r) = {k \in Node : Top[k] = r}
      /\ Visited(r) = {k \in Tree(r) : Way(k) \subseteq bits}
  BY TreeIs
<1>2. S = {}
  <2> SUFFICES ASSUME S # {} PROVE FALSE
    OBVIOUS
  <2>1. S \in SUBSET Node
    BY <1>1
  <2>2. PICK k \in S : Children(k) \cap S = {}
    BY <2>1, BottomUp
  <2>3. k \in Node /\ k \in Tree(r) /\ Kind[k] \in {"SIG", "OR"} /\ A(k) # B(k)
    BY <1>1, <2>2 DEF PlainDesign, ValueKind
  <2>4. CASE Kind[k] = "SIG"
    BY <2>3, <2>4, WorthDef DEF Types
  <2>5. CASE Kind[k] = "OR"
    <3>1. /\ Left[k] \in Children(k) /\ Right[k] \in Children(k)
          /\ Kind[Left[k]] \in ValueKind /\ Kind[Right[k]] \in ValueKind
      BY <2>3, <2>5, ChildrenOf, ShapeAssumption
    <3>2. \A c \in Children(k) : c \in Tree(r)
      BY <1>1, <2>3, ChildOf
    <3>3. A(Left[k]) = B(Left[k]) /\ A(Right[k]) = B(Right[k])
      <4> HIDE DEF A, B
      <4> QED BY <2>2, <3>1, <3>2
    <3>4. CASE k \in Visited(r)
      BY <2>3, <2>5, <3>3, <3>4, WorthDef DEF Types
    <3>5. CASE k \notin Visited(r)
      <4>1. A(k) = old[k]
        BY <2>3, <2>5, <3>5, WorthDef DEF Types
      <4>2. Now(k) = old[k]
        BY <1>1, <2>3, <2>5, <3>5 DEF Stored
      <4> QED BY <2>3, <4>1, <4>2, WorthIs
    <3> QED BY <3>4, <3>5
  <2> QED BY <2>3, <2>4, <2>5
<1>3. A(n) = B(n)
  <2> HIDE DEF A, B
  <2> QED BY <1>2
<1> QED BY <1>3, WorthIs

(* An enumeration of a finite set holds its elements once. *)
LEMMA Enumeration ==
  ASSUME NEW S \in SUBSET Thread, NEW q \in SetToSeqs(S)
  PROVE  q \in Seq(Thread) /\ Distinct(q) /\ ToSet(q) = S
<1> DEFINE n == Cardinality(S)
<1>1. IsFiniteSet(S) /\ n \in Nat
  BY TreeAssumption, FS_Subset, FS_CardinalityType
<1> HIDE DEF n
<1>2. q \in [1..n -> S] /\ \A i, j \in 1..n : i # j => q[i] # q[j]
  BY DEF SetToSeqs, n
<1>3. q \in Seq(Thread) /\ Distinct(q)
  BY <1>1, <1>2 DEF Distinct
<1>4. q \in Injection(1..n, S)
  BY <1>2 DEF Injection, IsInjective
<1>5. IsFiniteSet(1..n) /\ Cardinality(1..n) = n
  BY <1>1, FS_Interval
<1>6. q \in Surjection(1..n, S)
  BY <1>1, <1>2, <1>4, <1>5, FS_Injection DEF n, Bijection
<1> QED BY <1>2, <1>3, <1>6 DEF Surjection, ToSet

(* The elements of a longer and of a shorter queue. *)
LEMMA ConcatDistinct ==
  ASSUME NEW T, NEW q \in Seq(T), NEW r \in Seq(T)
  PROVE  /\ q \o r \in Seq(T) /\ Len(q \o r) = Len(q) + Len(r)
         /\ \A i \in 1..Len(q) : (q \o r)[i] = q[i]
         /\ ToSet(q \o r) = ToSet(q) \cup ToSet(r)
         /\ Distinct(q) /\ Distinct(r) /\ ToSet(q) \cap ToSet(r) = {} => Distinct(q \o r)
<1> DEFINE c == q \o r
<1>1. /\ c \in Seq(T) /\ Len(c) = Len(q) + Len(r)
      /\ \A i \in 1..(Len(q) + Len(r)) : c[i] = IF i <= Len(q) THEN q[i] ELSE r[i - Len(q)]
  BY ConcatProperties
<1> HIDE DEF c
<1>2. /\ DOMAIN q = 1..Len(q) /\ DOMAIN r = 1..Len(r) /\ DOMAIN c = 1..(Len(q) + Len(r))
      /\ Len(q) \in Nat /\ Len(r) \in Nat
  BY <1>1
<1>3. \A i \in DOMAIN c : \/ i \in DOMAIN q /\ c[i] = q[i]
                          \/ i - Len(q) \in DOMAIN r /\ c[i] = r[i - Len(q)]
  BY <1>1, <1>2
<1>4. \A i \in DOMAIN q : i \in DOMAIN c /\ c[i] = q[i]
  BY <1>1, <1>2
<1>5. \A i \in DOMAIN r : i + Len(q) \in DOMAIN c /\ c[i + Len(q)] = r[i]
  BY <1>1, <1>2
<1>6. ToSet(c) = ToSet(q) \cup ToSet(r)
  <2>1. ToSet(c) \subseteq ToSet(q) \cup ToSet(r)
    BY <1>3 DEF ToSet
  <2>2. ToSet(q) \subseteq ToSet(c)
    BY <1>4 DEF ToSet
  <2>3. ToSet(r) \subseteq ToSet(c)
    BY <1>5 DEF ToSet
  <2> QED BY <2>1, <2>2, <2>3
<1>7. ASSUME Distinct(q), Distinct(r), ToSet(q) \cap ToSet(r) = {} PROVE Distinct(c)
  <2> SUFFICES ASSUME NEW i \in DOMAIN c, NEW j \in DOMAIN c, c[i] = c[j] PROVE i = j
    BY DEF Distinct
  <2>1. \A k \in DOMAIN q, l \in DOMAIN r : q[k] # r[l]
    BY <1>7 DEF ToSet
  <2>2. i \in Int /\ j \in Int
    BY <1>2
  <2>3. CASE i \in DOMAIN q /\ c[i] = q[i]
    BY <1>3, <1>7, <2>1, <2>3 DEF Distinct
  <2>4. CASE i - Len(q) \in DOMAIN r /\ c[i] = r[i - Len(q)]
    <3>1. j - Len(q) \in DOMAIN r /\ c[j] = r[j - Len(q)]
      BY <1>3, <2>1, <2>4
    <3>2. i - Len(q) = j - Len(q)
      BY <1>7, <2>4, <3>1 DEF Distinct
    <3> QED BY <1>2, <2>2, <3>2
  <2> QED BY <1>3, <2>3, <2>4
<1> QED BY <1>1, <1>4, <1>6, <1>7, <1>2 DEF c

LEMMA TailDistinct ==
  ASSUME NEW T, NEW q \in Seq(T), q # <<>>, Distinct(q)
  PROVE  /\ Tail(q) \in Seq(T) /\ Distinct(Tail(q)) /\ Head(q) = q[1]
         /\ Len(q) >= 1 /\ Len(Tail(q)) = Len(q) - 1
         /\ \A i \in 1..(Len(q) - 1) : Tail(q)[i] = q[i + 1]
         /\ Head(q) \in ToSet(q)
         /\ ToSet(Tail(q)) = ToSet(q) \ {Head(q)}
<1> DEFINE r == Tail(q)
<1>1. /\ r \in Seq(T) /\ Len(r) = Len(q) - 1 /\ Head(q) = q[1]
      /\ \A i \in 1..Len(r) : r[i] = q[i + 1]
  BY HeadTailProperties
<1> HIDE DEF r
<1>2. /\ Len(q) \in Nat /\ Len(q) >= 1
      /\ DOMAIN q = 1..Len(q) /\ DOMAIN r = 1..(Len(q) - 1)
  BY <1>1
<1>3. \A i, j \in DOMAIN q : q[i] = q[j] => i = j
  BY DEF Distinct
<1>4. Distinct(r)
  <2> SUFFICES ASSUME NEW i \in DOMAIN r, NEW j \in DOMAIN r, r[i] = r[j] PROVE i = j
    BY DEF Distinct
  <2>1. q[i + 1] = q[j + 1] /\ i + 1 \in DOMAIN q /\ j + 1 \in DOMAIN q
    BY <1>1, <1>2
  <2>2. i + 1 = j + 1
    BY <1>3, <2>1
  <2> QED BY <1>2, <2>2
<1>5. \A i \in DOMAIN r : i + 1 \in DOMAIN q /\ i + 1 # 1 /\ r[i] = q[i + 1]
  BY <1>1, <1>2
<1>6. \A i \in DOMAIN q : i # 1 => i - 1 \in DOMAIN r /\ r[i - 1] = q[i]
  BY <1>1, <1>2
<1>7. ToSet(r) = ToSet(q) \ {q[1]}
  <2>1. ToSet(r) \subseteq ToSet(q) \ {q[1]}
    BY <1>2, <1>3, <1>5 DEF ToSet
  <2>2. ToSet(q) \ {q[1]} \subseteq ToSet(r)
    BY <1>6 DEF ToSet
  <2> QED BY <2>1, <2>2
<1>8. q[1] \in ToSet(q)
  BY <1>2 DEF ToSet
<1> QED BY <1>1, <1>2, <1>4, <1>7, <1>8 DEF r

-----------------------------------------------------------------------------
(* The steps.                                                               *)

(* A bit on a way has a cause on the way. *)
LEMMA WayCaused ==
  ASSUME NEW n \in Node
  PROVE  \A b \in Way(n) : \E c \in Children(b[1]) : Side(c) = b[2] /\ (c = n \/ HasBit(Way(n), c))
<1> DEFINE Good(m) == \A b \in Way(m) : \E c \in Children(b[1]) : Side(c) = b[2] /\ (c = m \/ HasBit(Way(m), c))
           S == {m \in Node : ~Good(m)}
<1>1. SUFFICES ASSUME S # {} PROVE FALSE
  OBVIOUS
<1>2. PICK m \in S : m \in Roots \/ Parent(m) \notin S
  BY <1>1, TopDown
<1>3. CASE m \in Roots
  BY <1>2, <1>3, WayDef
<1>4. CASE m \notin Roots
  <2> DEFINE p == Parent(m)
  <2>1. p \in Node /\ m \in Children(p) /\ Way(m) = {<<p, Side(m)>>} \cup Way(p) /\ Side(m) \in Sides
    BY <1>2, <1>4, ParentOf, WayDef
  <2>2. Good(p)
    BY <1>2, <1>4, <2>1
  <2> HIDE DEF p
  <2>3. ASSUME NEW b \in Way(m)
        PROVE  \E c \in Children(b[1]) : Side(c) = b[2] /\ (c = m \/ HasBit(Way(m), c))
    <3>1. CASE b = <<p, Side(m)>>
      BY <2>1, <3>1
    <3>2. CASE b \in Way(p)
      <4>1. PICK c \in Children(b[1]) : Side(c) = b[2] /\ (c = p \/ HasBit(Way(p), c))
        BY <2>2, <3>2
      <4>2. HasBit(Way(m), c)
        BY <2>1, <4>1 DEF HasBit
      <4> QED BY <4>1, <4>2
    <3> QED BY <2>1, <3>1, <3>2
  <2> QED BY <1>2, <2>3
<1> QED BY <1>3, <1>4

LEMMA EdgesAre ==
  ASSUME NEW t \in Thread
  PROVE  /\ Root[t] \in Roots /\ Root[t] \in Node
         /\ \A n \in EdgesOf[t] :
              /\ n \in Node /\ n \in Tree(Root[t]) /\ Kind[n] \in Edges /\ Top[n] = Root[t]
              /\ Children(n) = {Right[n]} /\ Right[n] \in Node /\ Kind[Right[n]] \in ValueKind
              /\ Side(Right[n]) = "right" /\ Top[Right[n]] = Root[t]
              /\ Way(Right[n]) = {<<n, "right">>} \cup Way(n)
         /\ \A n \in Node : Top[n] = Root[t] /\ Kind[n] \in Edges => n \in EdgesOf[t]
<1>1. Root[t] \in Roots /\ Root[t] \in Node
  BY TreeAssumption DEF Roots
<1>2. Tree(Root[t]) = {n \in Node : Top[n] = Root[t]}
  BY <1>1, TreeIs
<1>3. EdgesOf[t] = {n \in Tree(Root[t]) : Kind[n] \in Edges}
  BY DEF EdgesOf
<1>4. ASSUME NEW n \in EdgesOf[t]
      PROVE  /\ Children(n) = {Right[n]} /\ Right[n] \in Node /\ Kind[Right[n]] \in ValueKind
             /\ Side(Right[n]) = "right" /\ Top[Right[n]] = Root[t]
             /\ Way(Right[n]) = {<<n, "right">>} \cup Way(n)
  <2>1. n \in Node /\ Kind[n] \in Edges /\ Top[n] = Root[t]
    BY <1>2, <1>3
  <2>2. Left[n] = NULL /\ Right[n] \in Node
    BY <2>1, ShapeAssumption
  <2>3. Children(n) = {Right[n]} /\ Right[n] # NULL
    BY <2>2, TreeAssumption DEF Children
  <2>4. Kind[Right[n]] \in ValueKind
    BY <2>1, <2>3, ShapeAssumption
  <2> QED BY <2>1, <2>2, <2>3, <2>4, ChildOf
<1> QED BY <1>1, <1>2, <1>3, <1>4

(* A use of a signal is below a root. *)
LEMMA UseBelowRoot ==
  ASSUME NEW m \in Node, Kind[m] = "SIG"
  PROVE  HasBit(Way(m), Top[m]) /\ Top[m] \in Roots
<1>1. m \notin Roots
  BY ShapeAssumption DEF EventKind, Edges
<1> QED BY <1>1, WayUp DEF HasBit

(* Steps that do not concern signals, bits and memories.                    *)
LEMMA QuietKeeps ==
  ASSUME IInv, Types', Queues', UNCHANGED <<val, bits, evalT, old, first, seen, moved>>,
         \A t \in Thread : first[t] => at'[t] = at[t] /\ state'[t] = state[t],
         \A t \in Thread : state'[t] = "WAITING" => state[t] = "WAITING",
         \A t \in Comb : at[t] # "passed" /\ (t \in ToSet(zero) \/ state[t] = "ACTIVE")
           => at'[t] # "passed" /\ (t \in ToSet(zero') \/ state'[t] = "ACTIVE")
  PROVE  IInv'
<1>1. \A n : Now(n)' = Now(n)
  BY WorthIs
<1>2. UpClosed(bits)' /\ Caused' /\ ChangedMeansQueued'
  BY DEF IInv, UpClosed, Caused, HasBit, ChangedMeansQueued
<1>3. Stored' /\ MovedMarked'
  BY <1>1 DEF IInv, Stored, MovedMarked
<1>4. Armed'
  BY DEF IInv, Armed, HasBit
<1>5. Forced'
  BY DEF IInv, Forced
<1>6. NoMissedChange'
  BY <1>1 DEF IInv, NoMissedChange
<1> QED BY <1>2, <1>3, <1>4, <1>5, <1>6 DEF IInv

(* A change of a signal, by a thread or the dumpfile. *)
LEMMA ChangeKeeps ==
  ASSUME PlainDesign, IInv, NEW sig \in Signal, NEW v \in Value, v # val[sig], Assign(sig, v),
         UNCHANGED <<evalT, old, first, zero, seen>>,
         at' \in [Thread -> {"event", "passed", "body"}],
         \A t \in Thread : /\ first[t] => at'[t] = at[t]
                           /\ at'[t] = "passed" => at[t] = "passed"
  PROVE  IInv'
<1> DEFINE P == Propagated(sig)
           new == UNION {Way(m) : m \in Uses(sig)}
<1>1. /\ val' = [val EXCEPT ![sig] = v]
      /\ bits' = P.bits
      /\ \E w \in SetToSeqs(Woken(sig)) : queue' = queue \o w
      /\ state' = [t \in Thread |-> IF t \in Woken(sig) THEN "ACTIVE" ELSE state[t]]
      /\ moved' = [t \in Thread |-> moved[t] \cup ({sig} \cap AnyEdge[t])]
  BY DEF Assign
<1>2. Types /\ Queues /\ UpClosed(bits)
  BY DEF IInv
<1>3. /\ P.bits = bits \cup new
      /\ UpClosed(P.bits)
      /\ P.roots \subseteq {Top[m] : m \in Uses(sig)}
      /\ \A r \in Roots : HasBit(P.bits, r) => HasBit(bits, r) \/ r \in P.roots
  BY <1>2, PropagatedIs DEF Types
<1>4. Woken(sig) = {t \in Thread : state[t] = "WAITING" /\ Root[t] \in P.roots}
  BY DEF Woken
<1> HIDE DEF P
<1>5. Uses(sig) = {m \in Node : Kind[m] = "SIG" /\ SigOf[m] = sig}
  BY UsesOf
<1>6. \A m \in Uses(sig) : Way(m) \subseteq bits' /\ HasBit(bits', Top[m]) /\ Top[m] \in Roots
  <2> SUFFICES ASSUME NEW m \in Uses(sig)
               PROVE  Way(m) \subseteq bits' /\ HasBit(bits', Top[m]) /\ Top[m] \in Roots
    OBVIOUS
  <2>1. Way(m) \subseteq bits'
    BY <1>1, <1>3
  <2> QED BY <1>5, <2>1, UseBelowRoot DEF HasBit
<1>7. \A b \in bits' : b \in bits \/ \E m \in Uses(sig) : b \in Way(m)
  BY <1>1, <1>3
<1>8. bits \subseteq bits'
  BY <1>1, <1>3
<1> HIDE DEF new
<1>9. Types'
  <2>1. bits' \subseteq Node \X Sides
    BY <1>2, <1>5, <1>7, WayDef DEF Types
  <2>2. val' \in [Signal -> Value] /\ moved' \in [Thread -> SUBSET Signal]
    BY <1>1, <1>2 DEF Types
  <2>3. state' \in [Thread -> {"ACTIVE", "DELAYED", "WAITING"}]
    BY <1>1, <1>2 DEF Types
  <2> QED BY <1>2, <2>1, <2>2, <2>3 DEF Types
<1>10. Queues'
  <2>1. PICK w \in SetToSeqs(Woken(sig)) : queue' = queue \o w
    BY <1>1
  <2>2. w \in Seq(Thread) /\ Distinct(w) /\ ToSet(w) = Woken(sig)
    BY <1>4, Enumeration
  <2>3. ToSet(queue) \cap ToSet(w) = {}
    BY <1>2, <1>4, <2>2 DEF Queues
  <2>4. queue' \in Seq(Thread) /\ Distinct(queue') /\ ToSet(queue') = ToSet(queue) \cup Woken(sig)
    BY <1>2, <2>1, <2>2, <2>3, ConcatDistinct DEF Queues
  <2>5. \A t \in Thread : state'[t] = "ACTIVE" <=> t \in ToSet(queue')
    BY <1>1, <1>2, <2>4 DEF Queues
  <2>6. \A t \in ToSet(zero) : t \in Thread
    BY <1>2, TreeAssumption DEF Queues, ToSet
  <2>7. \A t \in ToSet(zero) : state'[t] = "DELAYED"
    BY <1>1, <1>2, <1>4, <2>6 DEF Queues
  <2> QED BY <1>2, <2>4, <2>5, <2>7 DEF Queues, Distinct
<1>11. UpClosed(bits)'
  BY <1>1, <1>3 DEF UpClosed
<1>12. Caused'
  <2> SUFFICES ASSUME NEW b \in bits'
               PROVE  \E c \in Children(b[1]) : Side(c) = b[2] /\ (Kind[c] = "SIG" \/ HasBit(bits', c))
    BY DEF Caused, HasBit
  <2>1. CASE b \in bits
    BY <1>8, <2>1 DEF IInv, Caused, HasBit
  <2>2. CASE b \notin bits
    <3>1. PICK m \in Uses(sig) : b \in Way(m)
      BY <1>7, <2>2
    <3>2. PICK c \in Children(b[1]) : Side(c) = b[2] /\ (c = m \/ HasBit(Way(m), c))
      BY <1>5, <3>1, WayCaused
    <3>3. HasBit(Way(m), c) => HasBit(bits', c)
      BY <1>6 DEF HasBit
    <3> QED BY <1>5, <3>2, <3>3
  <2> QED BY <2>1, <2>2
<1>13. ASSUME NEW t \in Thread, state'[t] = "WAITING"
       PROVE  state[t] = "WAITING" /\ ~HasBit(bits', Root[t])
  <2>1. state[t] = "WAITING" /\ t \notin Woken(sig)
    BY <1>1, <1>13
  <2>2. Root[t] \notin P.roots /\ Root[t] \in Roots
    BY <1>4, <2>1, EdgesAre
  <2>3. ~HasBit(bits, Root[t])
    BY <2>1 DEF IInv, ChangedMeansQueued, HasBit, Sides
  <2> QED BY <1>1, <1>3, <2>1, <2>2, <2>3
<1>14. ChangedMeansQueued'
  BY <1>13 DEF ChangedMeansQueued, HasBit, Sides
<1>15. ASSUME NEW n \in Node, Kind[n] \in ValueKind, Now(n)' # Now(n)
       PROVE  \E m \in Uses(sig) : Way(n) \subseteq Way(m) /\ Top[m] = Top[n]
  <2>1. WorthOf(val, old, n, Node) # WorthOf(val', old', n, Node)
    BY <1>15, WorthIs
  <2>2. PICK m \in Node : /\ Kind[m] = "SIG" /\ val[SigOf[m]] # val'[SigOf[m]]
                          /\ Way(n) \subseteq Way(m) /\ Top[m] = Top[n]
    BY <1>2, <1>9, <1>15, <2>1, NowSame DEF Types
  <2>3. SigOf[m] = sig
    BY <1>1, <1>2, <2>2, ShapeAssumption DEF Types
  <2> QED BY <1>5, <2>2, <2>3
<1>16. Stored'
  <2> SUFFICES ASSUME NEW n \in Node
               PROVE  /\ Kind[n] = "OR" /\ Now(n)' # old[n] => Way(n) \subseteq bits'
                      /\ Kind[n] \in {"PEDGE", "NEDGE"} /\ Now(Right[n])' # old[n] => Way(n) \subseteq bits'
    BY DEF Stored
  <2>1. ASSUME NEW k \in Node, Kind[k] \in ValueKind, Now(k)' # Now(k) PROVE Way(k) \subseteq bits'
    BY <1>6, <1>15, <2>1
  <2>2. Kind[n] = "OR" /\ Now(n)' # old[n] => Way(n) \subseteq bits'
    BY <1>8, <2>1 DEF IInv, Stored, ValueKind
  <2>3. ASSUME Kind[n] \in {"PEDGE", "NEDGE"}, Now(Right[n])' # old[n] PROVE Way(n) \subseteq bits'
    <3>1. Right[n] \in Children(n) /\ Right[n] \in Node /\ Kind[Right[n]] \in ValueKind
      BY <2>3, ShapeAssumption, ChildrenOf DEF Edges
    <3>2. Way(n) \subseteq Way(Right[n])
      BY <3>1, ChildOf
    <3>3. CASE Now(Right[n])' # Now(Right[n])
      BY <2>1, <3>1, <3>2, <3>3
    <3>4. CASE Now(Right[n])' = Now(Right[n])
      BY <1>8, <2>3, <3>4 DEF IInv, Stored
    <3> QED BY <3>3, <3>4
  <2> QED BY <2>2, <2>3
<1>17. ASSUME NEW t \in Thread, NEW n \in EdgesOf[t], Kind[n] = "AEDGE", Kind[Right[n]] = "SIG"
       PROVE  SigOf[Right[n]] \in moved'[t] <=> <<n, "right">> \in bits'
  <2> DEFINE c == Right[n]
  <2>1. /\ n \in Node /\ c \in Node /\ Children(n) = {c} /\ Side(c) = "right"
        /\ Way(c) = {<<n, "right">>} \cup Way(n)
    BY EdgesAre
  <2>2. SigOf[c] \in Signal /\ SigOf[c] # NULL /\ Children(c) = {}
    BY <1>17, <2>1, ShapeAssumption, TreeAssumption
  <2>3. SigOf[c] \in AnyEdge[t]
    BY <1>17, <2>2 DEF AnyEdge
  <2>4. SigOf[c] \in moved'[t] <=> SigOf[c] \in moved[t] \/ SigOf[c] = sig
    BY <1>1, <2>3
  <2>5. SigOf[c] \in moved[t] <=> <<n, "right">> \in bits
    BY <1>17 DEF IInv, MovedMarked
  <2>6. SigOf[c] = sig => <<n, "right">> \in bits'
    BY <1>5, <1>6, <1>17, <2>1
  <2>7. ASSUME NEW m \in Uses(sig), <<n, "right">> \in Way(m) PROVE SigOf[c] = sig
    <3>1. c = m \/ HasBit(Way(m), c)
      BY <1>5, <2>1, <2>7, WayCaused
    <3>2. ASSUME NEW side \in Sides, <<c, side>> \in Way(m) PROVE FALSE
      BY <1>5, <2>2, <3>2, WayCaused
    <3> QED BY <1>5, <3>1, <3>2 DEF HasBit
  <2> QED BY <1>7, <1>8, <2>4, <2>5, <2>6, <2>7
<1>18. MovedMarked'
  BY <1>17 DEF MovedMarked
<1>19. Armed'
  <2> SUFFICES ASSUME NEW t \in Thread, first[t]
               PROVE  /\ at'[t] = "event" /\ state'[t] # "DELAYED"
                      /\ state'[t] = "ACTIVE" => HasBit(bits', Root[t])
                      /\ \A n \in EdgesOf[t] : Kind[n] \in {"PEDGE", "NEDGE"} => old[n] = seen[t][n]
    BY DEF Armed, HasBit
  <2>1. /\ at[t] = "event" /\ state[t] # "DELAYED"
        /\ state[t] = "ACTIVE" => HasBit(bits, Root[t])
        /\ \A n \in EdgesOf[t] : Kind[n] \in {"PEDGE", "NEDGE"} => old[n] = seen[t][n]
    BY DEF IInv, Armed
  <2>2. CASE t \in Woken(sig)
    <3>1. Root[t] \in P.roots
      BY <1>4, <2>2
    <3>2. PICK m \in Uses(sig) : Root[t] = Top[m]
      BY <1>3, <3>1
    <3>3. HasBit(bits', Root[t])
      BY <1>6, <3>2
    <3> QED BY <1>1, <2>1, <2>2, <3>3
  <2>3. CASE t \notin Woken(sig)
    <3>1. HasBit(bits, Root[t]) => HasBit(bits', Root[t])
      BY <1>8 DEF HasBit
    <3> QED BY <1>1, <2>1, <2>3, <3>1
  <2> QED BY <2>2, <2>3
<1>20. Forced'
  <2>1. \A t \in Thread : state[t] = "ACTIVE" => state'[t] = "ACTIVE"
    BY <1>1
  <2> QED BY <2>1, TreeAssumption DEF IInv, Forced
<1>21. NoMissedChange'
  <2> SUFFICES ASSUME NEW t \in Thread, state'[t] = "WAITING"
               PROVE  /\ \A n \in EdgesOf[t] : Now(Right[n])' = seen[t][n]
                      /\ moved'[t] = {}
                      /\ Kind[Root[t]] = "WAIT" => Now(Right[Root[t]])' # "1"
    BY DEF NoMissedChange
  <2>1. state[t] = "WAITING" /\ ~HasBit(bits', Root[t])
    BY <1>13
  <2>2. /\ \A n \in EdgesOf[t] : Now(Right[n]) = seen[t][n]
        /\ moved[t] = {}
        /\ Kind[Root[t]] = "WAIT" => Now(Right[Root[t]]) # "1"
    BY <2>1 DEF IInv, NoMissedChange
  <2>3. ASSUME NEW n \in Node, Kind[n] \in ValueKind, Top[n] = Root[t] PROVE Now(n)' = Now(n)
    BY <1>6, <1>15, <2>1, <2>3
  <2>4. \A n \in EdgesOf[t] : Now(Right[n])' = Now(Right[n])
    BY <2>3, EdgesAre
  <2>5. sig \notin AnyEdge[t]
    <3> SUFFICES ASSUME sig \in AnyEdge[t] PROVE FALSE
      OBVIOUS
    <3>1. PICK n \in EdgesOf[t] : SigOf[Right[n]] = sig
      BY DEF AnyEdge
    <3>2. Right[n] \in Node /\ Top[Right[n]] = Root[t]
      BY EdgesAre
    <3>3. Right[n] \in Uses(sig)
      BY <1>5, <3>1, <3>2, ShapeAssumption, TreeAssumption
    <3> QED BY <1>6, <2>1, <3>2, <3>3
  <2>6. moved'[t] = {}
    BY <1>1, <2>2, <2>5
  <2>7. Kind[Root[t]] = "WAIT" => Now(Right[Root[t]])' = Now(Right[Root[t]])
    <3> SUFFICES ASSUME Kind[Root[t]] = "WAIT" PROVE Now(Right[Root[t]])' = Now(Right[Root[t]])
      OBVIOUS
    <3>1. Root[t] \in Node /\ Root[t] \in Roots
      BY EdgesAre
    <3>2. Right[Root[t]] \in Children(Root[t]) /\ Kind[Right[Root[t]]] \in ValueKind
      BY <3>1, ShapeAssumption, ChildrenOf
    <3>3. Top[Right[Root[t]]] = Root[t] /\ Right[Root[t]] \in Node
      BY <3>1, <3>2, ChildOf, WayDef
    <3> QED BY <2>3, <3>2, <3>3
  <2> QED BY <2>2, <2>4, <2>6, <2>7
<1> QED BY <1>9, <1>10, <1>11, <1>12, <1>14, <1>16, <1>18, <1>19, <1>20, <1>21 DEF IInv

(* What a child may be. *)
LEMMA ChildKinds ==
  ASSUME NEW n \in Node, n \notin Roots
  PROVE  /\ Kind[n] \in ValueKind \cup EventKind
         /\ Kind[n] \in EventKind => Kind[Parent(n)] \in {"EOR", "SLIST"}
<1>1. Parent(n) \in Node /\ n \in Children(Parent(n))
  BY ParentOf
<1>2. Kind[Parent(n)] \in NodeKind
  BY <1>1, TreeAssumption
<1> QED BY <1>1, <1>2, ShapeAssumption DEF NodeKind, ValueKind, EventKind, Edges

(* An event that comes true makes the one above it true. *)
LEMMA FiredParent ==
  ASSUME NEW t \in Thread, NEW ef \in BOOLEAN,
         NEW n \in Fires(Root[t], ef) \cap Visited(Root[t]), n # Root[t]
  PROVE  /\ Parent(n) \in Fires(Root[t], ef) \cap Visited(Root[t])
         /\ Kind[Parent(n)] \in {"EOR", "SLIST"} /\ n \in Children(Parent(n))
<1> DEFINE r == Root[t]
           F == Fires(r, ef)
<1>1. r \in Roots /\ r \in Node
  BY EdgesAre
<1> HIDE DEF F, r
<1>2. /\ F \subseteq Tree(r) /\ Tree(r) = {m \in Node : Top[m] = r}
      /\ Visited(r) = {m \in Tree(r) : Way(m) \subseteq bits}
      /\ n \in F /\ n \in Visited(r) /\ n # r
  BY <1>1, FiresIs, TreeIs DEF F, r
<1>3. n \in Node /\ Top[n] = r /\ n \notin Roots
  BY <1>2, WayDef
<1>4. Kind[n] \in EventKind /\ Kind[Parent(n)] \in {"EOR", "SLIST"}
  BY <1>1, <1>2, <1>3, ChildKinds, FiresIs DEF F
<1>5. Parent(n) \in Node /\ n \in Children(Parent(n)) /\ Top[Parent(n)] = r /\ Way(Parent(n)) \subseteq Way(n)
  BY <1>3, ParentOf, WayDef
<1>6. Parent(n) \in Visited(r)
  BY <1>2, <1>5
<1>7. n \in {Left[Parent(n)], Right[Parent(n)]}
  BY <1>5 DEF Children
<1>8. Kind[Parent(n)] = "SLIST" => n = Right[Parent(n)]
  BY <1>5, <1>7, ShapeAssumption, TreeAssumption DEF Children
<1>9. Parent(n) \in F
  BY <1>1, <1>2, <1>4, <1>6, <1>7, <1>8, FiresIs DEF F
<1> QED BY <1>4, <1>5, <1>6, <1>9 DEF F, r

(* An event that comes true is used up, except at the root.                 *)
LEMMA UsedUp ==
  ASSUME PlainDesign, IInv, NEW t \in Thread, NEW ef \in BOOLEAN
  PROVE  Consumed(Root[t], Fires(Root[t], ef)) \subseteq {Root[t]}
<1> DEFINE r == Root[t]
           F == Fires(r, ef)
<1>1. r \in Roots /\ r \in Node
  BY EdgesAre
<1> HIDE DEF F, r
<1>2. /\ F \subseteq Tree(r) /\ Tree(r) = {n \in Node : Top[n] = r}
      /\ Visited(r) = {n \in Tree(r) : Way(n) \subseteq bits} /\ r \in Visited(r)
  BY <1>1, FiresIs, TreeIs DEF F
<1>3. SUFFICES ASSUME NEW n \in F, n # r
               PROVE  \E p \in F \cap Visited(r) : Kind[p] \in {"EOR", "SLIST"} /\ n \in Children(p)
  BY DEF Consumed, F, r
<1>4. n \in Node /\ Top[n] = r /\ n \notin Roots
  BY <1>2, <1>3, WayDef
<1>5. CASE n \in Visited(r)
  BY <1>3, <1>5, FiredParent DEF F, r
<1>6. CASE n \notin Visited(r)
  <2>1. n \in evalT
    BY <1>1, <1>2, <1>3, <1>6, FiresIs DEF F
  <2>2. PICK u \in Comb : n = Right[Root[u]]
    BY <1>4, <2>1 DEF IInv, Forced
  <2>3. Root[u] \in Roots /\ Root[u] \in Node /\ Kind[Root[u]] = "SLIST"
    BY EdgesAre, TreeAssumption
  <2>4. n \in Children(Root[u])
    BY <1>4, <2>2, <2>3, ChildrenOf
  <2>5. Root[u] = r
    BY <1>4, <2>3, <2>4, ChildOf, WayDef
  <2>6. r \in F
    BY <1>1, <1>2, <1>3, <2>2, <2>3, <2>5, FiresIs DEF F
  <2> QED BY <1>2, <2>3, <2>4, <2>5, <2>6
<1> QED BY <1>5, <1>6

(* One evaluation of an event. *)
LEMMA EvalKeeps ==
  ASSUME PlainDesign, IInv, NEW t \in Thread, Eval(t)
  PROVE  IInv'
<1> DEFINE r == Root[t]
           F == Fires(r, first[t])
<1>1. /\ queue # <<>> /\ t = Head(queue) /\ at[t] = "event"
      /\ bits' = Cleared(r)
      /\ evalT' = (evalT \ Tree(r)) \cup Consumed(r, F)
      /\ old' = Remembered(r, F)
      /\ r \in F => /\ at' = [at EXCEPT ![t] = "passed"]
                    /\ first' = [first EXCEPT ![t] = FALSE]
                    /\ state' = state /\ queue' = queue
      /\ r \notin F => /\ state' = [state EXCEPT ![t] = "WAITING"]
                       /\ first' = [first EXCEPT ![t] = TRUE]
                       /\ queue' = Tail(queue)
                       /\ at' = at
      /\ seen' = [seen EXCEPT ![t] = [n \in EdgesOf[t] |-> Now(Right[n])]]
      /\ moved' = [moved EXCEPT ![t] = {}]
      /\ val' = val /\ zero' = zero
  BY DEF Eval, Runs
<1>2. Types /\ Queues /\ UpClosed(bits) /\ first[t] \in BOOLEAN
  BY DEF IInv, Types
<1>3. r \in Roots /\ r \in Node
  BY EdgesAre
<1>4. Consumed(r, F) \subseteq {r}
  BY <1>2, UsedUp
<1>5. Kind[r] = "WAIT" => (r \in F <=> Operand(r, Visited(r)) = "1")
  BY <1>2, <1>3, FiresIs, TreeIs
<1> HIDE DEF F
<1>6. /\ Tree(r) = {n \in Node : Top[n] = r}
      /\ Visited(r) = {n \in Tree(r) : Way(n) \subseteq bits} /\ r \in Visited(r)
  BY <1>3, TreeIs
<1> HIDE DEF r
<1>7. bits' = {b \in bits : Top[b[1]] # r}
  <2>1. \A b \in bits : b[1] \in Node /\ ~ClearChanged[b[1]]
    BY <1>2, NothingStays DEF UpClosed, PlainDesign
  <2>2. \A b \in bits : b[1] \in Visited(r) <=> Top[b[1]] = r
    BY <1>2, <1>6, <2>1 DEF UpClosed
  <2> QED BY <1>1, <2>1, <2>2 DEF Cleared
<1>8. old' \in [Node -> Value]
  <2>1. \A n \in Node : Worth(n, Visited(r)) \in Value
    BY <1>2, WorthDef, WorthIs DEF Types
  <2>2. \A n \in Node : Kind[n] \in Edges => Operand(n, Visited(r)) \in Value
    BY <2>1, ShapeAssumption DEF Operand
  <2>3. \A n \in Node : old[n] \in Value
    BY <1>2 DEF Types
  <2>4. old' = [n \in Node |-> old'[n]]
    BY <1>1 DEF Remembered
  <2>5. ASSUME NEW n \in Node PROVE old'[n] \in Value
    BY <1>1, <2>1, <2>2, <2>3 DEF Remembered, Edges
  <2> QED BY <2>4, <2>5
<1>9. ASSUME NEW n \in Node, Kind[n] \in ValueKind PROVE Now(n)' = Now(n)
  <2>1. WorthOf(val, old, n, Node) = WorthOf(val', old', n, Node)
    BY <1>1, <1>2, <1>8, <1>9, NowSame DEF Types
  <2> QED BY <2>1, WorthIs
<1>10. ASSUME NEW n \in Node, n \notin Tree(r) PROVE old'[n] = old[n]
  BY <1>1, <1>6, <1>10 DEF Remembered
<1>11. ASSUME NEW n \in Tree(r), Kind[n] \in {"PEDGE", "NEDGE"} PROVE old'[n] = Now(Right[n])
  <2>1. n \in Node /\ Right[n] \in Children(n) /\ Right[n] \in Node /\ Kind[Right[n]] \in ValueKind
    BY <1>6, <1>11, ShapeAssumption, ChildrenOf DEF Edges
  <2>2. Right[n] \in Tree(r)
    BY <1>6, <2>1, ChildOf
  <2>3. Operand(n, Visited(r)) = Now(Right[n])
    BY <1>2, <1>3, <2>1, <2>2, PartialIsWhole DEF Operand, IInv, r
  <2>4. CASE n \in Visited(r)
    BY <1>1, <1>11, <2>1, <2>3, <2>4 DEF Remembered
  <2>5. CASE n \notin Visited(r)
    <3>1. old'[n] = old[n]
      BY <1>1, <2>1, <2>5 DEF Remembered
    <3> QED BY <1>6, <1>11, <2>1, <2>5, <3>1 DEF IInv, Stored
  <2> QED BY <2>4, <2>5
<1>12. ASSUME NEW n \in Tree(r), Kind[n] = "OR" PROVE old'[n] = Now(n)
  <2>1. n \in Node /\ Worth(n, Visited(r)) = Now(n)
    BY <1>2, <1>3, <1>6, <1>12, PartialIsWhole DEF IInv, ValueKind, r
  <2>2. CASE n \in Visited(r)
    BY <1>1, <1>12, <2>1, <2>2 DEF Remembered, Edges
  <2>3. CASE n \notin Visited(r)
    <3>1. old'[n] = old[n]
      BY <1>1, <2>1, <2>3 DEF Remembered
    <3> QED BY <1>6, <1>12, <2>1, <2>3, <3>1 DEF IInv, Stored
  <2> QED BY <2>2, <2>3
<1>13. \A u \in Thread : Root[u] \in Roots /\ Root[u] \in Node /\ Top[Root[u]] = Root[u] /\ (Root[u] = r => u = t)
  BY EdgesAre, WayDef DEF PlainDesign, r
<1>14. Types'
  <2>1. bits' \subseteq Node \X Sides
    BY <1>2, <1>7 DEF Types
  <2>2. evalT' \subseteq Node
    BY <1>1, <1>2, <1>3, <1>4, <1>6 DEF Types, r
  <2>3. /\ at' \in [Thread -> {"event", "passed", "body"}]
        /\ state' \in [Thread -> {"ACTIVE", "DELAYED", "WAITING"}]
        /\ first' \in [Thread -> BOOLEAN]
        /\ moved' \in [Thread -> SUBSET Signal]
    BY <1>1, <1>2 DEF Types
  <2>4. seen' = [u \in Thread |-> seen'[u]]
    BY <1>1, <1>2 DEF Types
  <2> QED BY <1>1, <1>2, <1>8, <2>1, <2>2, <2>3, <2>4 DEF Types
<1>15. /\ Tail(queue) \in Seq(Thread) /\ Distinct(Tail(queue)) /\ t \in ToSet(queue)
       /\ ToSet(Tail(queue)) = ToSet(queue) \ {t}
  BY <1>1, <1>2, TailDistinct DEF Queues
<1>16. state[t] = "ACTIVE"
  BY <1>2, <1>15 DEF Queues
<1>17. Queues'
  <2>1. CASE r \in F
    BY <1>1, <1>2, <2>1 DEF Queues, Distinct
  <2>2. CASE r \notin F
    <3>1. \A u \in Thread : state'[u] = "ACTIVE" <=> u \in ToSet(queue')
      BY <1>1, <1>2, <1>15, <2>2 DEF Queues, Types
    <3>2. \A u \in ToSet(zero) : state'[u] = "DELAYED"
      <4>1. \A u \in ToSet(zero) : u \in Thread
        BY <1>2, TreeAssumption DEF Queues, ToSet
      <4>2. \A u \in ToSet(zero) : u # t
        BY <1>2, <1>16 DEF Queues
      <4> QED BY <1>1, <1>2, <2>2, <4>1, <4>2 DEF Queues, Types
    <3> QED BY <1>1, <1>2, <1>15, <2>2, <3>1, <3>2 DEF Queues, Distinct
  <2> QED BY <2>1, <2>2
<1>18. UpClosed(bits)'
  <2>1. \A b \in bits : b[1] \in Node /\ Way(b[1]) \subseteq bits
    BY <1>2 DEF UpClosed
  <2>2. \A b \in bits : \A e \in Way(b[1]) : Top[e[1]] = Top[b[1]]
    BY <2>1, WayUp
  <2> QED BY <1>7, <2>1, <2>2 DEF UpClosed
<1>19. Caused'
  <2> SUFFICES ASSUME NEW b \in bits'
               PROVE  \E c \in Children(b[1]) : Side(c) = b[2] /\ (Kind[c] = "SIG" \/ HasBit(bits', c))
    BY DEF Caused, HasBit
  <2>1. b \in bits /\ b[1] \in Node /\ Top[b[1]] # r
    BY <1>2, <1>7 DEF UpClosed
  <2>2. PICK c \in Children(b[1]) : Side(c) = b[2] /\ (Kind[c] = "SIG" \/ HasBit(bits, c))
    BY <2>1 DEF IInv, Caused
  <2>3. Top[c] # r
    BY <2>1, ChildOf
  <2> QED BY <1>7, <2>2, <2>3 DEF HasBit
<1>20. ChangedMeansQueued'
  <2> SUFFICES ASSUME NEW u \in Thread, state'[u] = "WAITING", NEW side \in {"left", "right"}
               PROVE  <<Root[u], side>> \notin bits'
    BY DEF ChangedMeansQueued
  <2>1. CASE u = t
    BY <1>7, <1>13, <2>1 DEF r
  <2>2. CASE u # t
    <3>1. state[u] = "WAITING"
      BY <1>1, <1>2, <2>2 DEF Types
    <3> QED BY <1>7, <3>1 DEF IInv, ChangedMeansQueued
  <2> QED BY <2>1, <2>2
<1>21. \A n \in Node : n \notin Tree(r) /\ Way(n) \subseteq bits => Way(n) \subseteq bits'
  BY <1>6, <1>7, WayUp
<1>22. Stored'
  <2> SUFFICES ASSUME NEW n \in Node
               PROVE  /\ Kind[n] = "OR" /\ Now(n)' # old'[n] => Way(n) \subseteq bits'
                      /\ Kind[n] \in {"PEDGE", "NEDGE"} /\ Now(Right[n])' # old'[n] => Way(n) \subseteq bits'
    BY DEF Stored
  <2>1. Kind[n] = "OR" => Now(n)' = Now(n)
    BY <1>9 DEF ValueKind
  <2>2. Kind[n] \in {"PEDGE", "NEDGE"} => Now(Right[n])' = Now(Right[n])
    BY <1>9, ShapeAssumption, ChildrenOf DEF Edges
  <2>3. CASE n \in Tree(r)
    BY <1>11, <1>12, <2>1, <2>2, <2>3
  <2>4. CASE n \notin Tree(r)
    BY <1>10, <1>21, <2>1, <2>2, <2>4 DEF IInv, Stored
  <2> QED BY <2>3, <2>4
<1>23. MovedMarked'
  <2> SUFFICES ASSUME NEW u \in Thread, NEW n \in EdgesOf[u], Kind[n] = "AEDGE", Kind[Right[n]] = "SIG"
               PROVE  SigOf[Right[n]] \in moved'[u] <=> <<n, "right">> \in bits'
    BY DEF MovedMarked
  <2>1. n \in Node /\ Top[n] = Root[u]
    BY EdgesAre
  <2>2. CASE u = t
    BY <1>1, <1>2, <1>7, <2>1, <2>2 DEF Types, r
  <2>3. CASE u # t
    <3>1. moved'[u] = moved[u] /\ Top[n] # r
      BY <1>1, <1>2, <1>13, <2>1, <2>3 DEF Types
    <3> QED BY <1>7, <3>1 DEF IInv, MovedMarked
  <2> QED BY <2>2, <2>3
<1>24. Armed'
  <2> SUFFICES ASSUME NEW u \in Thread, first'[u]
               PROVE  /\ at'[u] = "event" /\ state'[u] # "DELAYED"
                      /\ state'[u] = "ACTIVE" => HasBit(bits', Root[u])
                      /\ \A n \in EdgesOf[u] : Kind[n] \in {"PEDGE", "NEDGE"} => old'[n] = seen'[u][n]
    BY DEF Armed, HasBit
  <2>1. CASE u = t
    <3>1. r \notin F
      BY <1>1, <1>2, <2>1 DEF Types
    <3>2. at'[t] = "event" /\ state'[t] = "WAITING"
      BY <1>1, <1>2, <3>1 DEF Types
    <3>3. seen'[t] = [n \in EdgesOf[t] |-> Now(Right[n])]
      BY <1>1, <1>2 DEF Types
    <3>4. \A n \in EdgesOf[t] : n \in Tree(r)
      BY EdgesAre DEF r
    <3>5. \A n \in EdgesOf[t] : Kind[n] \in {"PEDGE", "NEDGE"} => old'[n] = seen'[t][n]
      BY <1>11, <3>3, <3>4
    <3> QED BY <2>1, <3>2, <3>5
  <2>2. CASE u # t
    <3>1. /\ first[u] /\ at'[u] = at[u] /\ state'[u] = state[u] /\ seen'[u] = seen[u]
      BY <1>1, <1>2, <2>2 DEF Types
    <3>2. /\ at[u] = "event" /\ state[u] # "DELAYED"
          /\ state[u] = "ACTIVE" => HasBit(bits, Root[u])
          /\ \A n \in EdgesOf[u] : Kind[n] \in {"PEDGE", "NEDGE"} => old[n] = seen[u][n]
      BY <3>1 DEF IInv, Armed
    <3>3. HasBit(bits, Root[u]) => HasBit(bits', Root[u])
      BY <1>7, <1>13, <2>2 DEF HasBit
    <3>4. \A n \in EdgesOf[u] : old'[n] = old[n]
      BY <1>6, <1>10, <1>13, <2>2, EdgesAre
    <3> QED BY <3>1, <3>2, <3>3, <3>4
  <2> QED BY <2>1, <2>2
<1>25. Forced'
  <2> SUFFICES ASSUME NEW n \in evalT' \ Roots
               PROVE  \E u \in Comb : /\ n = Right[Root[u]] /\ ~first'[u] /\ at'[u] # "passed"
                                      /\ u \in ToSet(zero') \/ state'[u] = "ACTIVE"
    BY DEF Forced
  <2>1. n \in evalT /\ n \notin Tree(r)
    BY <1>1, <1>3, <1>4 DEF r
  <2>2. PICK u \in Comb : /\ n = Right[Root[u]] /\ ~first[u] /\ at[u] # "passed"
                          /\ u \in ToSet(zero) \/ state[u] = "ACTIVE"
    BY <2>1 DEF IInv, Forced
  <2>3. u \in Thread /\ Kind[Root[u]] = "SLIST"
    BY TreeAssumption
  <2>4. n \in Node /\ n \in Children(Root[u])
    BY <1>13, <2>2, <2>3, ShapeAssumption, ChildrenOf
  <2>5. Top[n] = Root[u]
    BY <1>13, <2>3, <2>4, ChildOf
  <2>6. u # t
    BY <1>6, <2>1, <2>4, <2>5 DEF r
  <2>7. first'[u] = first[u] /\ at'[u] = at[u] /\ state'[u] = state[u]
    BY <1>1, <1>2, <2>3, <2>6 DEF Types
  <2> QED BY <1>1, <2>2, <2>7
<1>26. NoMissedChange'
  <2> SUFFICES ASSUME NEW u \in Thread, state'[u] = "WAITING"
               PROVE  /\ \A n \in EdgesOf[u] : Now(Right[n])' = seen'[u][n]
                      /\ moved'[u] = {}
                      /\ Kind[Root[u]] = "WAIT" => Now(Right[Root[u]])' # "1"
    BY DEF NoMissedChange
  <2>1. \A n \in EdgesOf[u] : Now(Right[n])' = Now(Right[n])
    BY <1>9, EdgesAre
  <2>2. Kind[Root[u]] = "WAIT" => /\ Now(Right[Root[u]])' = Now(Right[Root[u]])
                                  /\ Right[Root[u]] \in Children(Root[u])
                                  /\ Right[Root[u]] \in Node
                                  /\ Kind[Right[Root[u]]] \in ValueKind
    BY <1>9, <1>13, ShapeAssumption, ChildrenOf
  <2>3. CASE u = t
    <3>1. r \notin F
      BY <1>1, <1>16, <2>3
    <3>2. seen'[t] = [n \in EdgesOf[t] |-> Now(Right[n])] /\ moved'[t] = {}
      BY <1>1, <1>2 DEF Types
    <3>3. ASSUME Kind[r] = "WAIT" PROVE Now(Right[r]) # "1"
      <4>1. Operand(r, Visited(r)) # "1"
        BY <1>5, <3>1, <3>3
      <4>2. Right[r] \in Tree(r) /\ Kind[Right[r]] \in ValueKind
        BY <1>6, <1>13, <2>2, <2>3, <3>3, ChildOf DEF r
      <4>3. Worth(Right[r], Visited(r)) = Now(Right[r])
        BY <1>2, <1>3, <4>2, PartialIsWhole DEF IInv, r
      <4> QED BY <4>1, <4>3 DEF Operand
    <3> QED BY <2>1, <2>2, <2>3, <3>2, <3>3 DEF r
  <2>4. CASE u # t
    <3>1. state[u] = "WAITING" /\ seen'[u] = seen[u] /\ moved'[u] = moved[u]
      BY <1>1, <1>2, <2>4 DEF Types
    <3> QED BY <2>1, <2>2, <3>1 DEF IInv, NoMissedChange
  <2> QED BY <2>3, <2>4
<1> QED BY <1>14, <1>17, <1>18, <1>19, <1>20, <1>22, <1>23, <1>24, <1>25, <1>26 DEF IInv

LEMMA OneInQueue ==
  ASSUME NEW t \in Thread
  PROVE  <<t>> \in Seq(Thread) /\ Distinct(<<t>>) /\ ToSet(<<t>>) = {t}
<1>1. <<t>> \in Seq(Thread) /\ DOMAIN <<t>> = {1} /\ <<t>>[1] = t
  OBVIOUS
<1> QED BY <1>1 DEF Distinct, ToSet

LEMMA ZeroIsThread ==
  ASSUME Queues
  PROVE  \A u \in ToSet(zero) : u \in Thread /\ u \in Comb /\ state[u] = "DELAYED"
  BY TreeAssumption DEF Queues, ToSet

(* What runs is at the head of the queue. *)
LEMMA HeadRuns ==
  ASSUME Types, Queues, NEW t \in Thread, Runs(t)
  PROVE  /\ state[t] = "ACTIVE" /\ t \in ToSet(queue)
         /\ Tail(queue) \in Seq(Thread) /\ Distinct(Tail(queue))
         /\ ToSet(Tail(queue)) = ToSet(queue) \ {t}
  BY TailDistinct DEF Runs, Queues

LEMMA PassKeeps ==
  ASSUME IInv, NEW t \in Thread, Pass(t)
  PROVE  IInv'
<1>1. /\ Runs(t) /\ at[t] = "passed" /\ at' = [at EXCEPT ![t] = "body"]
      /\ t \in Delaying => queue' = Tail(queue) /\ state' = [state EXCEPT ![t] = "DELAYED"]
      /\ t \notin Delaying => queue' = queue /\ state' = state
      /\ UNCHANGED <<val, bits, evalT, old, first, zero, seen, moved>>
  BY DEF Pass
<1>2. Types /\ Queues /\ Armed
  BY DEF IInv
<1>3. /\ state[t] = "ACTIVE" /\ t \in ToSet(queue)
      /\ Tail(queue) \in Seq(Thread) /\ Distinct(Tail(queue))
      /\ ToSet(Tail(queue)) = ToSet(queue) \ {t}
  BY <1>1, <1>2, HeadRuns
<1>4. Types'
  BY <1>1, <1>2 DEF Types
<1>5. \A u \in Thread : u # t => state'[u] = state[u] /\ at'[u] = at[u]
  BY <1>1, <1>2 DEF Types
<1>6. Queues'
  <2>1. CASE t \in Delaying
    <3>1. \A u \in Thread : state'[u] = "ACTIVE" <=> u \in ToSet(queue')
      BY <1>1, <1>2, <1>3, <2>1 DEF Queues, Types
    <3>2. \A u \in ToSet(zero) : state'[u] = "DELAYED"
      BY <1>2, <1>3, <1>5, ZeroIsThread
    <3> QED BY <1>1, <1>2, <1>3, <2>1, <3>1, <3>2 DEF Queues, Distinct
  <2>2. CASE t \notin Delaying
    BY <1>1, <1>2, <2>2 DEF Queues, Distinct
  <2> QED BY <2>1, <2>2
<1>7. \A u \in Thread : first[u] => at'[u] = at[u] /\ state'[u] = state[u]
  BY <1>1, <1>2, <1>5 DEF Armed
<1>8. \A u \in Thread : state'[u] = "WAITING" => state[u] = "WAITING"
  BY <1>1, <1>2 DEF Types
<1>9. \A u \in Comb : at[u] # "passed" /\ (u \in ToSet(zero) \/ state[u] = "ACTIVE")
        => at'[u] # "passed" /\ (u \in ToSet(zero') \/ state'[u] = "ACTIVE")
  BY <1>1, <1>5, TreeAssumption
<1> QED BY <1>1, <1>4, <1>6, <1>7, <1>8, <1>9, QuietKeeps

(* A step that only takes a thread on, or a signal off the dumpfile's list. *)
LEMMA NoChangeKeeps ==
  ASSUME IInv, UNCHANGED <<val, bits, evalT, old, state, first, queue, zero, seen, moved>>,
         at' \in [Thread -> {"event", "passed", "body"}],
         \A t \in Thread : /\ first[t] => at'[t] = at[t]
                           /\ at'[t] = "passed" => at[t] = "passed"
  PROVE  IInv'
<1>1. Types' /\ Queues'
  BY DEF IInv, Types, Queues, Distinct
<1> QED BY <1>1, QuietKeeps, TreeAssumption

LEMMA BodyKeeps ==
  ASSUME PlainDesign, IInv, NEW t \in Thread, Body(t)
  PROVE  IInv'
<1>1. /\ Runs(t) /\ at[t] = "body" /\ at' = [at EXCEPT ![t] = "event"]
      /\ UNCHANGED <<evalT, old, first, zero, seen>>
      /\ \/ UNCHANGED <<val, bits, state, queue, moved>>
         \/ \E sig \in Writes[t], v \in {"0", "1"} : Assign(sig, v)
  BY DEF Body
<1>2. Types /\ Armed
  BY DEF IInv
<1>3. at' \in [Thread -> {"event", "passed", "body"}]
  BY <1>1, <1>2 DEF Types
<1>4. \A u \in Thread : /\ first[u] => at'[u] = at[u]
                        /\ at'[u] = "passed" => at[u] = "passed"
  BY <1>1, <1>2 DEF Types, Armed
<1>5. CASE UNCHANGED <<val, bits, state, queue, moved>>
  BY <1>1, <1>3, <1>4, <1>5, NoChangeKeeps
<1>6. CASE \E sig \in Writes[t], v \in {"0", "1"} : Assign(sig, v)
  <2>1. PICK sig \in Writes[t], v \in {"0", "1"} : Assign(sig, v)
    BY <1>6
  <2>2. sig \in Signal /\ v \in Value
    BY TreeAssumption DEF Value
  <2>3. CASE v = val[sig]
    BY <1>1, <1>3, <1>4, <2>1, <2>3, NoChangeKeeps DEF Assign
  <2>4. CASE v # val[sig]
    BY <1>1, <1>3, <1>4, <2>1, <2>2, <2>4, ChangeKeeps
  <2> QED BY <2>3, <2>4
<1> QED BY <1>1, <1>5, <1>6

LEMMA DumpKeeps ==
  ASSUME PlainDesign, IInv, NEW sig \in Signal, Dump(sig)
  PROVE  IInv'
<1>1. PICK v \in Value : Assign(sig, v)
  BY DEF Dump
<1>2. UNCHANGED <<evalT, old, at, first, zero, seen>> /\ at' \in [Thread -> {"event", "passed", "body"}]
  BY DEF Dump, IInv, Types
<1>3. CASE v = val[sig]
  BY <1>1, <1>2, <1>3, NoChangeKeeps DEF Assign
<1>4. CASE v # val[sig]
  BY <1>1, <1>2, <1>4, ChangeKeeps
<1> QED BY <1>3, <1>4

(* A delayed thread becomes the only active one. *)
LEMMA AwakeKeeps ==
  ASSUME IInv, NEW t \in Thread, queue = <<>>, state[t] = "DELAYED",
         queue' = <<t>>, state' = [state EXCEPT ![t] = "ACTIVE"],
         UNCHANGED <<val, bits, evalT, old, at, first, seen, moved>>,
         zero' \in Seq(Comb), Distinct(zero'), ToSet(zero') = ToSet(zero) \ {t}
  PROVE  IInv'
<1>1. Types /\ Queues /\ Armed
  BY DEF IInv
<1>2. Types'
  BY <1>1 DEF Types
<1>3. \A u \in Thread : u # t => state'[u] = state[u]
  BY <1>1 DEF Types
<1>4. state'[t] = "ACTIVE"
  BY <1>1 DEF Types
<1>5. \A u \in Thread : state[u] # "ACTIVE"
  BY <1>1 DEF Queues, ToSet
<1>6. <<t>> \in Seq(Thread) /\ Distinct(<<t>>) /\ ToSet(<<t>>) = {t}
  BY OneInQueue
<1>7. Queues'
  <2>1. \A u \in Thread : state'[u] = "ACTIVE" <=> u \in ToSet(queue')
    BY <1>3, <1>4, <1>5, <1>6
  <2>2. \A u \in ToSet(zero') : state'[u] = "DELAYED"
    BY <1>1, <1>3, ZeroIsThread
  <2> QED BY <1>6, <2>1, <2>2 DEF Queues, Distinct
<1>8. \A u \in Thread : first[u] => at'[u] = at[u] /\ state'[u] = state[u]
  BY <1>1, <1>3 DEF Armed
<1>9. \A u \in Thread : state'[u] = "WAITING" => state[u] = "WAITING"
  BY <1>3, <1>4
<1>10. \A u \in Comb : at[u] # "passed" /\ (u \in ToSet(zero) \/ state[u] = "ACTIVE")
         => at'[u] # "passed" /\ (u \in ToSet(zero') \/ state'[u] = "ACTIVE")
  BY <1>3, <1>4, TreeAssumption
<1> QED BY <1>2, <1>7, <1>8, <1>9, <1>10, QuietKeeps

LEMMA PopZeroKeeps ==
  ASSUME IInv, PopZero
  PROVE  IInv'
<1> DEFINE t == Head(zero)
<1>1. /\ queue = <<>> /\ zero # <<>> /\ queue' = <<t>> /\ zero' = Tail(zero)
      /\ state' = [state EXCEPT ![t] = "ACTIVE"]
      /\ UNCHANGED <<val, bits, evalT, old, at, first, seen, moved>>
  BY DEF PopZero
<1>2. Queues
  BY DEF IInv
<1>3. /\ Tail(zero) \in Seq(Comb) /\ Distinct(Tail(zero)) /\ t \in ToSet(zero)
      /\ ToSet(Tail(zero)) = ToSet(zero) \ {t}
  BY <1>1, <1>2, TailDistinct DEF Queues
<1>4. t \in Thread /\ state[t] = "DELAYED"
  BY <1>2, <1>3, ZeroIsThread
<1> HIDE DEF t
<1>5. Distinct(zero')
  BY <1>1, <1>3 DEF Distinct
<1> QED BY <1>1, <1>3, <1>4, <1>5, AwakeKeeps

LEMMA DelayEndKeeps ==
  ASSUME IInv, NEW t \in Thread, DelayEnd(t)
  PROVE  IInv'
<1>1. /\ queue = <<>> /\ zero = <<>> /\ state[t] = "DELAYED" /\ queue' = <<t>> /\ zero' = zero
      /\ state' = [state EXCEPT ![t] = "ACTIVE"]
      /\ UNCHANGED <<val, bits, evalT, old, at, first, seen, moved>>
  BY DEF DelayEnd, Quiet
<1>2. zero' \in Seq(Comb) /\ Distinct(zero') /\ ToSet(zero') = ToSet(zero) \ {t}
  BY <1>1 DEF Distinct, ToSet
<1> QED BY <1>1, <1>2, AwakeKeeps

(* Every step keeps the invariant. *)
LEMMA NextKeeps ==
  ASSUME PlainDesign, IInv, [Next]_vars
  PROVE  IInv'
<1>1. ASSUME NEW t \in Thread, Eval(t) \/ Pass(t) \/ Body(t) \/ DelayEnd(t) PROVE IInv'
  BY <1>1, EvalKeeps, PassKeeps, BodyKeeps, DelayEndKeeps
<1>2. CASE PopZero
  BY <1>2, PopZeroKeeps
<1>3. CASE TimestepOver \/ UNCHANGED vars
  <2>1. UNCHANGED <<val, bits, evalT, old, at, state, first, queue, zero, seen, moved>>
    BY <1>3 DEF TimestepOver, vars
  <2> QED BY <2>1, NoChangeKeeps DEF IInv, Types
<1>4. ASSUME NEW sig \in Signal, Dump(sig) PROVE IInv'
  BY <1>4, DumpKeeps
<1> QED BY <1>1, <1>2, <1>3, <1>4 DEF Next

(* As long as the signals have no value, no expression has one. *)
LEMMA UnknownAtFirst ==
  ASSUME PlainDesign, val = [s \in Signal |-> "x"], old = [n \in Node |-> "x"],
         NEW n \in Node, Kind[n] \in ValueKind
  PROVE  Now(n) = "x"
<1> DEFINE W(k) == WorthOf(val, old, k, Node)
           S == {k \in Node : Kind[k] \in ValueKind /\ W(k) # "x"}
<1>1. val \in [Signal -> Value] /\ old \in [Node -> Value]
  BY DEF Value
<1>2. S = {}
  <2> SUFFICES ASSUME S # {} PROVE FALSE
    OBVIOUS
  <2>1. PICK k \in S : Children(k) \cap S = {}
    BY BottomUp
  <2>2. k \in Node /\ Kind[k] \in {"SIG", "OR"} /\ W(k) # "x"
    BY <2>1 DEF PlainDesign, ValueKind
  <2>3. CASE Kind[k] = "SIG"
    <3>1. W(k) = val[SigOf[k]] /\ SigOf[k] \in Signal
      BY <1>1, <2>2, <2>3, WorthDef, ShapeAssumption
    <3> QED BY <2>2, <3>1
  <2>4. CASE Kind[k] = "OR"
    <3>1. /\ Left[k] \in Children(k) /\ Right[k] \in Children(k)
          /\ Left[k] \in Node /\ Right[k] \in Node
          /\ Kind[Left[k]] \in ValueKind /\ Kind[Right[k]] \in ValueKind
      BY <2>2, <2>4, ChildrenOf, ShapeAssumption
    <3>2. W(k) = Or(W(Left[k]), W(Right[k]))
      BY <1>1, <2>2, <2>4, WorthDef
    <3> HIDE DEF W
    <3>3. W(Left[k]) = "x" /\ W(Right[k]) = "x"
      BY <2>1, <3>1
    <3> QED BY <2>2, <3>2, <3>3 DEF Or
  <2> QED BY <2>2, <2>3, <2>4
<1>3. W(n) = "x"
  <2> HIDE DEF W
  <2> QED BY <1>2
<1> QED BY <1>3, WorthIs

LEMMA InitIInv ==
  ASSUME PlainDesign, Init
  PROVE  IInv
<1>1. bits = {}
  <2>1. {n \in Node : Kind[n] = "TIME"} = {}
    BY DEF PlainDesign
  <2> QED BY <2>1 DEF Init
<1>2. \A t \in Comb : t \in Thread /\ Right[Root[t]] \in Node
  BY TreeAssumption, ShapeAssumption
<1>3. Types
  <2>1. val \in [Signal -> Value] /\ old \in [Node -> Value]
    BY DEF Init, Value
  <2>2. evalT \subseteq Node
    BY <1>2 DEF Init
  <2> QED BY <1>1, <2>1, <2>2 DEF Init, Types
<1>4. queue \in Seq(Thread) /\ Distinct(queue) /\ ToSet(queue) = Thread \ Comb
  BY Enumeration DEF Init
<1>5. zero \in Seq(Comb) /\ Distinct(zero) /\ ToSet(zero) = Comb
  <2>1. zero \in Seq(Thread) /\ Distinct(zero) /\ ToSet(zero) = Comb
    BY Enumeration, TreeAssumption DEF Init
  <2>2. Len(zero) \in Nat /\ DOMAIN zero = 1..Len(zero) /\ zero = [i \in 1..Len(zero) |-> zero[i]]
    BY <2>1
  <2>3. \A i \in 1..Len(zero) : zero[i] \in Comb
    BY <2>1, <2>2 DEF ToSet
  <2>4. zero \in [1..Len(zero) -> Comb]
    BY <2>2, <2>3
  <2> QED BY <2>1, <2>2, <2>4
<1>6. Queues
  BY <1>4, <1>5, TreeAssumption DEF Queues, Init
<1>7. UpClosed(bits) /\ Caused /\ ChangedMeansQueued
  BY <1>1 DEF UpClosed, Caused, ChangedMeansQueued
<1>8. \A n \in Node : old[n] = "x" /\ (Kind[n] \in ValueKind => Now(n) = "x")
  BY UnknownAtFirst DEF Init
<1>9. Stored
  <2>1. \A n \in Node : Kind[n] \in {"PEDGE", "NEDGE"} => Now(Right[n]) = "x"
    BY <1>8, ShapeAssumption, ChildrenOf DEF Edges
  <2>2. \A n \in Node : Kind[n] = "OR" => Now(n) = "x"
    BY <1>8 DEF ValueKind
  <2> QED BY <1>8, <2>1, <2>2 DEF Stored
<1>10. MovedMarked
  BY <1>1 DEF MovedMarked, Init
<1>11. \A t \in Thread : ~first[t] /\ state[t] # "WAITING"
  BY DEF Init
<1>12. Armed /\ NoMissedChange
  BY <1>11 DEF Armed, NoMissedChange
<1>13. Forced
  BY <1>2, <1>5, <1>11 DEF Forced, Init
<1> QED BY <1>3, <1>6, <1>7, <1>9, <1>10, <1>12, <1>13 DEF IInv

(* The invariant holds, however the design is built. *)
THEOREM EventInvariant ==
  ASSUME PlainDesign
  PROVE  Spec => []IInv
<1>1. Init => IInv
  BY InitIInv
<1>2. IInv /\ [Next]_vars => IInv'
  BY NextKeeps
<1> QED BY <1>1, <1>2, PTL DEF Spec

-----------------------------------------------------------------------------
(* What follows from the invariant.                                         *)

(* While a root has a changed bit its thread does not wait, and a stored    *)
(* value that the signals have overtaken is on a path of set bits: a change *)
(* never stops short of a root whose thread sleeps, and an evaluation never *)
(* passes by what it has to compute again.                                  *)
THEOREM BitsAlwaysSound ==
  ASSUME PlainDesign
  PROVE  Spec => []BitsSound
<1>1. IInv => BitsSound
  <2> SUFFICES ASSUME IInv PROVE BitsSound
    OBVIOUS
  <2>1. StaleIsMarked
    <3> SUFFICES ASSUME NEW n \in Node, Kind[n] = "OR", Now(n) # old[n]
                 PROVE  n \in Visited(Top[n])
      BY DEF StaleIsMarked
    <3>1. Way(n) \subseteq bits
      BY DEF IInv, Stored
    <3>2. Top[n] \in Roots
      BY WayUp
    <3> QED BY <3>1, <3>2, TreeIs
  <2> QED BY <2>1 DEF IInv, BitsSound
<1> QED BY <1>1, EventInvariant, PTL

(* No change is slept through.                                              *)
THEOREM NoChangeMissed ==
  ASSUME PlainDesign
  PROVE  Spec => []NoMissedChange
<1>1. IInv => NoMissedChange
  BY DEF IInv
<1> QED BY <1>1, EventInvariant, PTL

(* When no thread is left to run, no event below a root is marked true: the *)
(* next thread that waits for it waits for a new one.                       *)
THEOREM EventsAreUsedUp ==
  ASSUME PlainDesign
  PROVE  Spec => []NoStaleEvent
<1>1. IInv => NoStaleEvent
  <2> SUFFICES ASSUME IInv, Quiet, NEW n \in evalT \ Roots PROVE FALSE
    BY DEF NoStaleEvent
  <2>1. PICK t \in Comb : t \in ToSet(zero) \/ state[t] = "ACTIVE"
    BY DEF IInv, Forced
  <2>2. ToSet(zero) = {} /\ ToSet(queue) = {}
    BY DEF Quiet, ToSet
  <2> QED BY <2>1, <2>2, TreeAssumption DEF IInv, Queues
<1> QED BY <1>1, EventInvariant, PTL

-----------------------------------------------------------------------------
(* When an event is passed.                                                 *)

(* Only the list of an always_comb block that has not begun is forced.      *)
LEMMA ForcedHere ==
  ASSUME PlainDesign, IInv, NEW t \in Thread, NEW n \in evalT, n \in Tree(Root[t]), n # Root[t]
  PROVE  t \in Comb /\ n = Right[Root[t]] /\ ~first[t]
<1>1. n \in Node /\ Top[n] = Root[t] /\ n \notin Roots
  BY EdgesAre, TreeIs, WayDef
<1>2. PICK u \in Comb : n = Right[Root[u]] /\ ~first[u]
  BY <1>1 DEF IInv, Forced
<1>3. u \in Thread /\ Root[u] \in Roots /\ Root[u] \in Node
  BY EdgesAre, TreeAssumption
<1>4. Top[n] = Root[u]
  BY <1>1, <1>2, <1>3, ChildrenOf, ChildOf, WayDef
<1>5. u = t
  BY <1>1, <1>3, <1>4 DEF PlainDesign
<1> QED BY <1>2, <1>5

(* An event that comes true makes the root true.                            *)
LEMMA RootFires ==
  ASSUME NEW t \in Thread, NEW ef \in BOOLEAN, NEW n \in Fires(Root[t], ef) \cap Visited(Root[t])
  PROVE  Root[t] \in Fires(Root[t], ef)
<1> DEFINE r == Root[t]
           S == Fires(r, ef) \cap Visited(r)
<1>1. r \in Roots /\ r \in Node
  BY EdgesAre
<1>2. S \subseteq Node /\ \A m \in S : Top[m] = r
  BY <1>1, TreeIs
<1>3. PICK m \in S : m \in Roots \/ Parent(m) \notin S
  BY <1>2, TopDown
<1>4. m = r
  BY <1>2, <1>3, WayDef, FiredParent
<1> QED BY <1>3, <1>4

(* A root comes true by an edge, or by a child that was true before.        *)
LEMMA WhyRootFires ==
  ASSUME PlainDesign, NEW t \in Thread, NEW ef \in BOOLEAN, Kind[Root[t]] # "WAIT",
         Root[t] \in Fires(Root[t], ef)
  PROVE  \/ \E n \in EdgesOf[t] : n \in Visited(Root[t]) /\ n \in Fires(Root[t], ef)
         \/ \E n \in evalT : n \in Tree(Root[t]) /\ n # Root[t]
<1> DEFINE r == Root[t]
           F == Fires(r, ef)
           S == F \cap Visited(r)
<1>1. r \in Roots /\ r \in Node
  BY EdgesAre
<1>2. /\ Tree(r) = {n \in Node : Top[n] = r}
      /\ Visited(r) \subseteq Tree(r) /\ r \in S
  BY <1>1, TreeIs
<1>3. PICK m \in S : Children(m) \cap S = {}
  BY <1>2, BottomUp
<1>4. m \in Node /\ m \in Tree(r) /\ m \in Visited(r) /\ Top[m] = r
  BY <1>2, <1>3
<1> HIDE DEF F
<1>5. CASE Kind[m] \in Edges
  BY <1>3, <1>4, <1>5, EdgesAre DEF F
<1>6. CASE Kind[m] \in {"EOR", "SLIST"}
  <2>1. PICK c \in Children(m) : c \in F
    BY <1>1, <1>3, <1>4, <1>6, FiresIs, ShapeAssumption, ChildrenOf DEF F
  <2>2. c \in Tree(r) /\ c \notin Visited(r) /\ c \notin Roots
    BY <1>2, <1>3, <1>4, <2>1, ChildOf
  <2>3. c \in evalT
    BY <1>1, <2>1, <2>2, FiresIs DEF F
  <2> QED BY <1>1, <2>2, <2>3
<1>7. Kind[m] \in Edges \cup {"EOR", "SLIST"}
  <2>1. Kind[m] \notin ValueKind
    BY <1>1, <1>3, <1>4, FiresIs DEF F
  <2>2. CASE m \in Roots
    <3>1. m = r
      BY <1>4, <2>2, WayDef
    <3> QED BY <1>1, <3>1, ShapeAssumption DEF EventKind
  <2>3. CASE m \notin Roots
    BY <1>4, <2>1, <2>3, ChildKinds DEF EventKind
  <2> QED BY <2>2, <2>3
<1> QED BY <1>5, <1>6, <1>7

(* Where one bit leads to, and which child it stands for. *)
LEMMA BitOfChild ==
  ASSUME NEW p \in Node, NEW c \in Children(p), NEW d \in Children(p), Side(c) = Side(d)
  PROVE  c = d
  BY ChildOf, ShapeAssumption DEF Children

(* The bit of an any-edge is set when its evaluation comes to it.           *)
LEMMA AnyEdgeVisited ==
  ASSUME PlainDesign, IInv, NEW t \in Thread, first[t], state[t] = "ACTIVE", NEW n \in EdgesOf[t]
  PROVE  /\ n \in Visited(Root[t]) => <<n, "right">> \in bits
         /\ <<n, "right">> \in bits => n \in Visited(Root[t])
<1>1. /\ n \in Node /\ n \in Tree(Root[t]) /\ Kind[n] \in Edges /\ Top[n] = Root[t]
      /\ Children(n) = {Right[n]} /\ Side(Right[n]) = "right" /\ Root[t] \in Roots
  BY EdgesAre
<1>2. HasBit(bits, n) => <<n, "right">> \in bits
  <2> SUFFICES ASSUME NEW side \in Sides, <<n, side>> \in bits PROVE side = "right"
    BY DEF HasBit
  <2>1. PICK c \in Children(n) : Side(c) = side
    BY DEF IInv, Caused
  <2> QED BY <1>1, <2>1
<1>3. ASSUME n \in Visited(Root[t]) PROVE HasBit(bits, n)
  <2>1. CASE n \in Roots
    <3>1. n = Root[t]
      BY <1>1, <2>1, WayDef
    <3> QED BY <3>1 DEF IInv, Armed
  <2>2. CASE n \notin Roots
    <3> DEFINE p == Parent(n)
    <3>1. p \in Node /\ n \in Children(p) /\ <<p, Side(n)>> \in Way(n)
      BY <1>1, <2>2, ParentOf, WayDef
    <3>2. <<p, Side(n)>> \in bits
      BY <1>1, <1>3, <3>1, TreeIs
    <3>3. PICK c \in Children(p) : Side(c) = Side(n) /\ (Kind[c] = "SIG" \/ HasBit(bits, c))
      BY <3>2 DEF IInv, Caused
    <3>4. c = n
      BY <3>1, <3>3, BitOfChild
    <3> QED BY <1>1, <3>3, <3>4 DEF Edges
  <2> QED BY <2>1, <2>2
<1>4. <<n, "right">> \in bits => Way(n) \subseteq bits
  BY DEF IInv, UpClosed
<1> QED BY <1>1, <1>2, <1>3, <1>4, TreeIs

(* For a thread that was waiting, the edges that fire are those that have   *)
(* happened since.                                                          *)
LEMMA EdgeDecides ==
  ASSUME PlainDesign, AnyEdgesOfSignals, IInv,
         NEW t \in Thread, first[t], state[t] = "ACTIVE", NEW n \in EdgesOf[t]
  PROVE  EdgeSince(t, n) <=> n \in Visited(Root[t]) /\ n \in Fires(Root[t], TRUE)
<1> DEFINE r == Root[t]
<1>1. /\ n \in Node /\ n \in Tree(r) /\ Kind[n] \in Edges /\ r \in Roots
      /\ Right[n] \in Node /\ Kind[Right[n]] \in ValueKind /\ Top[Right[n]] = r
  BY EdgesAre
<1>2. Visited(r) = {m \in Tree(r) : Way(m) \subseteq bits} /\ Right[n] \in Tree(r)
  BY <1>1, TreeIs
<1>3. Operand(n, Visited(r)) = Now(Right[n])
  BY <1>1, <1>2, PartialIsWhole DEF Operand, IInv
<1>4. n \in Visited(r) => (n \in Fires(r, TRUE) <=> EdgeFires(n, Now(Right[n]), TRUE))
  <2>1. n \in Visited(r) => (n \in Fires(r, TRUE) <=> EdgeFires(n, Operand(n, Visited(r)), TRUE))
    BY <1>1, FiresIs
  <2> QED BY <1>3, <2>1
<1> HIDE DEF r
<1>5. CASE Kind[n] = "AEDGE"
  <2>1. Kind[Right[n]] = "SIG"
    BY <1>1, <1>5 DEF AnyEdgesOfSignals
  <2>2. EdgeFires(n, Now(Right[n]), TRUE)
    BY <1>5, <2>1 DEF EdgeFires
  <2>3. EdgeSince(t, n) <=> <<n, "right">> \in bits
    BY <1>5, <2>1 DEF EdgeSince, IInv, MovedMarked
  <2> QED BY <1>4, <2>2, <2>3, AnyEdgeVisited DEF r
<1>6. CASE Kind[n] \in {"PEDGE", "NEDGE"}
  <2>1. old[n] = seen[t][n]
    BY <1>6 DEF IInv, Armed
  <2>2. EdgeSince(t, n) <=> Edge(Kind[n], old[n], Now(Right[n]))
    BY <1>6, <2>1 DEF EdgeSince
  <2>3. EdgeFires(n, Now(Right[n]), TRUE) <=> Edge(Kind[n], old[n], Now(Right[n]))
    BY <1>6 DEF EdgeFires, Edge
  <2>4. ASSUME n \notin Visited(r) PROVE ~Edge(Kind[n], old[n], Now(Right[n]))
    <3>1. Now(Right[n]) = old[n]
      BY <1>1, <1>2, <1>6, <2>4 DEF IInv, Stored
    <3> QED BY <1>6, <3>1 DEF Edge
  <2> QED BY <1>4, <2>2, <2>3, <2>4 DEF r
<1> QED BY <1>1, <1>5, <1>6 DEF Edges

LEMMA EvalDecides ==
  ASSUME PlainDesign, AnyEdgesOfSignals, IInv, NEW t \in Thread, Eval(t), Kind[Root[t]] # "WAIT"
  PROVE  IF first[t] THEN at'[t] = "passed" <=> EventSince(t)
         ELSE at'[t] = "passed" => t \in Comb /\ Right[Root[t]] \in evalT
<1> DEFINE r == Root[t]
           F == Fires(r, first[t])
<1>1. /\ Runs(t) /\ at[t] = "event"
      /\ r \in F => at' = [at EXCEPT ![t] = "passed"]
      /\ r \notin F => at' = at
  BY DEF Eval
<1>2. at'[t] = "passed" <=> r \in F
  BY <1>1 DEF IInv, Types
<1>3. first[t] \in BOOLEAN /\ state[t] = "ACTIVE" /\ r \in Roots
  BY <1>1, HeadRuns, EdgesAre DEF IInv, Types
<1> HIDE DEF F
<1>4. CASE first[t]
  <2>1. F = Fires(r, TRUE)
    BY <1>3, <1>4 DEF F
  <2>2. EventSince(t) => r \in F
    BY <1>3, <1>4, <2>1, EdgeDecides, RootFires DEF EventSince
  <2>3. r \in F => EventSince(t)
    BY <1>3, <1>4, <2>1, WhyRootFires, ForcedHere, EdgeDecides DEF EventSince
  <2> QED BY <1>2, <1>4, <2>2, <2>3
<1>5. CASE ~first[t]
  <2>1. F = Fires(r, FALSE)
    BY <1>3, <1>5 DEF F
  <2>2. ASSUME NEW n \in EdgesOf[t], n \in Visited(r) PROVE n \notin F
    <3>1. n \in Node /\ Kind[n] \in Edges
      BY EdgesAre
    <3>2. n \in F <=> EdgeFires(n, Operand(n, Visited(r)), FALSE)
      BY <1>3, <2>1, <2>2, <3>1, FiresIs
    <3> QED BY <3>2 DEF EdgeFires
  <2>3. ASSUME r \in F PROVE t \in Comb /\ Right[r] \in evalT
    <3>1. PICK n \in evalT : n \in Tree(r) /\ n # r
      BY <2>1, <2>2, <2>3, WhyRootFires
    <3> QED BY <3>1, ForcedHere
  <2> QED BY <1>2, <1>5, <2>3
<1> QED BY <1>3, <1>4, <1>5

(* A thread that was waiting passes its event if and only if one of the     *)
(* edges in it has happened since it began to wait; a thread that arrives   *)
(* waits, except for the forced list of an always_comb block.               *)
THEOREM EventsDecideRight ==
  ASSUME PlainDesign, AnyEdgesOfSignals
  PROVE  Spec => PassesOnEvent
<1> DEFINE AsItShould(t) == Runs(t) /\ at[t] = "event" /\ Kind[Root[t]] # "WAIT" =>
                              IF first[t] THEN at'[t] = "passed" <=> EventSince(t)
                              ELSE at'[t] = "passed" => t \in Comb /\ Right[Root[t]] \in evalT
<1>1. IInv /\ [Next]_vars => [\A t \in Thread : AsItShould(t)]_vars
  <2> SUFFICES ASSUME IInv, Next, NEW t \in Thread, Runs(t), at[t] = "event", Kind[Root[t]] # "WAIT"
               PROVE  IF first[t] THEN at'[t] = "passed" <=> EventSince(t)
                      ELSE at'[t] = "passed" => t \in Comb /\ Right[Root[t]] \in evalT
    OBVIOUS
  <2>1. Eval(t)
    BY DEF Next, Runs, Eval, Pass, Body, DelayEnd, PopZero, TimestepOver, Dump, Quiet
  <2> QED BY <2>1, EvalDecides
<1> QED BY <1>1, EventInvariant, PTL DEF Spec, PassesOnEvent
=============================================================================
