-------------------------- MODULE RaceCheck_proofs --------------------------
(***************************************************************************)
(* Theorems about the race check and the removal of blocks, for designs of *)
(* any number of units, statements and signals.                            *)
(***************************************************************************)
EXTENDS RaceCheck, SequenceTheorems, WellFoundedInduction, FiniteSetTheorems, TLAPS

-----------------------------------------------------------------------------
(* The units of a design.                                                   *)

(* A set of numbers that is not empty has a least one. *)
LEMMA LeastIs ==
  ASSUME NEW S \in SUBSET Nat, S # {}
  PROVE  Min(S) \in S /\ \A j \in S : Min(S) <= j
<1>1. PICK i \in S : \A j \in S : ~(<<j, i>> \in OpToRel(<, Nat))
  BY NatLessThanWellFounded, WFMin
<1>2. \A j \in S : ~(j < i)
  BY <1>1 DEF OpToRel
<1>3. \A j \in S : i <= j
  BY <1>2
<1> QED BY <1>3 DEF Min

LEMMA DesignUnits ==
  ASSUME design \in Designs
  PROVE  /\ Len(design.kind) \in Nat /\ Units = 1..Len(design.kind) /\ Units \in SUBSET Nat
         /\ design.unsupported \subseteq Units
         /\ \A u \in Units : Calls(u) \subseteq {c \in Units : Kind(c) # "block"}
<1>1. IsDesign(design)
  BY DesignsAssumption
<1>2. /\ design.kind \in Seq({"block", "task", "function", "named"})
      /\ design.body \in [Units -> Seq(StatementOf(Units))]
      /\ design.unsupported \subseteq Units
      /\ \A u \in Units : \A i \in DOMAIN design.body[u] :
            \A c \in design.body[u][i].calls : Kind(c) # "block"
  BY <1>1 DEF IsDesign, Units, Kind
<1>3. Len(design.kind) \in Nat /\ Units = 1..Len(design.kind)
  BY <1>2, LenProperties DEF Units
<1>4. ASSUME NEW u \in Units, NEW i \in DOMAIN design.body[u]
      PROVE  design.body[u][i].calls \subseteq Units
  <2>1. design.body[u] \in Seq(StatementOf(Units))
    BY <1>2
  <2>2. design.body[u][i] \in StatementOf(Units)
    BY <2>1, LenProperties, ElementOfSeq
  <2> QED BY <2>2 DEF StatementOf
<1> QED BY <1>2, <1>3, <1>4 DEF Calls, Statements

LEMMA UnitsFinite ==
  ASSUME design \in Designs
  PROVE  IsFiniteSet(Units)
<1>1. Len(design.kind) \in Nat /\ Units = 1..Len(design.kind)
  BY DesignUnits
<1>2. IsFiniteSet(1..Len(design.kind))
  BY <1>1, FS_Interval
<1> QED BY <1>1, <1>2

-----------------------------------------------------------------------------
(* The removal of blocks.                                                   *)

(* Every unit that another one calls is called outside of false branches    *)
(* too, and none calls itself.                                              *)
CallsFound ==
  \A u \in Units : \A c \in Calls(u) : c # u /\ \E s \in Statements(u) : c \in s.calls /\ ~s.otherwise

(* Why a unit is removed. *)
Reason(u) ==
  \/ u \in design.unsupported \cup Condemned
  \/ Calls(u) \cap Removed # {}
  \/ Kind(u) = "named" /\ \E c \in Removed : u \in Calls(c)

(* What calls something that was removed is on the list, and nothing is on  *)
(* the list, or was removed, without a reason.                              *)
RemovalInv ==
  /\ design \in Designs /\ CallsFound
  /\ kept \subseteq Units /\ rm_stmts \subseteq kept
  /\ no_score = {u \in Removed : Kind(u) # "block"}
  /\ pc # "remove" => kept = Units
  /\ pc \notin {"remove", "halted"} => rm_stmts = design.unsupported
  /\ \A c \in kept : Calls(c) \cap Removed # {} => c \in rm_stmts
  /\ pc = "remove" => \A u \in Removed \cup rm_stmts : Reason(u)

LEMMA InitRemoval == Init /\ CallsFound => RemovalInv
<1> SUFFICES ASSUME Init, CallsFound PROVE RemovalInv
  OBVIOUS
<1>1. /\ design \in Designs /\ kept = Units /\ no_score = {} /\ rm_stmts = design.unsupported /\ pc = "calc"
  BY DEF Init, InitBlocks
<1>2. Removed = {}
  BY <1>1 DEF Removed
<1> QED BY <1>1, <1>2, DesignUnits DEF RemovalInv

(* One turn of stmt_blk_remove. *)
LEMMA RemoveListedStep ==
  ASSUME RemovalInv, RemoveListed
  PROVE  RemovalInv'
<1> DEFINE u == Min(rm_stmts)
           called == Kind(u) # "block"
           named == {n \in Calls(u) : Kind(n) = "named" /\ n \notin no_score'}
<1>1. /\ design \in Designs /\ CallsFound /\ kept \subseteq Units /\ rm_stmts \subseteq kept
      /\ no_score = {v \in Removed : Kind(v) # "block"}
      /\ \A c \in kept : Calls(c) \cap Removed # {} => c \in rm_stmts
      /\ \A v \in Removed \cup rm_stmts : Reason(v)
      /\ pc = "remove" /\ rm_stmts # {}
  BY DEF RemovalInv, RemoveListed
<1>2. /\ no_score' = (IF called THEN no_score \cup {u} ELSE no_score)
      /\ rm_stmts' = (rm_stmts \ {u}) \cup (IF called THEN Callers(u) ELSE {}) \cup named
      /\ kept' = kept \ {u}
      /\ design' = design /\ sb' = sb /\ pc' = pc
  BY DEF RemoveListed, RemoveBlock, checkVars
<1>3. u \in rm_stmts /\ u \in kept /\ u \in Units
  BY <1>1, LeastIs, DesignUnits
<1> HIDE DEF u
<1>4. /\ Units' = Units /\ Condemned' = Condemned /\ Removed' = Removed \cup {u}
      /\ \A v : Calls(v)' = Calls(v) /\ Kind(v)' = Kind(v)
  BY <1>2, <1>3 DEF Units, Condemned, Block, Removed, Calls, Statements, Kind
<1>5. \A v \in Units : Calls(v) \subseteq {c \in Units : Kind(c) # "block"}
  BY <1>1, DesignUnits
<1>6. u \notin Calls(u) /\ \A c \in kept : u \in Calls(c) => c \in Callers(u)
  BY <1>1, <1>3 DEF CallsFound, Callers
<1>7. Callers(u) \subseteq kept \ {u} /\ \A c \in Callers(u) : u \in Calls(c)
  BY <1>6 DEF Callers, Calls
<1>8. named \subseteq kept \ {u}
  <2> SUFFICES ASSUME NEW n \in named PROVE n \in kept \ {u}
    OBVIOUS
  <2>1. n \in Calls(u) /\ n \in Units /\ n # u /\ Kind(n) = "named" /\ n \notin no_score
    BY <1>2, <1>3, <1>5, <1>6
  <2>2. n \notin Removed
    BY <1>1, <2>1
  <2> QED BY <2>1, <2>2 DEF Removed
<1>9. kept' \subseteq Units' /\ rm_stmts' \subseteq kept'
  BY <1>1, <1>2, <1>4, <1>7, <1>8
<1>10. no_score' = {v \in Removed' : Kind(v)' # "block"}
  BY <1>1, <1>2, <1>4
<1>11. ASSUME NEW c \in kept', Calls(c) \cap Removed' # {} PROVE c \in rm_stmts'
  <2>1. c \in kept /\ c # u
    BY <1>2
  <2>2. CASE Calls(c) \cap Removed # {}
    BY <1>1, <1>2, <2>1, <2>2
  <2>3. CASE u \in Calls(c)
    <3>1. called
      BY <1>1, <1>5, <2>1, <2>3
    <3> QED BY <1>2, <1>6, <2>1, <2>3, <3>1
  <2> QED BY <1>4, <1>11, <2>2, <2>3
<1>12. ASSUME NEW v \in Removed' \cup rm_stmts' PROVE Reason(v)'
  <2>1. CASE v \in Removed \cup rm_stmts
    BY <1>1, <1>2, <1>4, <2>1 DEF Reason
  <2>2. CASE v \in Callers(u)
    BY <1>4, <1>7, <2>2 DEF Reason
  <2>3. CASE v \in named
    BY <1>4, <2>3 DEF Reason
  <2> QED BY <1>2, <1>3, <1>4, <2>1, <2>2, <2>3
<1>13. CallsFound'
  <2>1. CallsFound /\ design' = design
    BY <1>1, <1>2
  <2> QED BY <2>1 DEF CallsFound, Units, Calls, Statements
<1>14. \A c \in kept' : Calls(c)' \cap Removed' # {} => c \in rm_stmts'
  BY <1>4, <1>11
<1> QED BY <1>1, <1>2, <1>9, <1>10, <1>12, <1>13, <1>14 DEF RemovalInv

(* What the steps before the removal change. *)
LEMMA CheckStep ==
  ASSUME RemovalInv, design' = design, kept' = kept, no_score' = no_score,
         \/ rm_stmts' = rm_stmts /\ pc \notin {"remove", "halted"} /\ pc' \notin {"remove", "halted"}
         \/ rm_stmts' = rm_stmts /\ pc' = pc /\ sb' = sb
         \/ rm_stmts' = rm_stmts \cup Condemned /\ sb' = sb /\ pc \notin {"remove", "halted"} /\ pc' \in {"remove", "halted"}
  PROVE  RemovalInv'
<1>1. /\ Units' = Units /\ Removed' = Removed /\ Block' = Block
      /\ \A v : Calls(v)' = Calls(v) /\ Kind(v)' = Kind(v)
  BY DEF Units, Block, Removed, Calls, Statements, Kind
<1>2. CallsFound'
  BY DEF RemovalInv, CallsFound, Units, Calls, Statements
<1>3. CASE rm_stmts' = rm_stmts /\ pc \notin {"remove", "halted"} /\ pc' \notin {"remove", "halted"}
  BY <1>1, <1>2, <1>3 DEF RemovalInv
<1>4. CASE rm_stmts' = rm_stmts /\ pc' = pc /\ sb' = sb
  <2>1. \A v : Reason(v)' <=> Reason(v)
    BY <1>1, <1>4 DEF Reason, Condemned
  <2> QED BY <1>1, <1>2, <1>4, <2>1 DEF RemovalInv
<1>5. CASE rm_stmts' = rm_stmts \cup Condemned /\ sb' = sb /\ pc \notin {"remove", "halted"} /\ pc' \in {"remove", "halted"}
  <2>1. kept = Units /\ Removed = {} /\ rm_stmts = design.unsupported /\ Condemned' = Condemned
    BY <1>1, <1>5 DEF RemovalInv, Removed, Condemned
  <2>2. Condemned \subseteq Units
    BY DEF Condemned, Block
  <2>3. \A v \in rm_stmts' : Reason(v)'
    BY <1>5, <2>1 DEF Reason
  <2> QED BY <1>1, <1>2, <1>5, <2>1, <2>2, <2>3 DEF RemovalInv
<1> QED BY <1>3, <1>4, <1>5

LEMMA NextRemoval == RemovalInv /\ [Next]_vars => RemovalInv'
<1> SUFFICES ASSUME RemovalInv, [Next]_vars PROVE RemovalInv'
  OBVIOUS
<1>1. CASE CalcAssignments
  BY <1>1, CheckStep DEF CalcAssignments, blockVars
<1>2. CASE CheckTypes
  BY <1>2, CheckStep DEF CheckTypes, blockVars
<1>3. CASE CheckExp
  BY <1>3, CheckStep DEF CheckExp, blockVars
<1>4. CASE NextSignal
  BY <1>4, CheckStep DEF NextSignal, blockVars, checkVars
<1>5. CASE CheckOver
  <2>1. rm_stmts' = rm_stmts \cup Condemned
    BY <1>5 DEF CheckOver, Condemned
  <2> QED BY <1>5, <2>1, CheckStep DEF CheckOver, checkVars
<1>6. CASE RemoveListed
  BY <1>6, RemoveListedStep
<1>7. CASE UNCHANGED vars
  BY <1>7, CheckStep DEF vars, blockVars, checkVars
<1> QED BY <1>1, <1>2, <1>3, <1>4, <1>5, <1>6, <1>7 DEF Next, Finished

(* Of every design of which the calls are found, what is left calls nothing *)
(* that was removed, nothing is removed without a reason, and nothing is    *)
(* listed that is gone already (stmt_blk_remove).                           *)
THEOREM RemovalsAlwaysExact == Spec /\ CallsFound => []RemovalsExact
<1>1. RemovalInv => RemovalsExact
  <2> SUFFICES ASSUME RemovalInv PROVE RemovalsExact
    OBVIOUS
  <2>1. rm_stmts \subseteq kept
    BY DEF RemovalInv
  <2>2. ASSUME pc = "remove", rm_stmts = {} PROVE Closed(design.unsupported \cup Condemned)
    BY <2>2 DEF RemovalInv, Closed, Reason
  <2> QED BY <2>1, <2>2 DEF RemovalsExact
<1> QED BY <1>1, InitRemoval, NextRemoval, PTL DEF Spec

-----------------------------------------------------------------------------
(* Recursive functions whose value looks at elements of a lower rank only.  *)

Ranked(N, r, L) == L \in Nat /\ r \in [N -> 0..L]

Looks(N, V, r, D) ==
  /\ V # {}
  /\ D \in [[N -> V] -> [N -> V]]
  /\ \A g, h \in [N -> V], n \in N : (\A m \in N : r[m] < r[n] => g[m] = h[m]) => D[g][n] = D[h][n]

(* The equation f = D[f] has a solution. *)
LEMMA RecursiveFunction ==
  ASSUME NEW N, NEW V, NEW r, NEW L, NEW D, Ranked(N, r, L), Looks(N, V, r, D)
  PROVE  \E f \in [N -> V] : f = D[f]
<1> DEFINE Solves(i, g) == \A n \in N : r[n] < i => g[n] = D[g][n]
           Bad == {i \in Nat : ~\E g \in [N -> V] : Solves(i, g)}
<1>0. ASSUME NEW g \in [N -> V], NEW h \in [N -> V], NEW n \in N, \A m \in N : r[m] < r[n] => g[m] = h[m]
      PROVE  D[g][n] = D[h][n]
  BY <1>0 DEF Looks
<1>1. /\ L \in Nat /\ \A n \in N : r[n] \in Nat /\ r[n] < L + 1
      /\ \A g \in [N -> V] : D[g] \in [N -> V]
  BY DEF Ranked, Looks
<1>2. Bad = {}
  <2> SUFFICES ASSUME Bad # {} PROVE FALSE
    OBVIOUS
  <2>1. PICK i \in Bad : \A j \in Bad : i <= j
    BY LeastIs
  <2>2. i # 0
    <3>1. PICK v : v \in V
      BY DEF Looks
    <3>2. [n \in N |-> v] \in [N -> V] /\ Solves(0, [n \in N |-> v])
      BY <1>1, <3>1
    <3> QED BY <2>1, <3>2
  <2>3. i \in Nat /\ i - 1 \in Nat /\ i - 1 \notin Bad
    BY <2>1, <2>2
  <2>4. PICK g \in [N -> V] : Solves(i - 1, g)
    BY <2>3
  <2> DEFINE G == [n \in N |-> IF r[n] < i - 1 THEN g[n] ELSE D[g][n]]
  <2>5. G \in [N -> V]
    BY <1>1
  <2>6. ASSUME NEW n \in N, r[n] < i PROVE G[n] = D[G][n]
    <3>1. \A m \in N : r[m] < r[n] => G[m] = g[m]
      BY <1>1, <2>3, <2>6
    <3>2. D[G][n] = D[g][n]
      <4> HIDE DEF G
      <4> QED BY <1>0, <2>5, <3>1
    <3> QED BY <1>1, <2>4, <3>2
  <2>7. Solves(i, G)
    BY <2>6
  <2> QED BY <2>1, <2>5, <2>7
<1>3. PICK f \in [N -> V] : Solves(L + 1, f)
  <2>1. L + 1 \in Nat /\ L + 1 \notin Bad
    BY <1>1, <1>2
  <2> QED BY <2>1
<1>4. \A n \in N : f[n] = D[f][n]
  BY <1>1, <1>3
<1> QED BY <1>1, <1>4

-----------------------------------------------------------------------------
(* The elements of sequences put together.                                  *)

Elements(s) == {s[i] : i \in DOMAIN s}
Parts(seqs, n) == UNION {Elements(seqs[k]) : k \in 1..n}

LEMMA ElementsConcat ==
  ASSUME NEW S, NEW s \in Seq(S), NEW t \in Seq(S)
  PROVE  s \o t \in Seq(S) /\ Elements(s \o t) = Elements(s) \cup Elements(t)
<1>1. /\ Len(s) \in Nat /\ Len(t) \in Nat /\ DOMAIN s = 1..Len(s) /\ DOMAIN t = 1..Len(t)
      /\ s \o t \in Seq(S) /\ DOMAIN (s \o t) = 1..Len(s) + Len(t)
      /\ \A i \in 1..Len(s) + Len(t) : (s \o t)[i] = IF i <= Len(s) THEN s[i] ELSE t[i - Len(s)]
  BY ConcatProperties, LenProperties
<1>2. ASSUME NEW i \in DOMAIN s PROVE i \in DOMAIN (s \o t) /\ (s \o t)[i] = s[i]
  BY <1>1
<1>3. ASSUME NEW i \in DOMAIN t PROVE i + Len(s) \in DOMAIN (s \o t) /\ (s \o t)[i + Len(s)] = t[i]
  BY <1>1
<1>4. ASSUME NEW i \in DOMAIN (s \o t) PROVE (s \o t)[i] \in Elements(s) \cup Elements(t)
  <2>1. CASE i <= Len(s)
    BY <1>1, <2>1 DEF Elements
  <2>2. CASE ~(i <= Len(s))
    <3>1. i - Len(s) \in DOMAIN t /\ (s \o t)[i] = t[i - Len(s)]
      BY <1>1, <2>2
    <3> QED BY <3>1 DEF Elements
  <2> QED BY <2>1, <2>2
<1>5. Elements(s \o t) \subseteq Elements(s) \cup Elements(t)
  BY <1>4 DEF Elements
<1>6. Elements(s) \subseteq Elements(s \o t) /\ Elements(t) \subseteq Elements(s \o t)
  BY <1>2, <1>3 DEF Elements
<1> QED BY <1>1, <1>5, <1>6

LEMMA SingleIs ==
  ASSUME NEW S, NEW x \in S
  PROVE  <<x>> \in Seq(S) /\ Elements(<<x>>) = {x}
<1>1. <<x>> \in Seq(S) /\ DOMAIN <<x>> = {1} /\ <<x>>[1] = x
  OBVIOUS
<1> QED BY <1>1 DEF Elements

LEMMA FlattenParts ==
  ASSUME NEW S, NEW n \in Nat \ {0}, NEW seqs \in [1..n -> Seq(S)], NEW F,
         \A i \in 1..n : F[i] = IF i = 1 THEN seqs[i] ELSE F[i-1] \o seqs[i]
  PROVE  F[n] \in Seq(S) /\ Elements(F[n]) = Parts(seqs, n)
<1> USE DEF Parts
<1> DEFINE U(i) == Parts(seqs, i)
           Good(i) == F[i] \in Seq(S) /\ Elements(F[i]) = U(i)
           Bad == {i \in 1..n : ~Good(i)}
<1>0. n \in 1..n
  OBVIOUS
<1>1. SUFFICES ASSUME Bad # {} PROVE FALSE
  BY <1>0, <1>1
<1>2. Bad \in SUBSET Nat
  OBVIOUS
<1>3. PICK i \in Bad : \A j \in Bad : i <= j
  <2> HIDE DEF Bad
  <2> QED BY <1>1, <1>2, LeastIs
<1>4. CASE i = 1
  <2>1. F[i] = seqs[i] /\ 1..i = {i} /\ i \in 1..n
    BY <1>3, <1>4
  <2>2. U(i) = Elements(seqs[i])
    BY <2>1
  <2> QED BY <1>3, <2>1, <2>2
<1>5. CASE i # 1
  <2>1. i \in 1..n /\ i - 1 \in 1..n /\ ~(i <= i - 1)
    BY <1>3, <1>5
  <2>2. Good(i - 1)
    BY <1>3, <2>1
  <2>3. F[i] = F[i - 1] \o seqs[i]
    BY <1>5, <2>1
  <2>4. F[i] \in Seq(S) /\ Elements(F[i]) = Elements(F[i - 1]) \cup Elements(seqs[i])
    BY <2>1, <2>2, <2>3, ElementsConcat
  <2>5. \A k : k \in 1..i <=> k \in 1..i - 1 \/ k = i
    BY <2>1
  <2>6. U(i) = U(i - 1) \cup Elements(seqs[i])
    <3>1. ASSUME NEW x PROVE x \in U(i) <=> \E k \in 1..i : x \in Elements(seqs[k])
      OBVIOUS
    <3>2. ASSUME NEW x PROVE x \in U(i - 1) <=> \E k \in 1..i - 1 : x \in Elements(seqs[k])
      OBVIOUS
    <3> HIDE DEF U
    <3>3. ASSUME NEW x PROVE x \in U(i) <=> x \in U(i - 1) \/ x \in Elements(seqs[i])
      BY <2>5, <3>1, <3>2
    <3> QED BY <3>3
  <2>7. Good(i)
    BY <2>2, <2>4, <2>6
  <2> QED BY <1>3, <2>7
<1> QED BY <1>4, <1>5

LEMMA FlattenIs ==
  ASSUME NEW S, NEW n \in Nat, NEW seqs \in [1..n -> Seq(S)]
  PROVE  /\ FlattenSeq(seqs) \in Seq(S)
         /\ Elements(FlattenSeq(seqs)) = Parts(seqs, n)
<1>1. seqs \in Seq(Seq(S)) /\ Len(seqs) = n
  BY SeqDef, LenProperties
<1>2. CASE n = 0
  <2>1. FlattenSeq(seqs) = seqs /\ 1..n = {} /\ seqs = <<>>
    BY <1>1, <1>2, EmptySeq DEF FlattenSeq
  <2> QED BY <2>1, EmptySeq DEF Elements, Parts
<1>3. CASE n # 0
  <2> DEFINE N == 1..n
             V == Seq(S)
             E(g, i) == IF i = 1 THEN seqs[i] ELSE g[i-1] \o seqs[i]
             D == [g \in [N -> V] |-> [i \in N |-> E(g, i)]]
             r == [i \in N |-> i]
  <2>1. \A g \in [N -> V], i \in N : E(g, i) \in V
    <3> SUFFICES ASSUME NEW g \in [N -> V], NEW i \in N PROVE E(g, i) \in V
      OBVIOUS
    <3>1. CASE i = 1
      BY <3>1
    <3>2. CASE i # 1
      <4>1. i - 1 \in N
        BY <3>2
      <4> QED BY <3>2, <4>1, ElementsConcat
    <3> QED BY <3>1, <3>2
  <2>2. Ranked(N, r, n)
    BY DEF Ranked
  <2>3. ASSUME NEW g \in [N -> V], NEW h \in [N -> V], NEW i \in N, \A j \in N : r[j] < r[i] => g[j] = h[j]
        PROVE  D[g][i] = D[h][i]
    <3>1. i # 1 => i - 1 \in N /\ r[i - 1] < r[i]
      OBVIOUS
    <3>2. i # 1 => g[i - 1] = h[i - 1]
      BY <2>3, <3>1
    <3> QED BY <3>2
  <2>4. Looks(N, V, r, D)
    <3>1. V # {}
      BY EmptySeq
    <3>2. D \in [[N -> V] -> [N -> V]]
      BY <2>1
    <3> HIDE DEF D, r, V, N
    <3> QED BY <2>3, <3>1, <3>2 DEF Looks
  <2>5. PICK f \in [N -> V] : f = D[f]
    <3> HIDE DEF D, r, V, N
    <3> QED BY <2>2, <2>4, RecursiveFunction
  <2>6. f = [i \in N |-> E(f, i)]
    BY <2>5
  <2> DEFINE F == CHOOSE flatten : flatten = [i \in 1..Len(seqs) |-> IF i = 1 THEN seqs[i] ELSE flatten[i-1] \o seqs[i]]
  <2>7. F = [i \in N |-> E(F, i)]
    BY <1>1, <2>6
  <2>8. FlattenSeq(seqs) = F[n]
    BY <1>1, <1>3 DEF FlattenSeq
  <2> HIDE DEF F
  <2>9. n \in Nat \ {0} /\ \A i \in 1..n : F[i] = IF i = 1 THEN seqs[i] ELSE F[i-1] \o seqs[i]
    BY <1>3, <2>7
  <2>10. F[n] \in V /\ Elements(F[n]) = Parts(seqs, n)
    BY <2>9, FlattenParts
  <2> QED BY <2>8, <2>10
<1> QED BY <1>2, <1>3

-----------------------------------------------------------------------------
(* The tasks and named blocks of a block, and the statements it runs.       *)

(* No task calls itself. *)
NoRecursion == \A u \in Units : \A c \in Callees(u) : u \notin Reached(c)

UnitBody(u) ==
  /\ design.body[u] \in Seq(StatementOf(Units))
  /\ \A i \in DOMAIN design.body[u] :
        design.body[u][i].op = "CALL" =>
           /\ design.body[u][i].sig = 0
           /\ \E c \in Units : Kind(c) # "block" /\ design.body[u][i].calls = {c}

LEMMA BodyIs ==
  ASSUME design \in Designs, NEW u \in Units
  PROVE  UnitBody(u) /\ Callees(u) \subseteq Units
<1>1. IsDesign(design)
  BY DesignsAssumption
<1>2. /\ design.body \in [Units -> Seq(StatementOf(Units))]
      /\ \A i \in DOMAIN design.body[u] :
            /\ \A c \in design.body[u][i].calls : Kind(c) # "block"
            /\ design.body[u][i].op = "CALL" =>
                  design.body[u][i].sig = 0 /\ \E c \in design.body[u][i].calls : design.body[u][i].calls = {c}
  BY <1>1 DEF IsDesign, Units, Kind
<1>3. design.body[u] \in Seq(StatementOf(Units))
  BY <1>2
<1>4. ASSUME NEW i \in DOMAIN design.body[u] PROVE design.body[u][i].calls \subseteq Units
  <2>1. design.body[u][i] \in StatementOf(Units)
    BY <1>3, LenProperties, ElementOfSeq
  <2> QED BY <2>1 DEF StatementOf
<1>5. Callees(u) \subseteq Units
  BY <1>4 DEF Callees, Statements
<1>6. ASSUME NEW i \in DOMAIN design.body[u], design.body[u][i].op = "CALL"
      PROVE  \E c \in Units : Kind(c) # "block" /\ design.body[u][i].calls = {c}
  BY <1>2, <1>4, <1>6
<1> QED BY <1>2, <1>3, <1>5, <1>6 DEF UnitBody

LEMMA ReachedIs ==
  ASSUME design \in Designs, NEW b \in Units
  PROVE  /\ b \in Reached(b) /\ Reached(b) \subseteq Units
         /\ \A v \in Reached(b) : Callees(v) \subseteq Reached(b)
         /\ \A S \in SUBSET Units :
               b \in S /\ (\A v \in S : Callees(v) \subseteq S) => Reached(b) \subseteq S
<1>1. \A v \in Units : Callees(v) \subseteq Units
  BY BodyIs
<1> QED BY <1>1 DEF Reached

LEMMA ReachedLess ==
  ASSUME design \in Designs, NoRecursion, NEW u \in Units, NEW c \in Callees(u)
  PROVE  /\ c \in Units /\ Reached(c) \subseteq Reached(u)
         /\ Cardinality(Reached(c)) < Cardinality(Reached(u))
<1>1. c \in Units
  BY BodyIs
<1>2. /\ u \in Reached(u) /\ Reached(u) \in SUBSET Units
      /\ \A v \in Reached(u) : Callees(v) \subseteq Reached(u)
  BY ReachedIs
<1>3. c \in Reached(u)
  BY <1>2
<1>4. Reached(c) \subseteq Reached(u)
  BY <1>1, <1>2, <1>3, ReachedIs
<1>5. u \notin Reached(c)
  BY DEF NoRecursion
<1>6. IsFiniteSet(Reached(u))
  <2>1. IsFiniteSet(Units)
    BY UnitsFinite
  <2> QED BY <1>2, <2>1, FS_Subset
<1>7. Reached(c) # Reached(u)
  BY <1>2, <1>5
<1>8. Cardinality(Reached(c)) < Cardinality(Reached(u))
  <2>1. /\ Cardinality(Reached(c)) <= Cardinality(Reached(u)) /\ IsFiniteSet(Reached(c))
        /\ Cardinality(Reached(c)) # Cardinality(Reached(u))
    BY <1>4, <1>6, <1>7, FS_Subset
  <2>2. Cardinality(Reached(c)) \in Nat /\ Cardinality(Reached(u)) \in Nat
    BY <1>6, <2>1, FS_CardinalityType
  <2> QED BY <2>1, <2>2
<1> QED BY <1>1, <1>4, <1>8

(* The statements of a unit that are no calls. *)
Own(u) == {s \in Statements(u) : s.op # "CALL"}

FlatAt(g, u) ==
  FlattenSeq([i \in DOMAIN design.body[u] |->
                IF design.body[u][i].op = "CALL" THEN g[CHOOSE c \in design.body[u][i].calls : TRUE]
                ELSE <<design.body[u][i]>>])

LEMMA FlatAtIs ==
  ASSUME design \in Designs, NEW u \in Units, NEW g \in [Units -> Seq(StatementOf(Units))]
  PROVE  /\ FlatAt(g, u) \in Seq(StatementOf(Units))
         /\ Elements(FlatAt(g, u)) = Own(u) \cup UNION {Elements(g[c]) : c \in Callees(u)}
         /\ \A h : (\A c \in Callees(u) : g[c] = h[c]) => FlatAt(g, u) = FlatAt(h, u)
<1> DEFINE b == design.body[u]
           n == Len(b)
           S == StatementOf(Units)
           part(f) == [i \in DOMAIN b |-> IF b[i].op = "CALL" THEN f[CHOOSE c \in b[i].calls : TRUE] ELSE <<b[i]>>]
<1>1. b \in Seq(S) /\ n \in Nat /\ DOMAIN b = 1..n /\ \A i \in 1..n : b[i] \in S
  <2>1. b \in Seq(S)
    BY BodyIs DEF UnitBody
  <2> HIDE DEF b, S
  <2> QED BY <2>1, LenProperties, ElementOfSeq
<1>2. ASSUME NEW i \in 1..n, b[i].op = "CALL"
      PROVE  /\ (CHOOSE c \in b[i].calls : TRUE) \in Callees(u) /\ Callees(u) \subseteq Units
             /\ \A c \in b[i].calls : c = CHOOSE d \in b[i].calls : TRUE
  <2>1. PICK c \in Units : b[i].calls = {c}
    BY <1>1, <1>2, BodyIs DEF UnitBody
  <2>2. b[i] \in Statements(u)
    BY <1>1 DEF Statements
  <2>3. c \in Callees(u)
    BY <1>2, <2>1, <2>2 DEF Callees
  <2> QED BY <2>1, <2>3, BodyIs
<1>3. part(g) \in [1..n -> Seq(S)]
  <2> SUFFICES ASSUME NEW i \in 1..n PROVE part(g)[i] \in Seq(S)
    BY <1>1
  <2>1. CASE b[i].op = "CALL"
    BY <1>1, <1>2, <2>1
  <2>2. CASE b[i].op # "CALL"
    <3>1. part(g)[i] = <<b[i]>> /\ b[i] \in S
      BY <1>1, <2>2
    <3> HIDE DEF part, b, S
    <3> QED BY <3>1, SingleIs
  <2> QED BY <2>1, <2>2
<1>4. FlatAt(g, u) = FlattenSeq(part(g)) /\ \A h : FlatAt(h, u) = FlattenSeq(part(h))
  BY DEF FlatAt
<1>5. FlatAt(g, u) \in Seq(S) /\ Elements(FlatAt(g, u)) = Parts(part(g), n)
  <2> HIDE DEF part, S, n
  <2> QED BY <1>1, <1>3, <1>4, FlattenIs
<1>6. ASSUME NEW h, \A c \in Callees(u) : g[c] = h[c] PROVE FlatAt(g, u) = FlatAt(h, u)
  <2>1. ASSUME NEW i \in 1..n PROVE part(g)[i] = part(h)[i]
    <3>1. CASE b[i].op = "CALL"
      BY <1>1, <1>2, <1>6, <3>1
    <3>2. CASE b[i].op # "CALL"
      BY <1>1, <3>2
    <3> QED BY <3>1, <3>2
  <2>2. part(g) = part(h)
    BY <1>1, <2>1
  <2> HIDE DEF part
  <2> QED BY <1>4, <2>2
<1>7. ASSUME NEW i \in 1..n
      PROVE  Elements(part(g)[i]) \subseteq Own(u) \cup UNION {Elements(g[c]) : c \in Callees(u)}
  <2>1. CASE b[i].op = "CALL"
    BY <1>1, <1>2, <2>1
  <2>2. CASE b[i].op # "CALL"
    <3>1. part(g)[i] = <<b[i]>> /\ b[i] \in Own(u)
      BY <1>1, <2>2 DEF Own, Statements
    <3>2. Elements(<<b[i]>>) = {b[i]}
      BY SingleIs
    <3> HIDE DEF part, b, S
    <3> QED BY <3>1, <3>2
  <2> QED BY <2>1, <2>2
<1>8. ASSUME NEW s \in Own(u) PROVE \E i \in 1..n : s \in Elements(part(g)[i])
  <2>1. PICK i \in 1..n : b[i] = s /\ s.op # "CALL"
    BY <1>1 DEF Own, Statements
  <2>2. part(g)[i] = <<s>>
    BY <1>1, <2>1
  <2>3. s \in Elements(part(g)[i])
    BY <2>2, SingleIs
  <2> QED BY <2>1, <2>3
<1>9. ASSUME NEW c \in Callees(u) PROVE \E i \in 1..n : part(g)[i] = g[c]
  <2>1. PICK i \in 1..n : b[i].op = "CALL" /\ c \in b[i].calls
    BY <1>1 DEF Callees, Statements
  <2>2. part(g)[i] = g[c]
    BY <1>1, <1>2, <2>1
  <2> QED BY <2>1, <2>2
<1> HIDE DEF part, n, S
<1>10. Parts(part(g), n) = Own(u) \cup UNION {Elements(g[c]) : c \in Callees(u)}
  <2>1. Parts(part(g), n) \subseteq Own(u) \cup UNION {Elements(g[c]) : c \in Callees(u)}
    BY <1>7 DEF Parts
  <2>2. Own(u) \subseteq Parts(part(g), n)
    BY <1>8 DEF Parts
  <2>3. ASSUME NEW c \in Callees(u) PROVE Elements(g[c]) \subseteq Parts(part(g), n)
    <3>1. PICK i \in 1..n : part(g)[i] = g[c]
      BY <1>9
    <3> QED BY <3>1 DEF Parts
  <2> QED BY <2>1, <2>2, <2>3
<1> QED BY <1>5, <1>6, <1>10 DEF S

(* Of units there is one that calls no other of them. *)
LEMMA CalleesFirst ==
  ASSUME design \in Designs, NoRecursion, NEW B \in SUBSET Units, B # {}
  PROVE  \E u \in B : \A c \in Callees(u) : c \notin B
<1> DEFINE r(u) == Cardinality(Reached(u))
           R == {r(u) : u \in B}
<1>1. ASSUME NEW u \in Units PROVE r(u) \in Nat
  <2>1. IsFiniteSet(Units)
    BY UnitsFinite
  <2>2. IsFiniteSet(Reached(u))
    BY <2>1, ReachedIs, FS_Subset
  <2> QED BY <2>2, FS_CardinalityType
<1>2. R \in SUBSET Nat /\ R # {}
  BY <1>1
<1>3. PICK u \in B : \A v \in B : r(u) <= r(v)
  <2>1. Min(R) \in R /\ \A x \in R : Min(R) <= x
    BY <1>2, LeastIs
  <2> QED BY <2>1
<1>4. ASSUME NEW c \in Callees(u), c \in B PROVE FALSE
  <2>1. r(c) < r(u) /\ r(u) <= r(c)
    BY <1>3, <1>4, ReachedLess
  <2>2. r(c) \in Nat /\ r(u) \in Nat
    BY <1>1, <1>3, <1>4
  <2> HIDE DEF r
  <2> QED BY <2>1, <2>2
<1> QED BY <1>3, <1>4

LEMMA FlatExists ==
  ASSUME design \in Designs, NoRecursion
  PROVE  \E f \in [Units -> Seq(StatementOf(Units))] : f = [u \in Units |-> FlatAt(f, u)]
<1> DEFINE V == Seq(StatementOf(Units))
           D == [g \in [Units -> V] |-> [u \in Units |-> FlatAt(g, u)]]
           r == [u \in Units |-> Cardinality(Reached(u))]
           L == Cardinality(Units)
<1>1. IsFiniteSet(Units)
  BY UnitsFinite
<1>2. Ranked(Units, r, L)
  <2>1. L \in Nat
    BY <1>1, FS_CardinalityType
  <2>2. ASSUME NEW u \in Units PROVE Cardinality(Reached(u)) \in 0..L
    <3>1. Reached(u) \in SUBSET Units
      BY ReachedIs
    <3>2. IsFiniteSet(Reached(u)) /\ Cardinality(Reached(u)) <= L
      BY <1>1, <3>1, FS_Subset
    <3>3. Cardinality(Reached(u)) \in Nat
      BY <3>2, FS_CardinalityType
    <3> QED BY <2>1, <3>2, <3>3
  <2> HIDE DEF L
  <2> QED BY <2>1, <2>2 DEF Ranked
<1>3. ASSUME NEW g \in [Units -> V], NEW h \in [Units -> V], NEW u \in Units,
             \A v \in Units : r[v] < r[u] => g[v] = h[v]
      PROVE  D[g][u] = D[h][u]
  <2>1. \A c \in Callees(u) : c \in Units /\ r[c] < r[u]
    BY ReachedLess
  <2>2. \A c \in Callees(u) : g[c] = h[c]
    BY <1>3, <2>1
  <2>3. FlatAt(g, u) = FlatAt(h, u)
    BY <2>2, FlatAtIs
  <2> QED BY <2>3
<1>4. D \in [[Units -> V] -> [Units -> V]] /\ V # {}
  BY FlatAtIs, EmptySeq
<1> HIDE DEF D, r, L
<1>5. Looks(Units, V, r, D)
  <2> HIDE DEF V
  <2> QED BY <1>3, <1>4 DEF Looks
<1>6. PICK f \in [Units -> V] : f = D[f]
  <2> HIDE DEF V
  <2> QED BY <1>2, <1>5, RecursiveFunction
<1>7. D[f] = [u \in Units |-> FlatAt(f, u)]
  BY <1>6 DEF D
<1> QED BY <1>6, <1>7

(* The statements of a block: its own and those of what it calls. *)
LEMMA FlatIs ==
  ASSUME design \in Designs, NoRecursion
  PROVE  \A u \in Units : /\ Flat(u) \in Seq(StatementOf(Units))
                          /\ Ran(u) = Own(u) \cup UNION {Ran(c) : c \in Callees(u)}
<1> DEFINE V == Seq(StatementOf(Units))
           F == CHOOSE flat : flat = [u \in Units |-> FlatAt(flat, u)]
<1>1. F = [u \in Units |-> FlatAt(F, u)]
  BY FlatExists
<1>2. \A b : Flat(b) = F[b]
  BY DEF Flat, FlatAt
<1> HIDE DEF F
<1> DEFINE B == {u \in Units : F[u] \notin V}
<1>3. B = {}
  <2> SUFFICES ASSUME B # {} PROVE FALSE
    OBVIOUS
  <2>1. PICK u \in B : \A c \in Callees(u) : c \notin B
    BY CalleesFirst
  <2> DEFINE g == [v \in Units |-> IF F[v] \in V THEN F[v] ELSE <<>>]
  <2>2. g \in [Units -> V]
    BY EmptySeq
  <2>3. \A c \in Callees(u) : g[c] = F[c]
    BY <2>1, BodyIs
  <2>4. FlatAt(g, u) = FlatAt(F, u) /\ FlatAt(g, u) \in V
    <3> HIDE DEF g
    <3> QED BY <2>2, <2>3, FlatAtIs
  <2> QED BY <1>1, <2>1, <2>4
<1>4. F \in [Units -> V]
  BY <1>1, <1>3
<1>5. \A u \in Units : Ran(u) = Elements(F[u])
  BY <1>2 DEF Ran, Elements
<1>6. ASSUME NEW u \in Units
      PROVE  F[u] \in V /\ Elements(F[u]) = Own(u) \cup UNION {Elements(F[c]) : c \in Callees(u)}
  <2>1. F[u] = FlatAt(F, u)
    BY <1>1
  <2> QED BY <1>4, <2>1, FlatAtIs
<1>7. ASSUME NEW u \in Units PROVE {Elements(F[c]) : c \in Callees(u)} = {Ran(c) : c \in Callees(u)}
  BY <1>5, BodyIs
<1> QED BY <1>2, <1>5, <1>6, <1>7

LEMMA RanIs ==
  ASSUME design \in Designs, NoRecursion, NEW b \in Units
  PROVE  Ran(b) = UNION {Own(v) : v \in Reached(b)}
<1> DEFINE All(u) == UNION {Own(v) : v \in Reached(u)}
           B == {u \in Units : ~(Ran(u) \subseteq All(u))}
<1>1. B = {}
  <2> SUFFICES ASSUME B # {} PROVE FALSE
    OBVIOUS
  <2>1. PICK u \in B : \A c \in Callees(u) : c \notin B
    BY CalleesFirst
  <2>2. Own(u) \subseteq All(u)
    BY ReachedIs
  <2>3. ASSUME NEW c \in Callees(u) PROVE Ran(c) \subseteq All(u)
    <3>1. c \in Units /\ Reached(c) \subseteq Reached(u)
      BY ReachedLess
    <3>2. Ran(c) \subseteq All(c) /\ All(c) \subseteq All(u)
      BY <2>1, <3>1
    <3> QED BY <3>2
  <2> HIDE DEF All
  <2> QED BY <2>1, <2>2, <2>3, FlatIs
<1>2. Ran(b) \subseteq All(b)
  BY <1>1
<1> DEFINE S == {u \in Units : Ran(u) \subseteq Ran(b)}
<1>3. Reached(b) \subseteq S
  <2>1. b \in S
    OBVIOUS
  <2>2. ASSUME NEW u \in S, NEW c \in Callees(u) PROVE c \in S
    <3>1. Ran(c) \subseteq Ran(u) /\ c \in Units
      BY FlatIs, BodyIs
    <3> QED BY <3>1
  <2>3. S \in SUBSET Units
    OBVIOUS
  <2> HIDE DEF S
  <2> QED BY <2>1, <2>2, <2>3, ReachedIs
<1>4. \A u \in Units : Own(u) \subseteq Ran(u)
  BY FlatIs
<1>5. All(b) \subseteq Ran(b)
  BY <1>3, <1>4
<1> QED BY <1>2, <1>5

-----------------------------------------------------------------------------
(* The expressions of a signal and the blocks they belong to.               *)

LEMMA ExpsAre ==
  ASSUME design \in Designs, NEW g
  PROVE  /\ Len(Exps(g)) \in Nat /\ DOMAIN Exps(g) = 1..Len(Exps(g))
         /\ \A x : x \in Elements(Exps(g)) <=>
                     \E u \in Units : \E s \in Statements(u) : s.sig = g /\ x = [unit |-> u, stmt |-> s]
<1> DEFINE S == [unit : Units, stmt : StatementOf(Units)]
           n == Len(design.kind)
           one(u) == [i \in DOMAIN design.body[u] |->
                        IF design.body[u][i].sig = g THEN <<[unit |-> u, stmt |-> design.body[u][i]]>> ELSE <<>>]
           seqs == [u \in Units |-> FlattenSeq(one(u))]
           Of(u) == {[unit |-> u, stmt |-> s] : s \in {t \in Statements(u) : t.sig = g}}
<1>1. n \in Nat /\ Units = 1..n
  BY DesignUnits
<1>2. ASSUME NEW u \in Units PROVE FlattenSeq(one(u)) \in Seq(S) /\ Elements(FlattenSeq(one(u))) = Of(u)
  <2> DEFINE b == design.body[u]
             m == Len(b)
             f == one(u)
  <2>1. b \in Seq(StatementOf(Units))
    BY BodyIs DEF UnitBody
  <2>2. m \in Nat /\ DOMAIN b = 1..m /\ \A i \in 1..m : b[i] \in StatementOf(Units)
    <3> HIDE DEF b
    <3> QED BY <2>1, LenProperties, ElementOfSeq
  <2>3. Statements(u) = {b[i] : i \in 1..m}
    BY <2>2 DEF Statements
  <2>4. \A i \in 1..m : f[i] = IF b[i].sig = g THEN <<[unit |-> u, stmt |-> b[i]]>> ELSE <<>>
    BY <2>2
  <2>5. f = [i \in 1..m |-> f[i]]
    BY <2>2
  <2> HIDE DEF f, b, m
  <2>6. ASSUME NEW i \in 1..m
        PROVE  /\ f[i] \in Seq(S)
               /\ Elements(f[i]) = IF b[i].sig = g THEN {[unit |-> u, stmt |-> b[i]]} ELSE {}
    <3>1. CASE b[i].sig = g
      <4>1. [unit |-> u, stmt |-> b[i]] \in S
        BY <2>2
      <4>2. f[i] = <<[unit |-> u, stmt |-> b[i]]>>
        BY <2>4, <3>1
      <4>3. f[i] \in Seq(S) /\ Elements(f[i]) = {[unit |-> u, stmt |-> b[i]]}
        <5> HIDE DEF S
        <5> QED BY <4>1, <4>2, SingleIs
      <4> QED BY <3>1, <4>3
    <3>2. CASE b[i].sig # g
      <4>1. f[i] = <<>>
        BY <2>4, <3>2
      <4>2. f[i] \in Seq(S) /\ Elements(f[i]) = {}
        <5> HIDE DEF S
        <5> QED BY <4>1, EmptySeq DEF Elements
      <4> QED BY <3>2, <4>2
    <3> QED BY <3>1, <3>2
  <2>7. f \in [1..m -> Seq(S)]
    BY <2>5, <2>6
  <2>8. FlattenSeq(f) \in Seq(S) /\ Elements(FlattenSeq(f)) = Parts(f, m)
    <3> HIDE DEF S
    <3> QED BY <2>2, <2>7, FlattenIs
  <2>9. Parts(f, m) = Of(u)
    <3>1. ASSUME NEW x \in Parts(f, m) PROVE x \in Of(u)
      <4>1. PICK i \in 1..m : x \in Elements(f[i])
        BY DEF Parts
      <4>2. x \in IF b[i].sig = g THEN {[unit |-> u, stmt |-> b[i]]} ELSE {}
        <5> HIDE DEF S
        <5> QED BY <2>6, <4>1
      <4>3. b[i].sig = g /\ x = [unit |-> u, stmt |-> b[i]]
        BY <4>2
      <4> QED BY <2>3, <4>3
    <3>2. ASSUME NEW x \in Of(u) PROVE x \in Parts(f, m)
      <4>1. PICK i \in 1..m : b[i].sig = g /\ x = [unit |-> u, stmt |-> b[i]]
        BY <2>3
      <4>2. x \in Elements(f[i])
        BY <2>6, <4>1
      <4> QED BY <4>2 DEF Parts
    <3> QED BY <3>1, <3>2
  <2> QED BY <2>8, <2>9 DEF f
<1>3. Exps(g) = FlattenSeq(seqs)
  BY DEF Exps
<1>4. seqs \in [1..n -> Seq(S)] /\ \A u \in Units : Elements(seqs[u]) = Of(u)
  <2> HIDE DEF one, S, Of
  <2> QED BY <1>1, <1>2
<1> HIDE DEF seqs
<1>5. Exps(g) \in Seq(S) /\ Elements(Exps(g)) = Parts(seqs, n)
  <2> HIDE DEF S
  <2> QED BY <1>1, <1>3, <1>4, FlattenIs
<1>6. \A x : x \in Parts(seqs, n) <=> \E u \in Units : x \in Of(u)
  <2> HIDE DEF Of
  <2> QED BY <1>1, <1>4 DEF Parts
<1>7. ASSUME NEW u \in Units, NEW x
      PROVE  x \in Of(u) <=> \E s \in Statements(u) : s.sig = g /\ x = [unit |-> u, stmt |-> s]
  OBVIOUS
<1>8. Len(Exps(g)) \in Nat /\ DOMAIN Exps(g) = 1..Len(Exps(g))
  <2> HIDE DEF S
  <2> QED BY <1>5, LenProperties
<1> HIDE DEF Of
<1> QED BY <1>5, <1>6, <1>7, <1>8

(* No two blocks have a task or a named block in common. *)
OneOwner == \A b, c \in Block : b # c => Reached(b) \cap Reached(c) = {}

LEMMA HeadIs ==
  ASSUME design \in Designs, OneOwner, NEW u \in Units
  PROVE  /\ HeadOf(u) # 0 => HeadOf(u) \in Block /\ u \in Reached(HeadOf(u))
         /\ \A b \in Block : u \in Reached(b) => HeadOf(u) = b
<1> DEFINE heads == {b \in Block : u \in Reached(b)}
<1>1. heads \in SUBSET Nat /\ HeadOf(u) = IF heads = {} THEN 0 ELSE Min(heads)
  BY DesignUnits DEF HeadOf, Block
<1>2. heads # {} => Min(heads) \in heads
  BY <1>1, LeastIs
<1> QED BY <1>1, <1>2 DEF OneOwner

(* An expression that is looked at: not one of a function, of a block that  *)
(* is ignored or of an assignment in a declaration.                         *)
Counts(x) == HeadOf(x.unit) # 0 /\ ~design.ignore_rc[HeadOf(x.unit)] /\ x.stmt.op # "RASSIGN"

SignalsOf(g) == g \in Signals /\ design.signals[g] # "mem"

LEMMA ExpOf ==
  ASSUME design \in Designs, NEW g \in Signals, NEW i \in DOMAIN Exps(g)
  PROVE  /\ Exps(g)[i].unit \in Units /\ Exps(g)[i].stmt \in Own(Exps(g)[i].unit)
         /\ Exps(g)[i].stmt.sig = g
<1> DEFINE x == Exps(g)[i]
<1>1. x \in Elements(Exps(g))
  BY DEF Elements
<1>2. PICK u \in Units : \E s \in Statements(u) : s.sig = g /\ x = [unit |-> u, stmt |-> s]
  BY <1>1, ExpsAre
<1>5. PICK s \in Statements(u) : s.sig = g /\ x = [unit |-> u, stmt |-> s]
  BY <1>2
<1>3. g # 0
  <2>1. design.signals \in Seq({"reg", "input", "inout", "mem"})
    BY DesignsAssumption DEF IsDesign
  <2>2. Len(design.signals) \in Nat /\ DOMAIN design.signals = 1..Len(design.signals)
    BY <2>1, LenProperties
  <2> QED BY <2>2 DEF Signals
<1>4. s.op # "CALL"
  BY <1>5, <1>3, BodyIs DEF UnitBody, Statements
<1> QED BY <1>5, <1>4 DEF Own

LEMMA CountedDrives ==
  ASSUME design \in Designs, NoRecursion, OneOwner, NEW g \in Signals, NEW i \in DOMAIN Exps(g), Counts(Exps(g)[i])
  PROVE  LET h == HeadOf(Exps(g)[i].unit)
         IN h \in Block /\ Checked(h) /\ Exps(g)[i].stmt \in Ran(h) /\ Drives(h, g)
<1> DEFINE x == Exps(g)[i]
           h == HeadOf(x.unit)
<1>1. x.unit \in Units /\ x.stmt \in Own(x.unit) /\ x.stmt.sig = g
  BY ExpOf
<1>2. h \in Block /\ x.unit \in Reached(h) /\ ~design.ignore_rc[h] /\ x.stmt.op # "RASSIGN"
  BY <1>1, HeadIs DEF Counts
<1>3. x.stmt \in Ran(h)
  <2>1. h \in Units
    BY <1>2 DEF Block
  <2> QED BY <1>1, <1>2, <2>1, RanIs
<1> QED BY <1>1, <1>2, <1>3 DEF Checked, Drives

LEMMA DrivesCounted ==
  ASSUME design \in Designs, NoRecursion, OneOwner, NEW g \in Signals, NEW b, Checked(b), NEW s \in Ran(b),
         s.sig = g, s.op # "RASSIGN"
  PROVE  \E i \in DOMAIN Exps(g) : Exps(g)[i].stmt = s /\ HeadOf(Exps(g)[i].unit) = b /\ Counts(Exps(g)[i])
<1>1. b \in Block /\ b \in Units /\ ~design.ignore_rc[b] /\ b # 0
  BY DesignUnits DEF Checked, Block
<1>2. PICK u \in Reached(b) : s \in Own(u)
  BY <1>1, RanIs
<1>3. u \in Units /\ HeadOf(u) = b
  BY <1>1, <1>2, ReachedIs, HeadIs
<1>4. [unit |-> u, stmt |-> s] \in Elements(Exps(g))
  BY <1>2, <1>3, ExpsAre DEF Own
<1>5. PICK i \in DOMAIN Exps(g) : Exps(g)[i] = [unit |-> u, stmt |-> s]
  BY <1>4 DEF Elements
<1> QED BY <1>1, <1>3, <1>5 DEF Counts

Stmt(g, i) == Exps(g)[i].stmt
HeadAt(g, i) == HeadOf(Exps(g)[i].unit)
Countable(g) == {i \in DOMAIN Exps(g) : Counts(Exps(g)[i])}

(* The first of the blocks that assign a signal. *)
First(g) == Min({d \in Block : Checked(d) /\ Drives(d, g)})

(* The expressions of a signal are bound block by block. *)
BlocksInOrder ==
  \A g \in Signals : SignalsOf(g) => \A i, j \in Countable(g) : i < j => HeadAt(g, i) <= HeadAt(g, j)

(* What is marked for an assignment is what it assigns. *)
SelectsMarked == \A u \in Units : \A s \in Own(u) : s.sig \in Signals => Marked(s) = Bits(s)

(* It lies in two neighbouring elements of the vector. *)
TwoElements ==
  \A u \in Units : \A s \in Own(u) :
    s.sig \in Signals /\ Marked(s) # {}
      => Max(Marked(s)) \div UL_BITS < (Min(Marked(s)) \div UL_BITS) + 2

(* A loop stands behind the first of the blocking assignments, if any. *)
LoopsBehind ==
  \A b \in Block : \A i, j \in DOMAIN Flat(b) :
    Flat(b)[i].op = "FOR" /\ Flat(b)[j].op \in {"ASSIGN", "BASSIGN"}
      => \E k \in 1..i-1 : Flat(b)[k].op \in {"ASSIGN", "BASSIGN"}

Checkable == NoRecursion /\ OneOwner /\ BlocksInOrder /\ SelectsMarked /\ TwoElements /\ LoopsBehind

LEMMA DesignSignals ==
  ASSUME design \in Designs
  PROVE  Len(design.signals) \in Nat /\ Signals = 1..Len(design.signals) /\ \A g : Port(g) => design.signals[g] # "mem"
<1>1. design.signals \in Seq({"reg", "input", "inout", "mem"})
  BY DesignsAssumption DEF IsDesign
<1> QED BY <1>1, LenProperties DEF Signals, Port

LEMMA FirstLeast ==
  ASSUME design \in Designs, Checkable, NEW g \in Signals, NEW j \in Countable(g)
  PROVE  /\ First(g) \in Block /\ Checked(First(g)) /\ Drives(First(g), g) /\ First(g) # 0
         /\ First(g) <= HeadAt(g, j) /\ HeadAt(g, j) \in Nat
<1> DEFINE S == {d \in Block : Checked(d) /\ Drives(d, g)}
<1>1. HeadAt(g, j) \in S
  BY CountedDrives DEF Countable, HeadAt, Checkable
<1>2. S \in SUBSET Nat /\ 0 \notin S
  BY DesignUnits DEF Block
<1>3. First(g) = Min(S)
  BY DEF First
<1>4. Min(S) \in S /\ Min(S) <= HeadAt(g, j)
  <2> HIDE DEF S
  <2> QED BY <1>1, <1>2, LeastIs
<1> QED BY <1>1, <1>2, <1>3, <1>4

LEMMA FirstIs ==
  ASSUME design \in Designs, Checkable, NEW g \in Signals, SignalsOf(g), NEW i \in Countable(g),
         \A j \in Countable(g) : i <= j
  PROVE  HeadAt(g, i) = First(g)
<1>1. /\ First(g) \in Block /\ Checked(First(g)) /\ Drives(First(g), g)
      /\ First(g) <= HeadAt(g, i) /\ HeadAt(g, i) \in Nat /\ First(g) \in Nat
  BY FirstLeast, DesignUnits DEF Block
<1>2. PICK s \in Ran(First(g)) : s.op # "RASSIGN" /\ s.sig = g
  BY <1>1 DEF Drives
<1>3. PICK k \in DOMAIN Exps(g) : HeadOf(Exps(g)[k].unit) = First(g) /\ Counts(Exps(g)[k])
  BY <1>1, <1>2, DrivesCounted DEF Checkable
<1>4. k \in Countable(g) /\ HeadAt(g, k) = First(g)
  BY <1>3 DEF Countable, HeadAt
<1>5. i \in Nat /\ k \in Nat /\ i <= k
  BY <1>4, ExpsAre DEF Countable
<1>6. i < k => HeadAt(g, i) <= HeadAt(g, k)
  BY <1>4 DEF Checkable, BlocksInOrder
<1> QED BY <1>1, <1>4, <1>5, <1>6

(* A race is found when a bit of the assignment is marked. *)
LEMMA RaceIs ==
  ASSUME design \in Designs, Checkable, NEW g \in Signals, NEW i \in DOMAIN Exps(g)
  PROVE  /\ Marked(Stmt(g, i)) = Bits(Stmt(g, i))
         /\ Marked(Stmt(g, i)) # {} /\ Already(Marked(Stmt(g, i)), g) <=> Marked(Stmt(g, i)) \cap misc[g] # {}
<1> DEFINE s == Stmt(g, i)
           bits == Marked(s)
<1>1. Exps(g)[i].unit \in Units /\ s \in Own(Exps(g)[i].unit) /\ s.sig = g
  BY ExpOf DEF Stmt
<1>2. bits = Bits(s)
  BY <1>1 DEF Checkable, SelectsMarked
<1>3. bits # {} => Max(bits) \div UL_BITS < (Min(bits) \div UL_BITS) + 2
  BY <1>1 DEF Checkable, TwoElements
<1> HIDE DEF bits
<1>4. bits # {} => (Already(bits, g) <=> \E b \in bits : b \in misc[g])
  BY <1>3 DEF Already
<1> QED BY <1>2, <1>4 DEF bits

(* The first four checks. *)
LEMMA MixesIs ==
  ASSUME design \in Designs, Checkable, NEW b \in Block,
         sb[b].bassign = Assignments(b).bassign, sb[b].nassign = Assignments(b).nassign
  PROVE  TypeRule(b) # "none" <=> Mixes(b)
<1> DEFINE run == Flat(b)
           Is(i) == run[i].op \in {"ASSIGN", "BASSIGN"}
           blocking == \E i \in DOMAIN run : Is(i)
           nonblocking == \E i \in DOMAIN run : run[i].op = "NASSIGN"
<1>1. b \in Units /\ run \in Seq(StatementOf(Units))
  BY FlatIs DEF Block, Checkable
<1>2. Len(run) \in Nat /\ DOMAIN run = 1..Len(run)
  <2> HIDE DEF run
  <2> QED BY <1>1, LenProperties
<1>3. Assignments(b).nassign <=> nonblocking
  BY DEF Assignments
<1>4. Assignments(b).bassign <=> \E i \in DOMAIN run : Is(i) /\ \A j \in 1..i-1 : run[j].op # "FOR"
  BY DEF Assignments
<1>5. blocking => Assignments(b).bassign
  <2> SUFFICES ASSUME blocking PROVE \E i \in DOMAIN run : Is(i) /\ \A j \in 1..i-1 : run[j].op # "FOR"
    BY <1>4
  <2> DEFINE S == {i \in DOMAIN run : Is(i)}
  <2>0. S \in SUBSET Nat /\ S # {}
    BY <1>2
  <2>1. PICK i \in S : \A j \in S : i <= j
    <3> HIDE DEF S
    <3> QED BY <2>0, LeastIs
  <2>2. ASSUME NEW j \in 1..i-1, run[j].op = "FOR" PROVE FALSE
    <3>1. j \in DOMAIN run
      BY <1>2
    <3>2. PICK k \in 1..j-1 : run[k].op \in {"ASSIGN", "BASSIGN"}
      BY <2>1, <2>2, <3>1 DEF Checkable, LoopsBehind
    <3>3. k \in S /\ k < i
      BY <1>2, <3>2
    <3> QED BY <1>2, <2>1, <3>3
  <2> QED BY <2>1, <2>2
<1>6. (sb[b].bassign <=> blocking) /\ (sb[b].nassign <=> nonblocking)
  <2> HIDE DEF Is, run
  <2>1. Assignments(b).bassign => blocking
    BY <1>4
  <2> QED BY <1>3, <1>5, <2>1
<1>7. /\ blocking <=> \E s \in Ran(b) : s.op \in {"ASSIGN", "BASSIGN"}
      /\ nonblocking <=> \E s \in Ran(b) : s.op = "NASSIGN"
  BY DEF Ran
<1> HIDE DEF blocking, nonblocking
<1>8. Mixes(b) <=> \/ design.edge[b] \in {"seq", "mixed"} /\ blocking
                   \/ design.edge[b] = "cmb" /\ nonblocking
                   \/ blocking /\ nonblocking
  BY <1>7 DEF Mixes
<1>9. TypeRule(b) # "none" <=> \/ design.edge[b] \in {"seq", "mixed"} /\ sb[b].bassign
                               \/ design.edge[b] = "cmb" /\ sb[b].nassign
                               \/ sb[b].bassign /\ sb[b].nassign
  BY DEF TypeRule
<1> QED BY <1>6, <1>8, <1>9

-----------------------------------------------------------------------------
(* What has been done when the loop stands at expression index of signal sig. *)

Counted(g) == {i \in Countable(g) : g < sig \/ (g = sig /\ i < index)}

Reasons ==
  {"SEQ_USES_NON_BLOCK", "CMB_USES_BLOCK", "MIX_USES_NON_BLOCK", "HOMOGENOUS",
   "ASSIGN_IN_ONE_BLOCK1", "ASSIGN_IN_ONE_BLOCK2"}

(* Each listed block is to be removed, and none is listed twice. *)
ListInv ==
  /\ sb \in [Block -> [remove : BOOLEAN, bassign : BOOLEAN, nassign : BOOLEAN]]
  /\ races \in Seq([block : Block, reason : Reasons]) /\ races_found \in Nat
  /\ \A i, j \in DOMAIN races : /\ races[i].block \in Condemned
                                /\ i # j => races[i].block # races[j].block
  /\ races_found = 0 <=> Condemned = {}

(* No block is removed without a reason. *)
ReasonInv == \A b \in Condemned : Checked(b) /\ (Mixes(b) \/ DrivesPort(b) \/ Contended(b))

(* The blocks that mix assignments are found first. *)
TypesInv ==
  /\ \A b \in Block : sb[b].bassign = Assignments(b).bassign /\ sb[b].nassign = Assignments(b).nassign
  /\ \A b \in Block : Checked(b) /\ Mixes(b) /\ (pc = "types" => b < index) => b \in Condemned

(* The bits of the expressions that were looked at are marked. *)
MarksInv ==
  \A g \in Signals : SignalsOf(g) =>
    \A bit : bit \in misc[g] <=> \E i \in Counted(g) : bit \in Marked(Stmt(g, i))

(* The statement of the signal is the first block that assigns it. *)
FirstInv ==
  sig \in Signals /\ SignalsOf(sig) => IF Counted(sig) = {} THEN sig_stmt = 0 ELSE sig_stmt = First(sig)

(* Two blocks that assign a common bit were found. *)
PairsInv ==
  \A g \in Signals : SignalsOf(g) =>
    \A i, j \in Counted(g) :
      i < j /\ HeadAt(g, i) # HeadAt(g, j) /\ Marked(Stmt(g, i)) \cap Marked(Stmt(g, j)) # {}
        => {HeadAt(g, j), First(g)} \subseteq Condemned

(* So was one of the blocks that drive an input. *)
PortInv ==
  \A g \in Signals : Port(g) /\ Counted(g) # {} => \E b \in Condemned : Drives(b, g)

ExpsInv == MarksInv /\ FirstInv /\ PairsInv /\ PortInv

CounterInv ==
  /\ sig \in Nat \ {0} /\ index \in Nat \ {0}
  /\ misc \in [Signals -> SUBSET Nat]
  /\ pc \in {"calc", "types"} => sig = 1 /\ sig_stmt = 0 /\ misc = [g \in Signals |-> {}]
  /\ pc = "calc" => Condemned = {}
  /\ CheckDone => /\ sig \notin Signals
                  /\ pc = "halted" <=> races_found > 0 /\ flag_race_check = "FATAL"

RacesInv ==
  /\ design \in Designs /\ Checkable
  /\ pc \in {"calc", "types", "exps", "remove", "halted"}
  /\ CounterInv /\ ListInv /\ ReasonInv
  /\ pc # "calc" => TypesInv
  /\ pc \in {"exps", "remove", "halted"} => ExpsInv

-----------------------------------------------------------------------------
(* What says something of the design only does not change. *)

LEMMA SameDesign ==
  ASSUME design' = design
  PROVE  /\ Units' = Units /\ Block' = Block /\ Signals' = Signals
         /\ \A b : Assignments(b)' = Assignments(b) /\ (Checked(b)' <=> Checked(b))
         /\ \A b : (Mixes(b)' <=> Mixes(b)) /\ (DrivesPort(b)' <=> DrivesPort(b)) /\ (Contended(b)' <=> Contended(b))
         /\ \A b, g : Drives(b, g)' <=> Drives(b, g)
         /\ \A g : /\ (SignalsOf(g)' <=> SignalsOf(g)) /\ (Port(g)' <=> Port(g))
                   /\ First(g)' = First(g) /\ Countable(g)' = Countable(g)
         /\ \A g, i : Stmt(g, i)' = Stmt(g, i) /\ HeadAt(g, i)' = HeadAt(g, i)
         /\ Checkable' <=> Checkable
<1>1. Units' = Units /\ Signals' = Signals /\ \A u : Kind(u)' = Kind(u) /\ Statements(u)' = Statements(u)
  BY DEF Units, Signals, Kind, Statements
<1>2. Block' = Block /\ \A u : Callees(u)' = Callees(u) /\ Own(u)' = Own(u)
  BY <1>1 DEF Block, Callees, Own
<1>3. \A u : Reached(u)' = Reached(u)
  BY <1>1, <1>2 DEF Reached
<1>4. \A u : Flat(u)' = Flat(u)
  BY <1>1 DEF Flat
<1>5. \A u : Ran(u)' = Ran(u) /\ HeadOf(u)' = HeadOf(u) /\ Assignments(u)' = Assignments(u) /\ (Checked(u)' <=> Checked(u))
  BY <1>2, <1>3, <1>4 DEF Ran, HeadOf, Assignments, Checked
<1>6. \A g : Exps(g)' = Exps(g)
  BY <1>1 DEF Exps
<1>7. \A b, g : Drives(b, g)' <=> Drives(b, g)
  BY <1>5 DEF Drives
<1>8. \A g : (Port(g)' <=> Port(g)) /\ (SignalsOf(g)' <=> SignalsOf(g))
  BY <1>1 DEF Port, SignalsOf
<1>9. \A b : (Mixes(b)' <=> Mixes(b)) /\ (DrivesPort(b)' <=> DrivesPort(b)) /\ (Contended(b)' <=> Contended(b))
  <2>1. \A b : Mixes(b)' <=> Mixes(b)
    BY <1>5 DEF Mixes
  <2>2. \A b : DrivesPort(b)' <=> DrivesPort(b)
    BY <1>1, <1>7, <1>8 DEF DrivesPort
  <2>3. \A b : Contended(b)' <=> Contended(b)
    BY <1>1, <1>2, <1>5, <1>6, <1>7 DEF Contended
  <2> QED BY <2>1, <2>2, <2>3
<1>10. \A x : Counts(x)' <=> Counts(x)
  BY <1>5 DEF Counts
<1>11. \A g : Countable(g)' = Countable(g) /\ First(g)' = First(g)
  <2>1. \A g : Countable(g)' = Countable(g)
    BY <1>6, <1>10 DEF Countable
  <2>2. ASSUME NEW g PROVE First(g)' = First(g)
    <3>1. {d \in Block : Checked(d) /\ Drives(d, g)}' = {d \in Block : Checked(d) /\ Drives(d, g)}
      BY <1>2, <1>5, <1>7
    <3> QED BY <3>1 DEF First
  <2> QED BY <2>1, <2>2
<1>12. \A g, i : Stmt(g, i)' = Stmt(g, i) /\ HeadAt(g, i)' = HeadAt(g, i)
  BY <1>5, <1>6 DEF Stmt, HeadAt
<1>13. (NoRecursion' <=> NoRecursion) /\ (OneOwner' <=> OneOwner) /\ (BlocksInOrder' <=> BlocksInOrder)
  BY <1>1, <1>2, <1>3, <1>8, <1>11, <1>12 DEF NoRecursion, OneOwner, BlocksInOrder
<1>14. (SelectsMarked' <=> SelectsMarked) /\ (TwoElements' <=> TwoElements) /\ (LoopsBehind' <=> LoopsBehind)
  BY <1>1, <1>2, <1>4 DEF SelectsMarked, TwoElements, LoopsBehind
<1> QED BY <1>1, <1>2, <1>5, <1>7, <1>8, <1>9, <1>11, <1>12, <1>13, <1>14 DEF Checkable

(* What race_handle_race_condition does. *)
LEMMA HandleIs ==
  ASSUME ListInv, Block' = Block, NEW b \in Block, NEW also \in Block, NEW reason \in Reasons,
         Handle(b, also, reason)
  PROVE  /\ ListInv' /\ Condemned' = Condemned \cup {b, also}
         /\ \A c \in Block : sb'[c].bassign = sb[c].bassign /\ sb'[c].nassign = sb[c].nassign
<1> DEFINE S == [block : Block, reason : Reasons]
           r == [block |-> b, reason |-> reason]
<1>1. /\ races' = (IF \E i \in DOMAIN races : races[i].block = b THEN races ELSE Append(races, r))
      /\ sb' = [c \in Block |-> [sb[c] EXCEPT !.remove = @ \/ c \in {b, also}]]
      /\ races_found' = races_found + 1
  BY DEF Handle
<1>2. ASSUME NEW c \in Block
      PROVE  /\ sb'[c] \in [remove : BOOLEAN, bassign : BOOLEAN, nassign : BOOLEAN]
             /\ sb'[c].bassign = sb[c].bassign /\ sb'[c].nassign = sb[c].nassign
             /\ sb'[c].remove <=> sb[c].remove \/ c \in {b, also}
  <2>1. sb[c] \in [remove : BOOLEAN, bassign : BOOLEAN, nassign : BOOLEAN]
    BY DEF ListInv
  <2>2. sb'[c] = [sb[c] EXCEPT !.remove = @ \/ c \in {b, also}]
    BY <1>1
  <2> QED BY <2>1, <2>2
<1>3. sb' \in [Block -> [remove : BOOLEAN, bassign : BOOLEAN, nassign : BOOLEAN]]
  BY <1>1, <1>2
<1>4. Condemned' = Condemned \cup {b, also}
  BY <1>2 DEF Condemned
<1>5. races \in Seq(S) /\ r \in S /\ Len(races) \in Nat /\ DOMAIN races = 1..Len(races)
  BY LenProperties DEF ListInv
<1>6. /\ races' \in Seq(S)
      /\ \A i, j \in DOMAIN races' : /\ races'[i].block \in Condemned \cup {b}
                                     /\ i # j => races'[i].block # races'[j].block
  <2>1. CASE \E i \in DOMAIN races : races[i].block = b
    BY <1>1, <1>5, <2>1 DEF ListInv
  <2>2. CASE ~\E i \in DOMAIN races : races[i].block = b
    <3>1. races' = Append(races, r)
      BY <1>1, <2>2
    <3>2. /\ races' \in Seq(S) /\ Len(races') = Len(races) + 1 /\ DOMAIN races' = 1..Len(races')
          /\ races'[Len(races) + 1] = r /\ \A i \in 1..Len(races) : races'[i] = races[i]
      <4> HIDE DEF S, r
      <4> QED BY <1>5, <3>1, AppendProperties, LenProperties
    <3>3. ASSUME NEW i \in DOMAIN races'
          PROVE  \/ i \in DOMAIN races /\ races'[i] = races[i] /\ races[i].block \in Condemned
                 \/ i = Len(races) + 1 /\ races'[i].block = b
      BY <1>5, <3>2 DEF ListInv
    <3>4. \A i, j \in DOMAIN races' : i # j => races'[i].block # races'[j].block
      <4> SUFFICES ASSUME NEW i \in DOMAIN races', NEW j \in DOMAIN races', i # j
                   PROVE  races'[i].block # races'[j].block
        OBVIOUS
      <4> HIDE DEF S, r
      <4> QED BY <1>5, <2>2, <3>3 DEF ListInv
    <3> QED BY <3>2, <3>3, <3>4
  <2> QED BY <2>1, <2>2
<1>7. races_found' \in Nat /\ races_found' # 0 /\ Condemned' # {}
  BY <1>1, <1>4 DEF ListInv
<1>8. \A i \in DOMAIN races' : races'[i].block \in Condemned'
  BY <1>4, <1>6
<1> QED BY <1>2, <1>3, <1>4, <1>6, <1>7, <1>8 DEF ListInv

(* With no race nothing changes. *)
LEMMA NoRaceIs ==
  ASSUME ListInv, Block' = Block, NoRace
  PROVE  ListInv' /\ Condemned' = Condemned /\ sb' = sb
<1>1. sb' = sb /\ races' = races /\ races_found' = races_found
  BY DEF NoRace
<1>2. Condemned' = Condemned
  BY <1>1 DEF Condemned
<1> QED BY <1>1, <1>2 DEF ListInv

LEMMA InitRaces == Init /\ Checkable => RacesInv
<1> SUFFICES ASSUME Init, Checkable PROVE RacesInv
  OBVIOUS
<1>1. /\ design \in Designs /\ pc = "calc" /\ index = 1 /\ sig = 1 /\ sig_stmt = 0
      /\ misc = [g \in Signals |-> {}] /\ races = <<>> /\ races_found = 0
      /\ sb = [b \in Block |-> [remove |-> FALSE, bassign |-> FALSE, nassign |-> FALSE]]
  BY DEF Init, InitBlocks
<1>2. Condemned = {}
  BY <1>1 DEF Condemned
<1>3. ListInv
  <2>1. races \in Seq([block : Block, reason : Reasons]) /\ DOMAIN races = {}
    BY <1>1, EmptySeq
  <2> QED BY <1>1, <1>2, <2>1 DEF ListInv
<1>4. CounterInv
  BY <1>1, <1>2 DEF CounterInv, CheckDone
<1> QED BY <1>1, <1>2, <1>3, <1>4 DEF RacesInv, ReasonInv

(* race_calc_assignments for all blocks. *)
LEMMA CalcStep ==
  ASSUME RacesInv, CalcAssignments
  PROVE  RacesInv'
<1>1. /\ design' = design /\ pc = "calc" /\ pc' = "types"
      /\ sb' = [b \in Block |-> Assignments(b)]
      /\ index' = Min(Block \cup {Len(design.kind) + 1})
      /\ races' = races /\ races_found' = races_found
      /\ sig' = sig /\ sig_stmt' = sig_stmt /\ misc' = misc /\ flag_race_check' = flag_race_check
  BY DEF CalcAssignments, blockVars
<1>2. /\ Block' = Block /\ Signals' = Signals /\ (Checkable' <=> Checkable)
      /\ \A b : Assignments(b)' = Assignments(b)
  BY <1>1, SameDesign
<1>3. \A b : Assignments(b) \in [remove : BOOLEAN, bassign : BOOLEAN, nassign : BOOLEAN] /\ Assignments(b).remove = FALSE
  BY DEF Assignments
<1>4. design \in Designs /\ Checkable /\ CounterInv /\ ListInv /\ Condemned = {}
  BY <1>1 DEF RacesInv, CounterInv
<1>5. Condemned' = {}
  BY <1>1, <1>2, <1>3 DEF Condemned
<1>6. index' \in Nat \ {0} /\ \A b \in Block : ~(b < index')
  <2> DEFINE S == Block \cup {Len(design.kind) + 1}
  <2>1. S \in SUBSET (Nat \ {0}) /\ S # {}
    BY <1>4, DesignUnits DEF Block
  <2>2. Min(S) \in S /\ \A j \in S : Min(S) <= j
    <3> HIDE DEF S
    <3> QED BY <2>1, LeastIs
  <2>3. index' \in S /\ \A j \in S : index' <= j
    <3> HIDE DEF S
    <3> QED BY <1>1, <2>2 DEF S
  <2> QED BY <2>1, <2>3
<1>7. ListInv'
  <2>1. sb' \in [Block' -> [remove : BOOLEAN, bassign : BOOLEAN, nassign : BOOLEAN]]
    BY <1>1, <1>2, <1>3
  <2>2. DOMAIN races = {}
    BY <1>4 DEF ListInv
  <2> QED BY <1>1, <1>2, <1>4, <1>5, <2>1, <2>2 DEF ListInv
<1>8. CounterInv'
  BY <1>1, <1>2, <1>4, <1>5, <1>6 DEF CounterInv, CheckDone
<1>9. TypesInv'
  BY <1>1, <1>2, <1>6 DEF TypesInv
<1> QED BY <1>1, <1>2, <1>4, <1>5, <1>7, <1>8, <1>9 DEF RacesInv, ReasonInv

(* race_check_assignment_types for one block. *)
LEMMA TypesStep ==
  ASSUME RacesInv, CheckTypes
  PROVE  RacesInv'
<1>1. /\ design' = design /\ pc = "types" /\ sig' = sig /\ sig_stmt' = sig_stmt /\ misc' = misc
  BY DEF CheckTypes, blockVars
<1>2. /\ design \in Designs /\ Checkable /\ CounterInv /\ ListInv /\ ReasonInv /\ TypesInv
  BY <1>1 DEF RacesInv
<1>3. /\ Units' = Units /\ Block' = Block /\ Signals' = Signals /\ (Checkable' <=> Checkable)
      /\ \A b : Assignments(b)' = Assignments(b) /\ (Checked(b)' <=> Checked(b))
      /\ \A b : (Mixes(b)' <=> Mixes(b)) /\ (DrivesPort(b)' <=> DrivesPort(b)) /\ (Contended(b)' <=> Contended(b))
      /\ \A b, g : Drives(b, g)' <=> Drives(b, g)
      /\ \A g : /\ (SignalsOf(g)' <=> SignalsOf(g)) /\ (Port(g)' <=> Port(g))
                /\ First(g)' = First(g) /\ Countable(g)' = Countable(g)
      /\ \A g, i : Stmt(g, i)' = Stmt(g, i) /\ HeadAt(g, i)' = HeadAt(g, i)
  BY <1>1, SameDesign
<1>4. /\ sig = 1 /\ sig_stmt = 0 /\ misc = [g \in Signals |-> {}] /\ index \in Nat \ {0}
  BY <1>1, <1>2 DEF CounterInv
<1>5. CASE index \in Units
  <2>1. pc' = pc /\ index' = index + 1
    BY <1>5 DEF CheckTypes
  <2>2. /\ ListInv' /\ Condemned \subseteq Condemned'
        /\ \A c \in Block : sb'[c].bassign = sb[c].bassign /\ sb'[c].nassign = sb[c].nassign
        /\ \A b \in Condemned' : b \in Condemned \/ (Checked(b) /\ Mixes(b))
        /\ Checked(index) /\ Mixes(index) => index \in Condemned'
    <3>1. index \in Block => (TypeRule(index) # "none" <=> Mixes(index))
      BY <1>2, MixesIs DEF TypesInv
    <3>2. CASE index \in Block /\ ~design.ignore_rc[index] /\ TypeRule(index) # "none"
      <4>0. TypeRule(index) \in Reasons
        BY <3>2 DEF TypeRule, Reasons
      <4>1. Handle(index, index, TypeRule(index))
        BY <1>5, <3>2 DEF CheckTypes
      <4>2. /\ ListInv' /\ Condemned' = Condemned \cup {index, index}
            /\ \A c \in Block : sb'[c].bassign = sb[c].bassign /\ sb'[c].nassign = sb[c].nassign
        BY <1>2, <1>3, <3>2, <4>0, <4>1, HandleIs
      <4> QED BY <3>1, <3>2, <4>2 DEF Checked
    <3>3. CASE ~(index \in Block /\ ~design.ignore_rc[index] /\ TypeRule(index) # "none")
      <4>1. NoRace
        BY <1>5, <3>3 DEF CheckTypes
      <4>2. ListInv' /\ Condemned' = Condemned /\ sb' = sb
        BY <1>2, <1>3, <4>1, NoRaceIs
      <4> QED BY <3>1, <3>3, <4>2 DEF Checked
    <3> QED BY <3>2, <3>3
  <2>3. ReasonInv'
    BY <1>2, <1>3, <2>2 DEF ReasonInv
  <2>4. TypesInv'
    <3>2. ASSUME NEW b \in Block, Checked(b), Mixes(b), b < index' PROVE b \in Condemned'
      <4>1. b \in Nat
        BY <1>2, DesignUnits DEF Block
      <4>2. b < index \/ b = index
        BY <1>4, <2>1, <3>2, <4>1
      <4> QED BY <1>1, <1>2, <2>2, <3>2, <4>2 DEF TypesInv
    <3> QED BY <1>1, <1>2, <1>3, <2>1, <2>2, <3>2 DEF TypesInv
  <2>5. CounterInv'
    BY <1>1, <1>2, <1>3, <1>4, <2>1 DEF CounterInv, CheckDone
  <2> QED BY <1>1, <1>2, <1>3, <2>1, <2>2, <2>3, <2>4, <2>5 DEF RacesInv
<1>6. CASE index \notin Units
  <2>1. pc' = "exps" /\ index' = 1 /\ NoRace
    BY <1>6 DEF CheckTypes
  <2>2. ListInv' /\ Condemned' = Condemned /\ sb' = sb
    BY <1>2, <1>3, <2>1, NoRaceIs
  <2>3. ReasonInv'
    BY <1>2, <1>3, <2>2 DEF ReasonInv
  <2>4. TypesInv'
    <3>1. \A b \in Block : b < index
      BY <1>2, <1>4, <1>6, DesignUnits DEF Block
    <3> QED BY <1>1, <1>2, <1>3, <2>1, <2>2, <3>1 DEF TypesInv
  <2>5. CounterInv'
    BY <1>1, <1>2, <1>3, <1>4, <2>1 DEF CounterInv, CheckDone
  <2>6. ASSUME NEW g \in Signals PROVE Counted(g)' = {} /\ misc'[g] = {}
    <3>1. g \in Nat \ {0} /\ ~(g < 1)
      BY <1>2, DesignSignals
    <3>2. \A i \in Countable(g) : i \in Nat \ {0} /\ ~(i < 1)
      BY <1>2, ExpsAre DEF Countable
    <3>3. Counted(g)' = {i \in Countable(g) : g < 1 \/ (g = 1 /\ i < 1)}
      BY <1>1, <1>3, <1>4, <2>1 DEF Counted
    <3> QED BY <1>1, <1>4, <3>1, <3>2, <3>3
  <2>7. ExpsInv'
    BY <1>1, <1>3, <1>4, <2>6 DEF ExpsInv, MarksInv, FirstInv, PairsInv, PortInv
  <2> QED BY <1>1, <1>2, <1>3, <2>1, <2>2, <2>3, <2>4, <2>5, <2>7 DEF RacesInv
<1> QED BY <1>5, <1>6

(* A race is found between the block of the expression that is looked at    *)
(* and the first block of the signal.                                       *)
LEMMA BothContended ==
  ASSUME RacesInv, ExpsInv, SignalsOf(sig), index \in Countable(sig), Counted(sig) # {},
         First(sig) # HeadAt(sig, index), Marked(Stmt(sig, index)) \cap misc[sig] # {}
  PROVE  Contended(HeadAt(sig, index)) /\ Contended(First(sig))
<1> DEFINE curr == HeadAt(sig, index)
           first == First(sig)
<1>1. /\ design \in Designs /\ Checkable /\ sig \in Signals /\ index \in DOMAIN Exps(sig)
      /\ Counts(Exps(sig)[index])
  BY DEF RacesInv, SignalsOf, Countable
<1>2. PICK bit \in Marked(Stmt(sig, index)) : bit \in misc[sig]
  OBVIOUS
<1>3. PICK i \in Counted(sig) : bit \in Marked(Stmt(sig, i))
  BY <1>1, <1>2 DEF ExpsInv, MarksInv
<1>4. i \in Countable(sig) /\ i \in DOMAIN Exps(sig) /\ i < index
  BY <1>1, <1>3, DesignSignals DEF Counted, Countable
<1>5. i # index
  BY <1>1, <1>4, ExpsAre
<1>6. bit \in Bits(Stmt(sig, i)) \cap Bits(Stmt(sig, index))
  BY <1>1, <1>2, <1>3, <1>4, RaceIs
<1>7. \E k, l \in DOMAIN Exps(sig) : k # l /\ Bits(Exps(sig)[k].stmt) \cap Bits(Exps(sig)[l].stmt) # {}
  BY <1>1, <1>4, <1>5, <1>6 DEF Stmt
<1>8. curr \in Block /\ Checked(curr) /\ Drives(curr, sig)
  BY <1>1, CountedDrives DEF HeadAt, Checkable
<1>9. first \in Block /\ Checked(first) /\ Drives(first, sig)
  BY <1>1, <1>4, FirstLeast
<1> HIDE DEF curr, first
<1>10. curr # first
  BY DEF curr, first
<1>11. Contended(curr)
  BY <1>1, <1>7, <1>8, <1>9, <1>10 DEF Contended
<1>12. Contended(first)
  BY <1>1, <1>7, <1>8, <1>9, <1>10 DEF Contended
<1> QED BY <1>11, <1>12 DEF curr, first

(* race_check_one_block_assignment for an expression of a block. *)
LEMMA CountedStep ==
  ASSUME RacesInv, ExpsInv, CheckExp, SignalsOf(sig), index \in Countable(sig), Block' = Block
  PROVE  /\ misc' = [misc EXCEPT ![sig] = @ \cup Marked(Stmt(sig, index))]
         /\ sig_stmt' = First(sig)
         /\ ListInv' /\ Condemned \subseteq Condemned'
         /\ \A c \in Block : sb'[c].bassign = sb[c].bassign /\ sb'[c].nassign = sb[c].nassign
         /\ \A b \in Condemned' : b \in Condemned \/ (Checked(b) /\ (DrivesPort(b) \/ Contended(b)))
         /\ Counted(sig) = {} /\ Port(sig) => HeadAt(sig, index) \in Condemned'
         /\ Counted(sig) # {} /\ First(sig) # HeadAt(sig, index) /\ Marked(Stmt(sig, index)) \cap misc[sig] # {}
              => {HeadAt(sig, index), First(sig)} \subseteq Condemned'
<1> DEFINE curr == HeadAt(sig, index)
           first == First(sig)
           bits == Marked(Stmt(sig, index))
           race == bits \cap misc[sig] # {}
<1>1. /\ design \in Designs /\ Checkable /\ sig \in Signals /\ index \in DOMAIN Exps(sig)
      /\ Counts(Exps(sig)[index]) /\ ListInv
  BY DEF RacesInv, SignalsOf, Countable
<1>2. bits # {} /\ Already(bits, sig) <=> race
  BY <1>1, RaceIs
<1>3. /\ misc' = [misc EXCEPT ![sig] = @ \cup bits]
      /\ sig_stmt' = (IF sig_stmt = 0 THEN curr ELSE sig_stmt)
      /\ IF sig_stmt = 0
         THEN IF Port(sig) \/ race THEN Handle(curr, curr, "ASSIGN_IN_ONE_BLOCK2") ELSE NoRace
         ELSE IF sig_stmt # curr /\ race THEN Handle(curr, sig_stmt, "ASSIGN_IN_ONE_BLOCK1") ELSE NoRace
  <2> DEFINE x == Exps(sig)[index]
  <2>1. ~(HeadOf(x.unit) = 0 \/ design.ignore_rc[HeadOf(x.unit)] \/ x.stmt.op = "RASSIGN")
    BY <1>1 DEF Counts
  <2>2. Marked(x.stmt) = bits /\ HeadOf(x.unit) = curr
    BY DEF Stmt, HeadAt
  <2> HIDE DEF bits, curr, race
  <2>3. /\ misc' = [misc EXCEPT ![sig] = @ \cup bits]
        /\ sig_stmt' = (IF sig_stmt = 0 THEN curr ELSE sig_stmt)
        /\ IF sig_stmt = 0
           THEN IF Port(sig) \/ (bits # {} /\ Already(bits, sig))
                THEN Handle(curr, curr, "ASSIGN_IN_ONE_BLOCK2") ELSE NoRace
           ELSE IF sig_stmt # curr /\ bits # {} /\ Already(bits, sig)
                THEN Handle(curr, sig_stmt, "ASSIGN_IN_ONE_BLOCK1") ELSE NoRace
    BY <2>1, <2>2 DEF CheckExp
  <2> QED BY <1>2, <2>3
<1>4. curr \in Block /\ Checked(curr) /\ Drives(curr, sig)
  BY <1>1, CountedDrives DEF HeadAt, Checkable
<1>5. first \in Block /\ Checked(first) /\ Drives(first, sig) /\ first # 0
  BY <1>1, FirstLeast
<1>6. CASE Counted(sig) = {}
  <2>1. sig_stmt = 0 /\ ~race
    BY <1>1, <1>6 DEF ExpsInv, FirstInv, MarksInv
  <2>2. \A j \in Countable(sig) : index <= j
    BY <1>1, <1>6, ExpsAre DEF Counted, Countable
  <2>3. curr = first
    BY <1>1, <2>2, FirstIs
  <2>4. CASE Port(sig)
    <3>1. Handle(curr, curr, "ASSIGN_IN_ONE_BLOCK2") /\ "ASSIGN_IN_ONE_BLOCK2" \in Reasons
      BY <1>3, <2>1, <2>4 DEF Reasons
    <3>2. /\ ListInv' /\ Condemned' = Condemned \cup {curr, curr}
          /\ \A c \in Block : sb'[c].bassign = sb[c].bassign /\ sb'[c].nassign = sb[c].nassign
      <4> HIDE DEF curr
      <4> QED BY <1>1, <1>4, <3>1, HandleIs
    <3>3. DrivesPort(curr)
      BY <1>1, <1>4, <2>4 DEF DrivesPort
    <3> QED BY <1>3, <1>4, <1>6, <2>1, <2>3, <3>2, <3>3
  <2>5. CASE ~Port(sig)
    <3>1. NoRace
      BY <1>3, <2>1, <2>5
    <3>2. ListInv' /\ Condemned' = Condemned /\ sb' = sb
      BY <1>1, <3>1, NoRaceIs
    <3> QED BY <1>3, <1>6, <2>1, <2>3, <2>5, <3>2
  <2> QED BY <2>4, <2>5
<1>7. CASE Counted(sig) # {}
  <2>1. sig_stmt = first /\ sig_stmt # 0
    BY <1>1, <1>5, <1>7 DEF ExpsInv, FirstInv
  <2>2. CASE first # curr /\ race
    <3>1. Handle(curr, first, "ASSIGN_IN_ONE_BLOCK1") /\ "ASSIGN_IN_ONE_BLOCK1" \in Reasons
      BY <1>3, <2>1, <2>2 DEF Reasons
    <3>2. /\ ListInv' /\ Condemned' = Condemned \cup {curr, first}
          /\ \A c \in Block : sb'[c].bassign = sb[c].bassign /\ sb'[c].nassign = sb[c].nassign
      <4> HIDE DEF curr, first
      <4> QED BY <1>1, <1>4, <1>5, <3>1, HandleIs
    <3>3. Contended(curr) /\ Contended(first)
      BY <1>7, <2>2, BothContended
    <3> QED BY <1>3, <1>4, <1>5, <1>7, <2>1, <3>2, <3>3
  <2>3. CASE ~(first # curr /\ race)
    <3>1. NoRace
      BY <1>3, <2>1, <2>3
    <3>2. ListInv' /\ Condemned' = Condemned /\ sb' = sb
      BY <1>1, <3>1, NoRaceIs
    <3> QED BY <1>3, <1>7, <2>1, <2>3, <3>2
  <2> QED BY <2>2, <2>3
<1> QED BY <1>6, <1>7

LEMMA ExpStep ==
  ASSUME RacesInv, CheckExp
  PROVE  RacesInv'
<1>1. /\ design' = design /\ pc = "exps" /\ pc' = pc /\ sig' = sig /\ index' = index + 1
      /\ SignalsOf(sig) /\ sig \in Signals /\ index \in DOMAIN Exps(sig)
  BY DEF CheckExp, blockVars, SignalsOf
<1>2. /\ design \in Designs /\ Checkable /\ CounterInv /\ ListInv /\ ReasonInv /\ TypesInv /\ ExpsInv
  BY <1>1 DEF RacesInv
<1>3. /\ Units' = Units /\ Block' = Block /\ Signals' = Signals /\ (Checkable' <=> Checkable)
      /\ \A b : Assignments(b)' = Assignments(b) /\ (Checked(b)' <=> Checked(b))
      /\ \A b : (Mixes(b)' <=> Mixes(b)) /\ (DrivesPort(b)' <=> DrivesPort(b)) /\ (Contended(b)' <=> Contended(b))
      /\ \A b, g : Drives(b, g)' <=> Drives(b, g)
      /\ \A g : /\ (SignalsOf(g)' <=> SignalsOf(g)) /\ (Port(g)' <=> Port(g))
                /\ First(g)' = First(g) /\ Countable(g)' = Countable(g)
      /\ \A g, i : Stmt(g, i)' = Stmt(g, i) /\ HeadAt(g, i)' = HeadAt(g, i)
  BY <1>1, SameDesign
<1>4. /\ sig \in Nat \ {0} /\ index \in Nat \ {0} /\ Signals \in SUBSET Nat
      /\ \A g : DOMAIN Exps(g) \in SUBSET Nat /\ Countable(g) \in SUBSET Nat
  BY <1>2, DesignSignals, ExpsAre DEF CounterInv, Countable
<1>5. \A g \in Signals : g # sig => Counted(g)' = Counted(g)
  BY <1>1, <1>3, <1>4 DEF Counted
<1>6. /\ index \in Countable(sig) => Counted(sig)' = Counted(sig) \cup {index}
      /\ index \notin Countable(sig) => Counted(sig)' = Counted(sig)
      /\ \A i \in Counted(sig) : i < index /\ i \in Countable(sig)
  <2>1. Counted(sig)' = {i \in Countable(sig) : i < index + 1}
    BY <1>1, <1>3, <1>4 DEF Counted
  <2>2. Counted(sig) = {i \in Countable(sig) : i < index}
    BY <1>4 DEF Counted
  <2>3. \A i \in Countable(sig) : i < index + 1 <=> i < index \/ i = index
    BY <1>4
  <2> QED BY <2>1, <2>2, <2>3
<1>7. CASE index \notin Countable(sig)
  <2>1. NoRace /\ sig_stmt' = sig_stmt /\ misc' = misc
    BY <1>1, <1>7 DEF CheckExp, Countable, Counts
  <2>2. ListInv' /\ Condemned' = Condemned /\ sb' = sb
    BY <1>2, <1>3, <2>1, NoRaceIs
  <2>3. \A g \in Signals : Counted(g)' = Counted(g)
    BY <1>1, <1>5, <1>6, <1>7
  <2>4. ReasonInv'
    BY <1>2, <1>3, <2>2 DEF ReasonInv
  <2>5. TypesInv'
    BY <1>1, <1>2, <1>3, <2>2 DEF TypesInv
  <2>6. MarksInv' /\ FirstInv'
    BY <1>1, <1>2, <1>3, <2>1, <2>3 DEF ExpsInv, MarksInv, FirstInv
  <2>7. PairsInv' /\ PortInv'
    BY <1>2, <1>3, <2>2, <2>3 DEF ExpsInv, PairsInv, PortInv
  <2>8. CounterInv'
    BY <1>1, <1>2, <1>3, <1>4, <2>1, <2>2 DEF CounterInv, CheckDone
  <2> QED BY <1>1, <1>2, <1>3, <2>2, <2>4, <2>5, <2>6, <2>7, <2>8 DEF RacesInv, ExpsInv
<1>8. CASE index \in Countable(sig)
  <2> DEFINE curr == HeadAt(sig, index)
             bits == Marked(Stmt(sig, index))
  <2>1. /\ misc' = [misc EXCEPT ![sig] = @ \cup bits] /\ sig_stmt' = First(sig)
        /\ ListInv' /\ Condemned \subseteq Condemned'
        /\ \A c \in Block : sb'[c].bassign = sb[c].bassign /\ sb'[c].nassign = sb[c].nassign
        /\ \A b \in Condemned' : b \in Condemned \/ (Checked(b) /\ (DrivesPort(b) \/ Contended(b)))
        /\ Counted(sig) = {} /\ Port(sig) => curr \in Condemned'
        /\ Counted(sig) # {} /\ First(sig) # curr /\ bits \cap misc[sig] # {}
             => {curr, First(sig)} \subseteq Condemned'
    BY <1>1, <1>2, <1>3, <1>8, CountedStep
  <2>2. Counted(sig)' = Counted(sig) \cup {index} /\ index \notin Counted(sig)
    BY <1>4, <1>6, <1>8
  <2>3. bits \in SUBSET Nat /\ curr \in Block /\ Drives(curr, sig)
    <3>1. curr \in Block /\ Drives(curr, sig)
      BY <1>1, <1>2, <1>8, CountedDrives DEF Countable, HeadAt, Checkable
    <3>2. bits = Bits(Stmt(sig, index)) /\ Bits(Stmt(sig, index)) \in SUBSET Nat
      <4>1. Stmt(sig, index) \in StatementOf(Units)
        <5>1. Exps(sig)[index].unit \in Units /\ Stmt(sig, index) \in Own(Exps(sig)[index].unit)
          BY <1>1, <1>2, ExpOf DEF Stmt
        <5>2. \A i \in DOMAIN design.body[Exps(sig)[index].unit] :
                 design.body[Exps(sig)[index].unit][i] \in StatementOf(Units)
          BY <1>2, <5>1, BodyIs, LenProperties, ElementOfSeq DEF UnitBody
        <5> QED BY <5>1, <5>2 DEF Own, Statements
      <4>2. Stmt(sig, index).lsb \in Nat /\ Stmt(sig, index).msb \in Nat /\ Width \in Nat
        BY <4>1, WidthAssumption DEF StatementOf
      <4> QED BY <1>1, <1>2, <4>2, RaceIs DEF Bits
    <3> QED BY <3>1, <3>2
  <2>4. misc' \in [Signals -> SUBSET Nat] /\ misc'[sig] = misc[sig] \cup bits
        /\ \A g \in Signals : g # sig => misc'[g] = misc[g]
    <3>1. misc \in [Signals -> SUBSET Nat]
      BY <1>2 DEF CounterInv
    <3> HIDE DEF bits
    <3> QED BY <1>1, <2>1, <2>3, <3>1
  <2>5. ReasonInv'
    BY <1>2, <1>3, <2>1 DEF ReasonInv
  <2>6. TypesInv'
    BY <1>1, <1>2, <1>3, <2>1 DEF TypesInv
  <2>7. MarksInv'
    <3>1. ASSUME NEW g \in Signals, SignalsOf(g), NEW bit
          PROVE  bit \in misc'[g] <=> \E i \in Counted(g)' : bit \in Marked(Stmt(g, i))
      <4>1. bit \in misc[g] <=> \E i \in Counted(g) : bit \in Marked(Stmt(g, i))
        BY <1>2, <3>1 DEF ExpsInv, MarksInv
      <4>2. CASE g # sig
        BY <1>5, <2>4, <4>1, <4>2
      <4>3. CASE g = sig
        BY <1>1, <2>2, <2>4, <4>1, <4>3
      <4> QED BY <4>2, <4>3
    <3> QED BY <1>3, <3>1 DEF MarksInv
  <2>8. FirstInv'
    BY <1>1, <1>3, <2>1, <2>2 DEF FirstInv
  <2>9. PairsInv'
    <3>1. ASSUME NEW g \in Signals, SignalsOf(g), NEW i \in Counted(g)', NEW j \in Counted(g)',
                 i < j, HeadAt(g, i) # HeadAt(g, j), Marked(Stmt(g, i)) \cap Marked(Stmt(g, j)) # {}
          PROVE  {HeadAt(g, j), First(g)} \subseteq Condemned'
      <4>1. CASE i \in Counted(g) /\ j \in Counted(g)
        BY <1>2, <2>1, <3>1, <4>1 DEF ExpsInv, PairsInv
      <4>2. CASE ~(i \in Counted(g) /\ j \in Counted(g))
        <5>1. g = sig /\ (i = index \/ j = index)
          BY <1>1, <1>5, <2>2, <3>1, <4>2
        <5>2. j = index /\ i \in Counted(sig) /\ i \in Countable(sig)
          BY <1>1, <1>4, <1>6, <2>2, <3>1, <5>1
        <5>3. bits \cap misc[sig] # {}
          BY <1>1, <1>2, <3>1, <5>1, <5>2 DEF ExpsInv, MarksInv
        <5>4. HeadAt(sig, i) <= curr /\ First(sig) <= HeadAt(sig, i) /\ HeadAt(sig, i) # curr
          <6>1. HeadAt(sig, i) <= curr
            BY <1>1, <1>2, <1>8, <3>1, <5>1, <5>2 DEF Checkable, BlocksInOrder
          <6> QED BY <1>1, <1>2, <3>1, <5>1, <5>2, <6>1, FirstLeast
        <5>5. First(sig) # curr
          <6>1. First(sig) \in Nat /\ HeadAt(sig, i) \in Nat /\ curr \in Nat
            BY <1>1, <1>2, <1>8, <5>2, FirstLeast, DesignUnits DEF Block
          <6> QED BY <5>4, <6>1
        <5> QED BY <2>1, <5>1, <5>2, <5>3, <5>5
      <4> QED BY <4>1, <4>2
    <3> QED BY <1>3, <3>1 DEF PairsInv
  <2>10. PortInv'
    <3>1. ASSUME NEW g \in Signals, Port(g), Counted(g)' # {} PROVE \E b \in Condemned' : Drives(b, g)
      <4>1. CASE Counted(g) # {}
        BY <1>2, <2>1, <3>1, <4>1 DEF ExpsInv, PortInv
      <4>2. CASE Counted(g) = {}
        <5>1. g = sig
          BY <1>5, <3>1, <4>2
        <5> QED BY <2>1, <2>3, <3>1, <4>2, <5>1
      <4> QED BY <4>1, <4>2
    <3> QED BY <1>3, <3>1 DEF PortInv
  <2>11. CounterInv'
    BY <1>1, <1>2, <1>3, <1>4, <2>4 DEF CounterInv, CheckDone
  <2> QED BY <1>1, <1>2, <1>3, <2>1, <2>5, <2>6, <2>7, <2>8, <2>9, <2>10, <2>11 DEF RacesInv, ExpsInv
<1> QED BY <1>7, <1>8

(* A step that changes neither the design nor what was found. *)
LEMMA KeptStep ==
  ASSUME RacesInv, design' = design, UNCHANGED checkVars, misc' = misc,
         pc' \in {"exps", "remove", "halted"}, pc \in {"exps", "remove", "halted"},
         \A g \in Signals : SignalsOf(g) => Counted(g)' = Counted(g),
         FirstInv', CounterInv'
  PROVE  RacesInv'
<1>1. /\ sb' = sb /\ races' = races /\ races_found' = races_found
  BY DEF checkVars
<1>2. /\ design \in Designs /\ Checkable /\ ListInv /\ ReasonInv /\ TypesInv /\ ExpsInv
  BY DEF RacesInv
<1>3. /\ Block' = Block /\ Signals' = Signals /\ (Checkable' <=> Checkable)
      /\ \A b : Assignments(b)' = Assignments(b) /\ (Checked(b)' <=> Checked(b))
      /\ \A b : (Mixes(b)' <=> Mixes(b)) /\ (DrivesPort(b)' <=> DrivesPort(b)) /\ (Contended(b)' <=> Contended(b))
      /\ \A b, g : Drives(b, g)' <=> Drives(b, g)
      /\ \A g : /\ (SignalsOf(g)' <=> SignalsOf(g)) /\ (Port(g)' <=> Port(g)) /\ First(g)' = First(g)
      /\ \A g, i : Stmt(g, i)' = Stmt(g, i) /\ HeadAt(g, i)' = HeadAt(g, i)
  BY SameDesign
<1>4. Condemned' = Condemned
  BY <1>1, <1>3 DEF Condemned
<1>5. ListInv'
  BY <1>1, <1>2, <1>3, <1>4 DEF ListInv
<1>6. ReasonInv'
  BY <1>2, <1>3, <1>4 DEF ReasonInv
<1>7. TypesInv'
  BY <1>1, <1>2, <1>3, <1>4 DEF TypesInv
<1>8. MarksInv'
  BY <1>2, <1>3 DEF ExpsInv, MarksInv
<1>9. PairsInv'
  BY <1>2, <1>3, <1>4 DEF ExpsInv, PairsInv
<1>10. PortInv'
  <2>1. \A g \in Signals : Port(g) => SignalsOf(g)
    BY <1>2, DesignSignals DEF SignalsOf
  <2> QED BY <1>2, <1>3, <1>4, <2>1 DEF ExpsInv, PortInv
<1> QED BY <1>2, <1>3, <1>5, <1>6, <1>7, <1>8, <1>9, <1>10 DEF RacesInv, ExpsInv

LEMMA SignalStep ==
  ASSUME RacesInv, NextSignal
  PROVE  RacesInv'
<1>1. /\ design' = design /\ pc = "exps" /\ pc' = pc /\ misc' = misc /\ UNCHANGED checkVars
      /\ sig \in Signals /\ (SignalsOf(sig) => index \notin DOMAIN Exps(sig))
      /\ sig' = sig + 1 /\ sig_stmt' = 0 /\ index' = 1
  BY DEF NextSignal, blockVars, SignalsOf
<1>2. design \in Designs /\ CounterInv /\ sig \in Nat \ {0} /\ index \in Nat \ {0}
  BY DEF RacesInv, CounterInv
<1>3. /\ Block' = Block /\ Signals' = Signals /\ \A g : Countable(g)' = Countable(g)
  BY <1>1, SameDesign
<1>4. Signals \in SUBSET Nat
  BY <1>2, DesignSignals
<1>5. ASSUME NEW g, g \in Nat PROVE Counted(g)' = {i \in Countable(g) : g < sig + 1}
  <2>1. \A i \in Countable(g) : i \in Nat \ {0} /\ ~(i < 1)
    BY <1>2, ExpsAre DEF Countable
  <2> QED BY <1>1, <1>3, <2>1 DEF Counted
<1>6. ASSUME NEW g \in Signals, SignalsOf(g) PROVE Counted(g)' = Counted(g)
  <2>1. CASE g = sig
    <3>1. \A i \in Countable(g) : i < index
      BY <1>1, <1>2, <1>6, <2>1, ExpsAre DEF Countable
    <3> QED BY <1>2, <1>4, <1>5, <2>1, <3>1 DEF Counted
  <2>2. CASE g # sig
    <3>1. g < sig + 1 <=> g < sig
      BY <1>2, <1>4, <2>2
    <3> QED BY <1>4, <1>5, <2>2, <3>1 DEF Counted
  <2> QED BY <2>1, <2>2
<1>7. FirstInv'
  <2>1. Counted(sig)' = {}
    <3>1. \A i \in Countable(sig + 1) : i \in Nat \ {0} /\ ~(i < 1)
      BY <1>2, ExpsAre DEF Countable
    <3>2. Counted(sig)' = {i \in Countable(sig + 1) : sig + 1 < sig + 1 \/ i < 1}
      BY <1>1, <1>3 DEF Counted
    <3> QED BY <1>2, <3>1, <3>2
  <2> QED BY <1>1, <2>1 DEF FirstInv
<1>8. CounterInv'
  <2>1. Condemned' = Condemned
    BY <1>1, <1>3 DEF Condemned, checkVars
  <2> QED BY <1>1, <1>2, <1>3, <2>1 DEF CounterInv, CheckDone
<1> QED BY <1>1, <1>6, <1>7, <1>8, KeptStep

LEMMA OverStep ==
  ASSUME RacesInv, CheckOver
  PROVE  RacesInv'
<1>1. /\ design' = design /\ pc = "exps" /\ sig \notin Signals
      /\ UNCHANGED checkVars /\ UNCHANGED <<index, sig, sig_stmt, misc>>
      /\ pc' = IF races_found > 0 /\ flag_race_check = "FATAL" THEN "halted" ELSE "remove"
  BY DEF CheckOver
<1>2. design \in Designs /\ CounterInv
  BY DEF RacesInv
<1>3. /\ Block' = Block /\ Signals' = Signals /\ \A g : Countable(g)' = Countable(g)
  BY <1>1, SameDesign
<1>4. \A g : Counted(g)' = Counted(g)
  BY <1>1, <1>3 DEF Counted
<1>5. FirstInv'
  BY <1>1, <1>3 DEF FirstInv
<1>6. CounterInv'
  <2>1. Condemned' = Condemned
    BY <1>1, <1>3 DEF Condemned, checkVars
  <2>2. races_found' = races_found /\ flag_race_check' = flag_race_check
    BY <1>1 DEF checkVars
  <2> QED BY <1>1, <1>2, <1>3, <2>1, <2>2 DEF CounterInv, CheckDone
<1>7. pc' \in {"exps", "remove", "halted"}
  BY <1>1
<1> QED BY <1>1, <1>4, <1>5, <1>6, <1>7, KeptStep

LEMMA LeftStep ==
  ASSUME RacesInv, design' = design, UNCHANGED <<checkVars, pc, index, sig, sig_stmt, misc>>
  PROVE  RacesInv'
<1>1. /\ Block' = Block /\ Signals' = Signals /\ (Checkable' <=> Checkable)
      /\ \A b : Assignments(b)' = Assignments(b) /\ (Checked(b)' <=> Checked(b))
      /\ \A b : (Mixes(b)' <=> Mixes(b)) /\ (DrivesPort(b)' <=> DrivesPort(b)) /\ (Contended(b)' <=> Contended(b))
      /\ \A g : (SignalsOf(g)' <=> SignalsOf(g)) /\ First(g)' = First(g) /\ Countable(g)' = Countable(g)
  BY SameDesign
<1>2. Condemned' = Condemned /\ \A g : Counted(g)' = Counted(g)
  BY <1>1 DEF Condemned, checkVars, Counted
<1>3. CounterInv => CounterInv'
  BY <1>1, <1>2 DEF CounterInv, CheckDone, checkVars
<1>4. CASE pc \in {"exps", "remove", "halted"}
  <2>1. FirstInv'
    BY <1>1, <1>2, <1>4 DEF RacesInv, ExpsInv, FirstInv
  <2>2. CounterInv'
    BY <1>3 DEF RacesInv
  <2> QED BY <1>2, <1>4, <2>1, <2>2, KeptStep
<1>5. CASE pc \notin {"exps", "remove", "halted"}
  <2>1. ListInv' /\ ReasonInv'
    BY <1>1, <1>2 DEF RacesInv, ListInv, ReasonInv, checkVars
  <2>2. pc # "calc" => TypesInv'
    BY <1>1, <1>2 DEF RacesInv, TypesInv, checkVars
  <2> QED BY <1>1, <1>3, <1>5, <2>1, <2>2 DEF RacesInv
<1> QED BY <1>4, <1>5

LEMMA NextRaces == RacesInv /\ [Next]_vars => RacesInv'
<1> SUFFICES ASSUME RacesInv, [Next]_vars PROVE RacesInv'
  OBVIOUS
<1>1. CASE RemoveListed
  <2>1. design' = design /\ UNCHANGED <<checkVars, pc, index, sig, sig_stmt, misc>>
    BY <1>1 DEF RemoveListed, RemoveBlock
  <2> QED BY <2>1, LeftStep
<1>2. CASE UNCHANGED vars
  <2>1. design' = design /\ UNCHANGED <<checkVars, pc, index, sig, sig_stmt, misc>>
    BY <1>2 DEF vars, blockVars
  <2> QED BY <2>1, LeftStep
<1> QED BY <1>1, <1>2, CalcStep, TypesStep, ExpStep, SignalStep, OverStep DEF Next, Finished

(* At the end all expressions were looked at. *)
LEMMA AllFound ==
  ASSUME RacesInv, CheckDone
  PROVE  RacesExact
<1>1. /\ design \in Designs /\ Checkable /\ CounterInv /\ ListInv /\ ReasonInv /\ TypesInv /\ ExpsInv
      /\ pc # "types"
  BY DEF RacesInv, CheckDone
<1>2. \A g \in Signals : Counted(g) = Countable(g)
  <2>1. sig \notin Signals /\ sig \in Nat \ {0} /\ Len(design.signals) \in Nat /\ Signals = 1..Len(design.signals)
    BY <1>1, DesignSignals DEF CounterInv
  <2>2. \A g \in Signals : g < sig
    BY <2>1
  <2> QED BY <2>2 DEF Counted
<1>3. ASSUME NEW b \in Block, NEW c \in Block, NEW g \in Signals,
             b < c, Checked(b), Checked(c), design.signals[g] # "mem", Together(b, c, g)
      PROVE  {c, First(g)} \subseteq Condemned
  <2>1. PICK s \in Ran(b) : \E t \in Ran(c) : /\ s.op # "RASSIGN" /\ t.op # "RASSIGN"
                                               /\ s.sig = g /\ t.sig = g /\ Bits(s) \cap Bits(t) # {}
    BY <1>3 DEF Together
  <2>2. PICK t \in Ran(c) : /\ s.op # "RASSIGN" /\ t.op # "RASSIGN"
                            /\ s.sig = g /\ t.sig = g /\ Bits(s) \cap Bits(t) # {}
    BY <2>1
  <2>3. PICK i \in DOMAIN Exps(g) : Exps(g)[i].stmt = s /\ HeadOf(Exps(g)[i].unit) = b /\ Counts(Exps(g)[i])
    BY <1>1, <1>3, <2>2, DrivesCounted DEF Checkable
  <2>4. PICK j \in DOMAIN Exps(g) : Exps(g)[j].stmt = t /\ HeadOf(Exps(g)[j].unit) = c /\ Counts(Exps(g)[j])
    BY <1>1, <1>3, <2>2, DrivesCounted DEF Checkable
  <2>5. /\ i \in Countable(g) /\ HeadAt(g, i) = b /\ Stmt(g, i) = s
        /\ j \in Countable(g) /\ HeadAt(g, j) = c /\ Stmt(g, j) = t
    BY <2>3, <2>4 DEF Countable, HeadAt, Stmt
  <2>6. b \in Nat /\ c \in Nat /\ b # c /\ SignalsOf(g) /\ i \in Nat /\ j \in Nat
    BY <1>1, <1>3, <2>3, <2>4, DesignUnits, ExpsAre DEF Block, SignalsOf
  <2>7. i < j
    <3>1. ~(j < i)
      BY <1>1, <1>3, <2>5, <2>6 DEF Checkable, BlocksInOrder
    <3>2. i # j
      BY <2>5, <2>6
    <3> QED BY <2>6, <3>1, <3>2
  <2>8. Marked(Stmt(g, i)) \cap Marked(Stmt(g, j)) # {}
    BY <1>1, <2>2, <2>3, <2>4, <2>5, RaceIs
  <2> QED BY <1>1, <1>2, <2>5, <2>6, <2>7, <2>8 DEF ExpsInv, PairsInv
<1>4. \A b \in Block \ Condemned : Checked(b) => ~Mixes(b)
  BY <1>1 DEF TypesInv
<1>5. \A b \in Condemned : Checked(b) /\ (Mixes(b) \/ DrivesPort(b) \/ Contended(b))
  BY <1>1 DEF ReasonInv
<1>6. ASSUME NEW g \in Signals, Port(g), NEW b \in Block, Checked(b), Drives(b, g)
      PROVE  \E c \in Condemned : Drives(c, g)
  <2>1. PICK s \in Ran(b) : s.op # "RASSIGN" /\ s.sig = g
    BY <1>6 DEF Drives
  <2>2. \E i \in DOMAIN Exps(g) : Counts(Exps(g)[i])
    BY <1>1, <1>6, <2>1, DrivesCounted DEF Checkable
  <2>3. Counted(g) # {}
    BY <1>2, <2>2 DEF Countable
  <2> QED BY <1>1, <1>6, <2>3 DEF ExpsInv, PortInv
<1>7. \A i, j \in DOMAIN races : races[i].block \in Condemned /\ (i # j => races[i].block # races[j].block)
  BY <1>1 DEF ListInv
<1>8. pc = "halted" <=> flag_race_check = "FATAL" /\ Condemned # {}
  <2>1. races_found > 0 <=> Condemned # {}
    BY <1>1 DEF ListInv
  <2> QED BY <1>1, <2>1 DEF CounterInv
<1> QED BY <1>3, <1>4, <1>5, <1>6, <1>7, <1>8 DEF RacesExact, First

(* Of every design whose blocks have no task in common, call none that      *)
(* calls itself and are bound one after the other, that selects bits of two *)
(* elements at most which the marks follow, and that has no loop in front   *)
(* of all blocking assignments of a block, the race check finds every two   *)
(* blocks that assign a common bit and every block that mixes assignments,  *)
(* removes no block without a reason, lists each once and stops when it     *)
(* should (race_check_modules).                                             *)
THEOREM RacesAlwaysExact == Spec /\ Checkable => []RacesExact
<1>1. RacesInv => RacesExact
  <2>1. ~CheckDone => RacesExact
    BY DEF RacesExact
  <2> QED BY <2>1, AllFound
<1> QED BY <1>1, InitRaces, NextRaces, PTL DEF Spec
=============================================================================
