----------------------------- MODULE Rank_proofs -----------------------------
(***************************************************************************)
(* For every set of files, points, weights, lengths and depths: leaving    *)
(* out the files that are not needed costs no coverage, the counters are   *)
(* exact as long as the index of a point fits in merged_index, and every   *)
(* file adds at least what the ones after it add.                          *)
(***************************************************************************)
EXTENDS Rank, FiniteSetTheorems, TLAPS

(* merged_index does not wrap around. *)
IndexFits == IndexSize \in Nat /\ \A p \in Point : p < IndexSize

Ranked == {comp_cdds[i] : i \in 1..(next_cdd - 1)}

Permutation ==
  /\ comp_cdds \in [Position -> File]
  /\ \A f \in File : \E i \in Position : comp_cdds[i] = f
  /\ \A i, j \in Position : comp_cdds[i] = comp_cdds[j] => i = j

Types ==
  /\ cps \in [File -> SUBSET Point]
  /\ required \subseteq File /\ required # File
  /\ cp_depth \in Nat \ {0}
  /\ unique_cps \in [File -> Nat]
  /\ ranked_merged \in [Point -> Nat]
  /\ pc \in {"count", "required", "unique", "weighted", "greedy", "done"}
  /\ next_cdd \in 1..(N + 1) /\ cand \in Nat \ {0} /\ best \in Nat \ {0}

(* Where the loops are: the file that may be selected is not yet ranked. *)
Positions ==
  /\ pc = "count" => next_cdd = 1 /\ cand = 1
  /\ pc = "required" => cand >= next_cdd /\ Ranked \subseteq required
  /\ pc = "unique" => next_cdd <= N /\ best \in next_cdd..N /\ cand > next_cdd
  /\ pc \in {"weighted", "greedy"} /\ next_cdd <= N => best \in next_cdd..N /\ cand >= next_cdd
  /\ pc = "done" => next_cdd = N + 1

Counting == pc \in {"required", "unique", "weighted"}
Greedy == pc \in {"greedy", "done"}

(* The points that files not yet ranked hit are counted in steps 2 to 4. *)
Unranked ==
  Counting => /\ unranked_merged \in [Point -> Nat]
              /\ \A p \in Point : unranked_merged[p] = Cardinality(Hitting(p) \ Ranked)

(* The sort counts afresh. *)
RankedExact == \A p \in Point : ranked_merged[p] = Cardinality(Hitting(p) \cap Ranked)

(* Of the ranked files that hit a point, those that were worth something    *)
(* are enough.                                                              *)
Worthy(p) == {f \in Hitting(p) \cap Ranked : unique_cps[f] > 0}
WorthyEnough ==
  Greedy => \A p \in Point : Cardinality(Worthy(p)) >= cp_depth \/ Worthy(p) = Hitting(p) \cap Ranked

(* The files before cand have their numbers and best has the largest. *)
BestSoFar ==
  pc = "greedy" /\ next_cdd <= N =>
    /\ cand <= N + 1
    /\ cand = next_cdd => best = next_cdd
    /\ cand > next_cdd => best < cand
    /\ \A j \in next_cdd..N :
         j < cand => /\ unique_cps[comp_cdds[j]] = Unique(comp_cdds[j])
                     /\ unique_cps[comp_cdds[j]] <= unique_cps[comp_cdds[best]]

(* What is ranked is in order, and nothing that is left adds more. *)
InOrder ==
  Greedy => /\ \A i, j \in 1..(next_cdd - 1) :
                 i < j => unique_cps[comp_cdds[i]] >= unique_cps[comp_cdds[j]]
            /\ \A i \in 1..(next_cdd - 1) : \A f \in File \ Ranked :
                 Unique(f) <= unique_cps[comp_cdds[i]]

IInv ==
  /\ Permutation /\ Types /\ Positions
  /\ (Greedy => RankedExact) /\ WorthyEnough /\ BestSoFar /\ InOrder
IInvC == IInv /\ Unranked /\ RankedExact

-----------------------------------------------------------------------------
(* Sets of files and of points are finite, and there is a file to rank. *)
LEMMA FiniteFiles ==
  /\ IsFiniteSet(File) /\ N \in Nat
  /\ \A S \in SUBSET File : IsFiniteSet(S) /\ Cardinality(S) \in Nat
  /\ \A S \in SUBSET Point : IsFiniteSet(S) /\ Cardinality(S) \in Nat
<1>1. IsFiniteSet(File) /\ IsFiniteSet(Point)
  BY FileAssumption
<1>2. \A S \in SUBSET File : IsFiniteSet(S) /\ Cardinality(S) \in Nat
  BY <1>1, FS_Subset, FS_CardinalityType
<1>3. \A S \in SUBSET Point : IsFiniteSet(S) /\ Cardinality(S) \in Nat
  BY <1>1, FS_Subset, FS_CardinalityType
<1> QED BY <1>1, <1>2, <1>3, FS_CardinalityType DEF N

(* The files that hit a point, when one more is ranked. *)
LEMMA OneMore ==
  ASSUME NEW H \in SUBSET File, NEW R \in SUBSET File, NEW f \in File \ R
  PROVE  /\ Cardinality(H \cap (R \cup {f})) = Cardinality(H \cap R) + (IF f \in H THEN 1 ELSE 0)
         /\ Cardinality(H \ (R \cup {f})) = Cardinality(H \ R) - (IF f \in H THEN 1 ELSE 0)
         /\ f \in H => Cardinality(H \ R) > 0
<1>1. /\ IsFiniteSet(H \cap R) /\ Cardinality(H \cap R) \in Nat
      /\ IsFiniteSet(H \ R) /\ Cardinality(H \ R) \in Nat
  BY FiniteFiles
<1>2. CASE f \in H
  <2>1. H \cap (R \cup {f}) = (H \cap R) \cup {f} /\ H \ (R \cup {f}) = (H \ R) \ {f}
    BY <1>2
  <2>2. f \notin H \cap R /\ f \in H \ R
    BY <1>2
  <2>3. Cardinality(H \ R) # 0
    BY <1>1, <2>2, FS_EmptySet
  <2>4. Cardinality((H \cap R) \cup {f}) = Cardinality(H \cap R) + 1
    BY <1>1, <2>2, FS_AddElement
  <2>5. Cardinality((H \ R) \ {f}) = Cardinality(H \ R) - 1
    BY <1>1, <2>2, FS_RemoveElement
  <2>6. Cardinality(H \cap (R \cup {f})) = Cardinality(H \cap R) + 1
    BY <2>1, <2>4
  <2>7. Cardinality(H \ (R \cup {f})) = Cardinality(H \ R) - 1
    BY <2>1, <2>5
  <2>8. Cardinality(H \ R) > 0
    BY <1>1, <2>3
  <2> QED BY <1>2, <2>6, <2>7, <2>8
<1>3. CASE f \notin H
  <2>1. H \cap (R \cup {f}) = H \cap R /\ H \ (R \cup {f}) = H \ R
    BY <1>3
  <2> QED BY <1>1, <1>3, <2>1
<1> QED BY <1>2, <1>3

(* The numbers of points are naturals, and shrink as counters grow. *)
LEMMA UniqueType ==
  ASSUME Types, NEW f \in File
  PROVE  /\ Unique(f) \in Nat
         /\ Unique(f) = 0 => \A p \in cps[f] : ranked_merged[p] >= cp_depth
<1> DEFINE S == {p \in cps[f] : ranked_merged[p] < cp_depth}
<1>1. S \in SUBSET Point
  BY DEF Types
<1>2. IsFiniteSet(S) /\ Cardinality(S) \in Nat
  BY <1>1, FiniteFiles
<1>3. Unique(f) = 0 => S = {}
  BY <1>2, FS_EmptySet DEF Unique
<1> QED BY <1>2, <1>3 DEF Unique, Types

LEMMA UniqueShrinks ==
  ASSUME Types, Types', NEW f \in File, cps' = cps, cp_depth' = cp_depth,
         \A p \in Point : ranked_merged'[p] >= ranked_merged[p]
  PROVE  Unique(f)' <= Unique(f)
<1> DEFINE S == {p \in cps[f] : ranked_merged[p] < cp_depth}
           T == {p \in cps[f] : ranked_merged'[p] < cp_depth}
<1>1. S \in SUBSET Point /\ T \in SUBSET S
  BY DEF Types
<1>2. IsFiniteSet(S)
  BY <1>1, FiniteFiles
<1>3. Cardinality(T) <= Cardinality(S)
  BY <1>1, <1>2, FS_Subset
<1> QED BY <1>3 DEF Unique

-----------------------------------------------------------------------------
(* The file at a position from next_cdd on is swapped to next_cdd. *)
LEMMA SwapRanks ==
  ASSUME Permutation, next_cdd \in 1..N, NEW i \in next_cdd..N,
         comp_cdds' = Swapped(next_cdd, i), next_cdd' = next_cdd + 1
  PROVE  /\ Permutation'
         /\ Ranked \subseteq File /\ comp_cdds[i] \in File \ Ranked
         /\ Ranked' = Ranked \cup {comp_cdds[i]}
         /\ \A k \in 1..(next_cdd - 1) : comp_cdds'[k] = comp_cdds[k]
         /\ comp_cdds'[next_cdd] = comp_cdds[i]
<1> DEFINE n == next_cdd
<1>1. N \in Nat /\ n \in Position /\ i \in Position /\ 1..(n - 1) \subseteq Position
  BY FiniteFiles DEF Position
<1>2. /\ comp_cdds' \in [Position -> File]
      /\ \A k \in Position : comp_cdds'[k] = IF k = i THEN comp_cdds[n]
                                             ELSE IF k = n THEN comp_cdds[i] ELSE comp_cdds[k]
  BY <1>1 DEF Permutation, Swapped
<1>3. ASSUME NEW f \in File PROVE \E k \in Position : comp_cdds'[k] = f
  <2>1. PICK k \in Position : comp_cdds[k] = f
    BY DEF Permutation
  <2>2. CASE k = i
    BY <1>1, <1>2, <2>1, <2>2
  <2>3. CASE k = n
    BY <1>1, <1>2, <2>1, <2>3
  <2>4. CASE k # i /\ k # n
    BY <1>1, <1>2, <2>1, <2>4
  <2> QED BY <2>2, <2>3, <2>4
<1>4. ASSUME NEW j \in Position, NEW k \in Position, comp_cdds'[j] = comp_cdds'[k] PROVE j = k
  BY <1>1, <1>2, <1>4 DEF Permutation
<1>5. Permutation'
  BY <1>2, <1>3, <1>4 DEF Permutation, Position, N
<1>6. \A k \in 1..(n - 1) : comp_cdds'[k] = comp_cdds[k]
  BY <1>1, <1>2
<1>7. comp_cdds'[n] = comp_cdds[i]
  BY <1>1, <1>2
<1>8. comp_cdds[i] \in File /\ Ranked \subseteq File
  BY <1>1 DEF Permutation, Ranked
<1>9. comp_cdds[i] \notin Ranked
  BY <1>1 DEF Permutation, Ranked
<1>10. Ranked' = Ranked \cup {comp_cdds[i]}
  <2>1. 1..(next_cdd' - 1) = 1..(n - 1) \cup {n}
    BY <1>1 DEF Position
  <2>2. Ranked' = {comp_cdds'[k] : k \in 1..(n - 1) \cup {n}}
    BY <2>1 DEF Ranked
  <2> QED BY <1>6, <1>7, <2>2 DEF Ranked
<1> QED BY <1>5, <1>6, <1>7, <1>8, <1>9, <1>10

(* rank_selected_cdd_cov keeps the permutation and the types. *)
LEMMA SelectKeeps ==
  ASSUME Permutation, Types, next_cdd \in 1..N, NEW i \in next_cdd..N,
         rank_selected_cdd_cov(i)
  PROVE  /\ Permutation'
         /\ Ranked' = Ranked \cup {comp_cdds[i]} /\ comp_cdds[i] \in File \ Ranked
         /\ unique_cps' \in [File -> Nat] /\ ranked_merged' \in [Point -> Nat]
         /\ next_cdd' = next_cdd + 1
<1> DEFINE f == comp_cdds[i]
           S == {p \in Taken(f) : ranked_merged[p] < cp_depth}
<1>1. comp_cdds' = Swapped(next_cdd, i) /\ next_cdd' = next_cdd + 1
  BY DEF rank_selected_cdd_cov
<1>2. /\ Permutation' /\ Ranked' = Ranked \cup {f} /\ f \in File \ Ranked
  BY <1>1, SwapRanks
<1>3. S \in SUBSET Point
  BY <1>2 DEF Taken, Types
<1>4. Cardinality(S) \in Nat
  BY <1>3, FiniteFiles
<1>5. unique_cps' \in [File -> Nat]
  BY <1>2, <1>4 DEF rank_selected_cdd_cov, Types
<1>6. ranked_merged' \in [Point -> Nat]
  BY DEF rank_selected_cdd_cov, Types
<1> QED BY <1>1, <1>2, <1>5, <1>6

-----------------------------------------------------------------------------
(* The states the rank command can be in. *)
LEMMA InitInv == Init => IInvC
<1> SUFFICES ASSUME Init PROVE IInvC
  OBVIOUS
<1>1. N \in Nat
  BY FiniteFiles
<1>2. Permutation
  BY OrderAssumption DEF Init, Permutation, Position, N
<1>3. N >= 1
  <2>1. PICK f : f \in File
    BY DEF Init
  <2>2. \E i \in Position : comp_cdds[i] = f
    BY <1>2, <2>1 DEF Permutation
  <2> QED BY <1>1, <2>2 DEF Position
<1>4. Types
  BY <1>1, <1>3, DepthAssumption DEF Init, Types
<1>5. Positions
  BY DEF Init, Positions
<1>6. ~Greedy /\ ~Counting /\ pc # "greedy"
  BY DEF Init, Greedy, Counting
<1>7. RankedExact
  <2>1. 1..(next_cdd - 1) = {}
    BY DEF Init
  <2>2. \A p \in Point : Cardinality(Hitting(p) \cap Ranked) = 0
    BY <2>1, FS_EmptySet DEF Ranked
  <2> QED BY <2>2 DEF Init, RankedExact
<1> QED BY <1>2, <1>4, <1>5, <1>6, <1>7 DEF IInvC, IInv, WorthyEnough, BestSoFar, InOrder, Unranked

(* Nothing of the sort is claimed before it starts. *)
LEMMA NotGreedy ==
  ASSUME ~Greedy
  PROVE  (Greedy => RankedExact) /\ WorthyEnough /\ BestSoFar /\ InOrder
BY DEF WorthyEnough, BestSoFar, InOrder, Greedy

LEMMA CountStep == IInv /\ CountPoints => IInv'
<1> SUFFICES ASSUME IInv, CountPoints PROVE IInv'
  OBVIOUS
<1> USE DEF IInv
<1>1. Permutation'
  BY DEF CountPoints, Permutation, Position, N
<1>2. Types'
  <2>1. \A f : {p \in Point : Hitting(p) = {f}} \in SUBSET Point
    OBVIOUS
  <2>2. unique_cps' \in [File -> Nat]
    BY <2>1, FiniteFiles DEF CountPoints
  <2> QED BY <2>2 DEF CountPoints, input, Types, N
<1>3. Positions'
  <2>1. next_cdd = 1 /\ cand = 1
    BY DEF CountPoints, Positions
  <2>2. 1..(next_cdd - 1) = {}
    BY <2>1
  <2>3. Ranked = {}
    BY <2>2 DEF Ranked
  <2>4. Ranked' = {}
    BY <2>3 DEF CountPoints, Ranked
  <2> QED BY <2>1, <2>4 DEF CountPoints, Positions
<1>4. ~Greedy'
  BY DEF CountPoints, Greedy
<1> QED BY <1>1, <1>2, <1>3, <1>4 DEF WorthyEnough, BestSoFar, InOrder, Greedy

LEMMA RequiredStep == IInv /\ SelectRequired => IInv'
<1> SUFFICES ASSUME IInv, SelectRequired PROVE IInv'
  OBVIOUS
<1> USE DEF IInv
<1>0. /\ N \in Nat /\ pc = "required" /\ cand >= next_cdd /\ Ranked \subseteq required
      /\ cand \in Nat /\ next_cdd \in 1..(N + 1)
      /\ cps' = cps /\ required' = required /\ cp_depth' = cp_depth
  BY FiniteFiles DEF SelectRequired, Positions, Types, input
<1>1. CASE cand \in Position /\ comp_cdds[cand] \in required
  <2>1. next_cdd \in 1..N /\ cand \in next_cdd..N
    BY <1>0, <1>1 DEF Position
  <2>2. rank_selected_cdd_cov(cand) /\ cand' = cand + 1 /\ pc' = pc /\ best' = best
    BY <1>1 DEF SelectRequired
  <2>3. /\ Permutation' /\ Ranked' = Ranked \cup {comp_cdds[cand]}
        /\ unique_cps' \in [File -> Nat] /\ ranked_merged' \in [Point -> Nat]
        /\ next_cdd' = next_cdd + 1
    BY <2>1, <2>2, SelectKeeps
  <2>4. Types'
    BY <1>0, <2>1, <2>2, <2>3 DEF Types, N
  <2>5. Positions'
    BY <1>0, <1>1, <2>2, <2>3 DEF Positions
  <2>6. ~Greedy'
    BY <1>0, <2>2 DEF Greedy
  <2> QED BY <2>3, <2>4, <2>5, <2>6 DEF WorthyEnough, BestSoFar, InOrder, Greedy
<1>2. CASE cand \in Position /\ comp_cdds[cand] \notin required
  <2>1. UNCHANGED <<comp_cdds, unique_cps, counts, next_cdd>> /\ cand' = cand + 1 /\ pc' = pc /\ best' = best
    BY <1>2 DEF SelectRequired
  <2>2. Permutation' /\ Ranked' = Ranked
    BY <2>1 DEF Permutation, Ranked, Position, N
  <2>3. Types'
    BY <1>0, <2>1 DEF Types, counts, N
  <2>4. Positions'
    BY <1>0, <2>1, <2>2 DEF Positions
  <2>5. ~Greedy'
    BY <1>0, <2>1 DEF Greedy
  <2> QED BY <2>2, <2>3, <2>4, <2>5 DEF WorthyEnough, BestSoFar, InOrder, Greedy
<1>3. CASE cand \notin Position
  <2>1. /\ UNCHANGED <<comp_cdds, unique_cps, counts, next_cdd>>
        /\ cand' = next_cdd + 1 /\ pc' = "unique" /\ best' = next_cdd
    BY <1>3 DEF SelectRequired
  <2>2. Permutation' /\ Ranked' = Ranked
    BY <2>1 DEF Permutation, Ranked, Position, N
  <2>3. Types'
    BY <1>0, <2>1 DEF Types, counts, N
  <2>4. next_cdd <= N
    <3>1. PICK f \in File : f \notin required
      BY DEF Types
    <3>2. PICK i \in Position : comp_cdds[i] = f
      BY DEF Permutation
    <3>3. i \notin 1..(next_cdd - 1)
      BY <1>0, <3>1, <3>2 DEF Ranked
    <3> QED BY <1>0, <3>3 DEF Position
  <2>5. Positions'
    BY <1>0, <2>1, <2>4 DEF Positions, N
  <2>6. ~Greedy'
    BY <2>1 DEF Greedy
  <2> QED BY <2>2, <2>3, <2>5, <2>6 DEF WorthyEnough, BestSoFar, InOrder, Greedy
<1> QED BY <1>1, <1>2, <1>3

LEMMA UniqueStep == IInv /\ SelectUnique => IInv'
<1> SUFFICES ASSUME IInv, SelectUnique PROVE IInv'
  OBVIOUS
<1> USE DEF IInv
<1>0. /\ N \in Nat /\ pc = "unique" /\ next_cdd \in 1..N /\ best \in next_cdd..N
      /\ cand \in Nat /\ cand > next_cdd
      /\ cps' = cps /\ required' = required /\ cp_depth' = cp_depth
  BY FiniteFiles DEF SelectUnique, Positions, Types, input
<1>1. ~Greedy'
  BY <1>0 DEF SelectUnique, Greedy
<1>2. CASE cand \in Position
  <2>1. /\ UNCHANGED <<comp_cdds, unique_cps, counts, next_cdd, pc>>
        /\ cand' = cand + 1 /\ best' \in {best, cand}
    BY <1>2 DEF SelectUnique
  <2>2. Permutation' /\ Types'
    BY <1>0, <2>1 DEF Permutation, Types, Position, counts, N
  <2>3. Positions'
    BY <1>0, <1>2, <2>1 DEF Positions, Position, N
  <2> QED BY <1>1, <2>2, <2>3 DEF WorthyEnough, BestSoFar, InOrder, Greedy
<1>3. CASE cand \notin Position
  <2>1. /\ best' = next_cdd'
        /\ \/ pc' = "unique" /\ next_cdd' <= N /\ cand' = next_cdd' + 1
           \/ pc' = "weighted" /\ cand' = next_cdd'
    BY <1>0, <1>3 DEF SelectUnique
  <2>2. /\ Permutation' /\ next_cdd' \in 1..(N + 1)
        /\ unique_cps' \in [File -> Nat] /\ ranked_merged' \in [Point -> Nat]
    <3>1. CASE unique_cps[comp_cdds[best]] > 0
      <4>1. rank_selected_cdd_cov(best)
        BY <1>3, <3>1 DEF SelectUnique
      <4> QED BY <1>0, <4>1, SelectKeeps
    <3>2. CASE ~(unique_cps[comp_cdds[best]] > 0)
      <4>1. UNCHANGED <<comp_cdds, unique_cps, counts, next_cdd>>
        BY <1>3, <3>2 DEF SelectUnique
      <4> QED BY <1>0, <4>1 DEF Permutation, Types, Position, counts, N
    <3> QED BY <3>1, <3>2
  <2>3. N' = N
    BY DEF N
  <2>4. /\ next_cdd' \in Nat \ {0} /\ next_cdd' <= N + 1
        /\ best' \in Nat \ {0} /\ cand' \in Nat \ {0} /\ cand' >= next_cdd'
    BY <1>0, <2>1, <2>2, SMTT(30)
  <2>5. Types'
    BY <1>0, <2>1, <2>2, <2>3, <2>4 DEF Types
  <2>6. Positions'
    <3>1. CASE pc' = "unique" /\ next_cdd' <= N /\ cand' = next_cdd' + 1
      <4>1. N \in Nat /\ best' = next_cdd'
        BY <1>0, <2>1
      <4>2. best' \in next_cdd'..N
        BY <2>4, <3>1, <4>1
      <4>3. \A n \in Nat : n + 1 > n
        OBVIOUS
      <4>4. cand' > next_cdd'
        BY <2>4, <3>1, <4>3
      <4> QED BY <2>3, <3>1, <4>2, <4>4 DEF Positions
    <3>2. CASE pc' = "weighted" /\ cand' = next_cdd'
      <4>1. next_cdd' <= N => best' \in next_cdd'..N
        BY <1>0, <2>1, <2>4
      <4> QED BY <2>3, <2>4, <3>2, <4>1 DEF Positions
    <3> QED BY <2>1, <3>1, <3>2
  <2> QED BY <1>1, <2>2, <2>5, <2>6 DEF WorthyEnough, BestSoFar, InOrder, Greedy
<1> QED BY <1>2, <1>3

LEMMA WeightedStep == IInv /\ SelectWeighted => IInv'
<1> SUFFICES ASSUME IInv, SelectWeighted PROVE IInv'
  OBVIOUS
<1> USE DEF IInv
<1>0. /\ N \in Nat /\ pc = "weighted" /\ next_cdd \in 1..(N + 1)
      /\ next_cdd <= N => best \in next_cdd..N /\ cand >= next_cdd
      /\ cand \in Nat \ {0}
      /\ cps' = cps /\ required' = required /\ cp_depth' = cp_depth
  BY FiniteFiles DEF SelectWeighted, Positions, Types, input
<1>1. CASE next_cdd > N
  <2>1. /\ UNCHANGED <<comp_cdds, unique_cps>>
        /\ pc' = "greedy" /\ next_cdd' = 1 /\ cand' = 1 /\ best' = 1
        /\ ranked_merged' = [p \in Point |-> 0]
    BY <1>0, <1>1 DEF SelectWeighted
  <2>2. Permutation' /\ Types'
    BY <1>0, <2>1 DEF Permutation, Types, Position, N
  <2>3. Positions'
    BY <1>0, <2>1 DEF Positions, N
  <2>4. (1..(next_cdd - 1))' = {}
    BY <2>1
  <2>5. Ranked' = {}
    BY <2>4 DEF Ranked
  <2>6. RankedExact'
    <3>1. \A p \in Point : Cardinality((Hitting(p) \cap Ranked)') = 0
      BY <2>5, FS_EmptySet
    <3> QED BY <2>1, <3>1 DEF RankedExact
  <2>7. WorthyEnough'
    BY <2>5 DEF WorthyEnough, Worthy
  <2>8. InOrder'
    BY <2>4, <2>5 DEF InOrder
  <2>9. BestSoFar'
    BY <1>0, <2>1 DEF BestSoFar, N
  <2> QED BY <2>2, <2>3, <2>6, <2>7, <2>8, <2>9
<1>2. CASE next_cdd <= N /\ cand \in Position
  <2>1. /\ UNCHANGED <<comp_cdds, unique_cps, counts, next_cdd, pc>>
        /\ cand' = cand + 1 /\ best' \in {best, cand}
    BY <1>0, <1>2 DEF SelectWeighted
  <2>2. Permutation' /\ Types'
    BY <1>0, <2>1 DEF Permutation, Types, Position, counts, N
  <2>3. Positions'
    BY <1>0, <1>2, <2>1 DEF Positions, Position, N
  <2>4. ~Greedy'
    BY <1>0, <2>1 DEF Greedy
  <2> QED BY <2>2, <2>3, <2>4 DEF WorthyEnough, BestSoFar, InOrder, Greedy
<1>3. CASE next_cdd <= N /\ cand \notin Position
  <2>1. /\ rank_selected_cdd_cov(best)
        /\ best' = next_cdd' /\ cand' = next_cdd' /\ pc' = pc
    BY <1>0, <1>3 DEF SelectWeighted
  <2>2. next_cdd \in 1..N /\ best \in next_cdd..N
    BY <1>0, <1>3
  <2>3. /\ Permutation' /\ next_cdd' = next_cdd + 1
        /\ unique_cps' \in [File -> Nat] /\ ranked_merged' \in [Point -> Nat]
    BY <2>1, <2>2, SelectKeeps
  <2>4. Types' /\ Positions'
    BY <1>0, <2>1, <2>2, <2>3 DEF Types, Positions, N
  <2>5. ~Greedy'
    BY <1>0, <2>1 DEF Greedy
  <2> QED BY <2>3, <2>4, <2>5 DEF WorthyEnough, BestSoFar, InOrder, Greedy
<1> QED BY <1>0, <1>1, <1>2, <1>3

-----------------------------------------------------------------------------
(* The sort looks at one more file. *)
LEMMA LookStep ==
  ASSUME IInv, SortGreedy, next_cdd <= N, cand \in Position
  PROVE  IInv'
<1> USE DEF IInv
<1> DEFINE f == comp_cdds[cand]
<1>0. /\ N \in Nat /\ pc = "greedy" /\ pc' = pc /\ next_cdd \in 1..N /\ best \in next_cdd..N
      /\ cand \in next_cdd..N /\ cand' = cand + 1 /\ best' \in {best, cand}
      /\ next_cdd' = next_cdd /\ comp_cdds' = comp_cdds /\ ranked_merged' = ranked_merged
      /\ unique_cps' = [unique_cps EXCEPT ![f] = Unique(f)]
      /\ cps' = cps /\ required' = required /\ cp_depth' = cp_depth
      /\ f \in File
  BY FiniteFiles DEF SortGreedy, Positions, Types, input, Position, Permutation
<1>1. /\ Permutation' /\ Ranked' = Ranked
      /\ \A g \in File : Unique(g)' = Unique(g)
      /\ \A p \in Point : Hitting(p)' = Hitting(p)
  BY <1>0 DEF Permutation, Ranked, Unique, Hitting, Position, N
<1>2. /\ Unique(f) \in Nat /\ unique_cps'[f] = Unique(f)
      /\ \A g \in File \ {f} : unique_cps'[g] = unique_cps[g]
      /\ unique_cps' \in [File -> Nat]
  BY <1>0, UniqueType DEF Types
<1>3. f \notin Ranked
  BY <1>0 DEF Ranked, Permutation, Position
<1>4. Types' /\ Positions'
  BY <1>0, <1>2 DEF Types, Positions, N
<1>5. RankedExact'
  BY <1>0, <1>1 DEF RankedExact, Greedy
<1>6. WorthyEnough'
  <2>1. \A p \in Point : Worthy(p)' = Worthy(p)
    BY <1>0, <1>1, <1>2, <1>3 DEF Worthy, Hitting
  <2> QED BY <1>0, <1>1, <2>1 DEF WorthyEnough, Greedy
<1>7. InOrder'
  <2>1. \A i \in 1..(next_cdd - 1) : comp_cdds[i] \in File \ {f}
    BY <1>0, <1>3 DEF Ranked, Permutation, Position
  <2> QED BY <1>0, <1>1, <1>2, <2>1 DEF InOrder, Greedy
<1>8. BestSoFar'
  <2>1. /\ \A j \in next_cdd..N : comp_cdds[j] \in File /\ (j # cand => comp_cdds[j] # f)
        /\ \A j \in next_cdd..N : j < cand => unique_cps'[comp_cdds[j]] = unique_cps[comp_cdds[j]]
    BY <1>0, <1>2 DEF Permutation, Position
  <2>2. best <= cand /\ (cand > next_cdd => best < cand) /\ (cand = next_cdd => best = cand)
    BY <1>0 DEF BestSoFar
  <2>3. best' <= cand
    BY <1>0, <2>2
  <2>4. \A j \in next_cdd..N : j < cand + 1 => unique_cps'[comp_cdds[j]] = Unique(comp_cdds[j])
    <3> TAKE j \in next_cdd..N
    <3> HAVE j < cand + 1
    <3>1. CASE j = cand
      BY <1>2, <3>1
    <3>2. CASE j < cand
      BY <1>0, <2>1, <3>2 DEF BestSoFar
    <3> QED BY <1>0, <3>1, <3>2
  <2>5. \A j \in next_cdd..N : j < cand + 1 => unique_cps'[comp_cdds[j]] <= unique_cps'[comp_cdds[best']]
    <3> DEFINE b == comp_cdds[best]
    <3>1. /\ b \in File /\ unique_cps'[b] \in Nat /\ unique_cps'[f] \in Nat
          /\ \A j \in next_cdd..N : unique_cps'[comp_cdds[j]] \in Nat
      BY <1>0, <1>2, <2>1
    <3>2. \A j \in next_cdd..N : j < cand => unique_cps'[comp_cdds[j]] <= unique_cps'[b]
      BY <1>0, <2>1, <2>2 DEF BestSoFar
    <3>3. CASE Better(f, b, unique_cps')
      <4>1. best' = cand
        BY <1>0, <3>3 DEF SortGreedy, Position
      <4>2. unique_cps'[b] <= unique_cps'[f]
        BY <3>1, <3>3 DEF Better
      <4> QED BY <1>0, <3>1, <3>2, <4>1, <4>2
    <3>4. CASE ~Better(f, b, unique_cps')
      <4>1. best' = best
        BY <1>0, <3>4 DEF SortGreedy, Position
      <4>2. unique_cps'[f] <= unique_cps'[b]
        BY <3>1, <3>4 DEF Better
      <4> QED BY <1>0, <3>1, <3>2, <4>1, <4>2
    <3> QED BY <3>3, <3>4
  <2> QED BY <1>0, <1>1, <2>1, <2>3, <2>4, <2>5 DEF BestSoFar, N
<1> QED BY <1>0, <1>1, <1>4, <1>5, <1>6, <1>7, <1>8

(* The sort takes the best file: no other adds more, now or later. *)
LEMMA PickStep ==
  ASSUME IInv, SortGreedy, next_cdd <= N, cand \notin Position
  PROVE  IInv'
<1> USE DEF IInv
<1> DEFINE f == comp_cdds[best]
<1>0. /\ N \in Nat /\ pc = "greedy" /\ pc' = pc /\ next_cdd \in 1..N /\ best \in next_cdd..N
      /\ cand = N + 1
      /\ next_cdd' = next_cdd + 1 /\ cand' = next_cdd + 1 /\ best' = next_cdd + 1
      /\ comp_cdds' = Swapped(next_cdd, best)
      /\ unique_cps' = unique_cps /\ cps' = cps /\ required' = required /\ cp_depth' = cp_depth
      /\ ranked_merged' = [p \in Point |-> ranked_merged[p] + (IF p \in cps[f] THEN 1 ELSE 0)]
  BY FiniteFiles DEF SortGreedy, Positions, Types, input, Position, BestSoFar
<1>1. /\ Permutation' /\ Ranked \subseteq File /\ f \in File \ Ranked
      /\ Ranked' = Ranked \cup {f}
      /\ \A k \in 1..(next_cdd - 1) : comp_cdds'[k] = comp_cdds[k]
      /\ comp_cdds'[next_cdd] = f
  BY <1>0, SwapRanks
<1>2. unique_cps[f] = Unique(f) /\ \A g \in File \ Ranked : Unique(g) <= unique_cps[f]
  <2>1. ASSUME NEW g \in File \ Ranked
        PROVE  \E k \in next_cdd..N : comp_cdds[k] = g
    <3>1. PICK k \in Position : comp_cdds[k] = g
      BY DEF Permutation
    <3>2. k \notin 1..(next_cdd - 1)
      BY <3>1 DEF Ranked
    <3> QED BY <1>0, <3>1, <3>2 DEF Position
  <2> QED BY <1>0, <2>1 DEF BestSoFar
<1>3. Types' /\ Positions'
  <2>1. ranked_merged' \in [Point -> Nat]
    BY <1>0 DEF Types
  <2> QED BY <1>0, <2>1 DEF Types, Positions, N
<1>4. RankedExact'
  <2>1. \A p \in Point : Hitting(p) \in SUBSET File /\ (f \in Hitting(p) <=> p \in cps[f])
    BY <1>1 DEF Hitting
  <2>2. \A p \in Point : Cardinality(Hitting(p) \cap Ranked') = ranked_merged'[p]
    <3> TAKE p \in Point
    <3> HIDE DEF f
    <3> DEFINE H == Hitting(p)
    <3>0. H \in SUBSET File /\ Ranked \in SUBSET File /\ f \in File \ Ranked
      BY <1>1, <2>1
    <3> HIDE DEF H
    <3>a. /\ Cardinality(H \cap (Ranked \cup {f})) = Cardinality(H \cap Ranked) + (IF f \in H THEN 1 ELSE 0)
          /\ Cardinality(H \ (Ranked \cup {f})) = Cardinality(H \ Ranked) - (IF f \in H THEN 1 ELSE 0)
          /\ f \in H => Cardinality(H \ Ranked) > 0
      BY <3>0, OneMore
    <3>1. Cardinality(Hitting(p) \cap Ranked') = Cardinality(Hitting(p) \cap Ranked) + (IF f \in Hitting(p) THEN 1 ELSE 0)
      BY <1>1, <3>a DEF H
    <3>2. Cardinality(Hitting(p) \cap Ranked) = ranked_merged[p]
      BY <1>0 DEF RankedExact, Greedy
    <3> QED BY <1>0, <2>1, <3>1, <3>2
  <2> QED BY <1>0, <2>2 DEF RankedExact, Hitting
<1>5. WorthyEnough'
  <2> SUFFICES ASSUME NEW p \in Point
               PROVE  Cardinality(Worthy(p)') >= cp_depth \/ Worthy(p)' = Hitting(p) \cap Ranked'
    BY <1>0 DEF WorthyEnough, Hitting
  <2>1. Worthy(p)' = IF p \in cps[f] /\ unique_cps[f] > 0 THEN Worthy(p) \cup {f} ELSE Worthy(p)
    BY <1>0, <1>1 DEF Worthy, Hitting
  <2>2. /\ Worthy(p) \in SUBSET File /\ IsFiniteSet(Worthy(p)) /\ Cardinality(Worthy(p)) \in Nat
        /\ f \notin Worthy(p)
    BY <1>1, FiniteFiles DEF Worthy, Hitting
  <2>3. Cardinality(Worthy(p)) >= cp_depth \/ Worthy(p) = Hitting(p) \cap Ranked
    BY <1>0 DEF WorthyEnough, Greedy
  <2>4. cp_depth \in Nat /\ unique_cps[f] \in Nat
    BY <1>1 DEF Types
  <2>5. CASE p \notin cps[f]
    <3>1. Hitting(p) \cap Ranked' = Hitting(p) \cap Ranked
      BY <1>1, <2>5 DEF Hitting
    <3> QED BY <2>1, <2>3, <2>5, <3>1
  <2>6. CASE p \in cps[f] /\ unique_cps[f] > 0
    <3>1. Cardinality(Worthy(p)') = Cardinality(Worthy(p)) + 1
      BY <2>1, <2>2, <2>6, FS_AddElement
    <3>2. Hitting(p) \cap Ranked' = (Hitting(p) \cap Ranked) \cup {f}
      BY <1>1, <2>6 DEF Hitting
    <3> QED BY <2>1, <2>2, <2>3, <2>4, <2>6, <3>1, <3>2
  <2>7. CASE p \in cps[f] /\ unique_cps[f] = 0
    <3>1. ranked_merged[p] >= cp_depth
      BY <1>1, <1>2, <2>7, UniqueType
    <3>2. Cardinality(Hitting(p) \cap Ranked) >= cp_depth
      BY <1>0, <3>1 DEF RankedExact, Greedy
    <3>3. Worthy(p)' = Worthy(p)
      BY <2>1, <2>7
    <3> QED BY <2>3, <3>2, <3>3
  <2> QED BY <2>4, <2>5, <2>6, <2>7
<1>6. InOrder'
  <2>1. \A g \in File : Unique(g)' <= Unique(g) /\ Unique(g)' \in Nat /\ Unique(g) \in Nat
    <3> TAKE g \in File
    <3>1. \A p \in Point : ranked_merged'[p] >= ranked_merged[p]
      BY <1>0 DEF Types
    <3>2. Unique(g)' <= Unique(g)
      BY <1>0, <1>3, <3>1, UniqueShrinks
    <3>3. Unique(g) \in Nat
      BY UniqueType
    <3>4. Unique(g)' \in Nat
      <4>1. {p \in cps[g] : ranked_merged'[p] < cp_depth} \in SUBSET Point
        BY DEF Types
      <4> QED BY <1>0, <4>1, FiniteFiles DEF Unique
    <3> QED BY <3>2, <3>3, <3>4
  <2>2. /\ \A i, j \in 1..(next_cdd - 1) : i < j => unique_cps[comp_cdds[i]] >= unique_cps[comp_cdds[j]]
        /\ \A i \in 1..(next_cdd - 1) : \A g \in File \ Ranked : Unique(g) <= unique_cps[comp_cdds[i]]
    BY <1>0 DEF InOrder, Greedy
  <2>3. /\ unique_cps[f] \in Nat
        /\ \A i \in 1..(next_cdd - 1) : unique_cps[comp_cdds[i]] \in Nat
    BY <1>0, <1>1 DEF Types, Permutation, Position
  <2>4. ASSUME NEW i \in 1..next_cdd, NEW j \in 1..next_cdd, i < j
        PROVE  unique_cps[comp_cdds'[i]] >= unique_cps[comp_cdds'[j]]
    <3>1. i \in 1..(next_cdd - 1) /\ comp_cdds'[i] = comp_cdds[i]
      BY <1>0, <1>1, <2>4
    <3>2. CASE j = next_cdd
      BY <1>1, <1>2, <2>2, <2>3, <3>1, <3>2
    <3>3. CASE j # next_cdd
      <4>1. j \in 1..(next_cdd - 1) /\ comp_cdds'[j] = comp_cdds[j]
        BY <1>0, <1>1, <3>3
      <4> QED BY <2>2, <2>4, <3>1, <4>1
    <3> QED BY <3>2, <3>3
  <2>5. ASSUME NEW i \in 1..next_cdd, NEW g \in File \ Ranked'
        PROVE  Unique(g)' <= unique_cps[comp_cdds'[i]]
    <3>1. g \in File \ Ranked /\ Unique(g)' <= Unique(g) /\ Unique(g)' \in Nat /\ Unique(g) \in Nat
      BY <1>1, <2>1
    <3>2. CASE i = next_cdd
      BY <1>1, <1>2, <2>3, <3>1, <3>2
    <3>3. CASE i # next_cdd
      <4>1. i \in 1..(next_cdd - 1) /\ comp_cdds'[i] = comp_cdds[i]
        BY <1>0, <1>1, <3>3
      <4> QED BY <2>2, <2>3, <3>1, <4>1
    <3> QED BY <3>2, <3>3
  <2>6. 1..(next_cdd' - 1) = 1..next_cdd
    BY <1>0
  <2> QED BY <1>0, <2>4, <2>5, <2>6 DEF InOrder
<1>7. BestSoFar'
  <2>1. cand' = next_cdd' /\ best' = next_cdd' /\ next_cdd' \in Nat
    BY <1>0
  <2>2. next_cdd' <= N => cand' <= N + 1
    BY <1>0
  <2>3. \A j \in next_cdd'..N : ~(j < cand')
    BY <1>0, <2>1
  <2>4. ~(cand' > next_cdd')
    BY <1>0
  <2> QED BY <2>1, <2>2, <2>3, <2>4 DEF BestSoFar, N
<1> QED BY <1>0, <1>1, <1>3, <1>4, <1>5, <1>6, <1>7

LEMMA GreedyStep == IInv /\ SortGreedy => IInv'
<1> SUFFICES ASSUME IInv, SortGreedy PROVE IInv'
  OBVIOUS
<1>1. N \in Nat /\ next_cdd \in Nat
  BY FiniteFiles DEF IInv, Types
<1>2. CASE next_cdd <= N /\ cand \in Position
  BY <1>2, LookStep
<1>3. CASE next_cdd <= N /\ cand \notin Position
  BY <1>3, PickStep
<1>4. CASE next_cdd > N
  <2> USE DEF IInv
  <2>1. /\ pc = "greedy" /\ pc' = "done" /\ next_cdd = N + 1
        /\ UNCHANGED <<comp_cdds, unique_cps, ranked_merged, next_cdd, cand, best, input>>
    BY <1>1, <1>4 DEF SortGreedy, Types
  <2>2. Permutation' /\ Types' /\ Positions'
    BY <1>1, <2>1 DEF Permutation, Types, Positions, Position, N, input
  <2>3. Ranked' = Ranked /\ \A p : Hitting(p)' = Hitting(p)
    BY <2>1 DEF Ranked, Hitting, input
  <2>4. RankedExact'
    BY <2>1, <2>3 DEF RankedExact, Greedy
  <2>5. WorthyEnough'
    BY <2>1, <2>3 DEF WorthyEnough, Worthy, Greedy, input
  <2>6. InOrder'
    BY <2>1, <2>3 DEF InOrder, Greedy, Unique, input
  <2> QED BY <2>1, <2>2, <2>4, <2>5, <2>6 DEF BestSoFar
<1> QED BY <1>1, <1>2, <1>3, <1>4

LEMMA StutterStep == IInv /\ UNCHANGED vars => IInv'
<1> SUFFICES ASSUME IInv, UNCHANGED vars PROVE IInv'
  OBVIOUS
<1>1. /\ cps' = cps /\ timesteps' = timesteps /\ required' = required /\ cp_depth' = cp_depth
      /\ comp_cdds' = comp_cdds /\ unique_cps' = unique_cps /\ score' = score
      /\ ranked_merged' = ranked_merged /\ unranked_merged' = unranked_merged
      /\ pc' = pc /\ next_cdd' = next_cdd /\ cand' = cand /\ best' = best
  BY DEF vars, input, counts
<1>2. Permutation' /\ Types' /\ Positions'
  BY <1>1 DEF IInv, Permutation, Types, Positions, Position, N, Ranked
<1>3. Ranked' = Ranked /\ Greedy' = Greedy /\ N' = N
  BY <1>1 DEF Ranked, Greedy, N
<1>4. \A p : Hitting(p)' = Hitting(p)
  BY <1>1 DEF Hitting
<1>5. \A p : Worthy(p)' = Worthy(p)
  BY <1>1, <1>3, <1>4 DEF Worthy
<1>6. \A f : Unique(f)' = Unique(f)
  BY <1>1 DEF Unique
<1>7. Greedy' => RankedExact'
  BY <1>1, <1>3, <1>4 DEF IInv, RankedExact
<1>8. WorthyEnough'
  <2>1. WorthyEnough
    BY DEF IInv
  <2> QED BY <1>1, <1>3, <1>4, <1>5, <2>1 DEF WorthyEnough
<1>9. InOrder'
  <2>1. InOrder
    BY DEF IInv
  <2> QED BY <1>1, <1>3, <1>6, <2>1 DEF InOrder
<1>10. BestSoFar'
  <2>1. BestSoFar
    BY DEF IInv
  <2> QED BY <1>1, <1>3, <1>6, <2>1 DEF BestSoFar
<1> QED BY <1>2, <1>7, <1>8, <1>9, <1>10 DEF IInv

(* The permutation, the loops and the order are right whatever the counters *)
(* of steps 2 to 4 hold.                                                    *)
LEMMA Inductive == IInv /\ [Next]_vars => IInv'
BY CountStep, RequiredStep, UniqueStep, WeightedStep, GreedyStep, StutterStep DEF Next, Finished

-----------------------------------------------------------------------------
(* With exact counters, a file takes every point it hits, and the counters  *)
(* stay exact.                                                              *)
LEMMA SelectCounts ==
  ASSUME Permutation, Types, Unranked, RankedExact, Counting, next_cdd \in 1..N,
         NEW i \in next_cdd..N, rank_selected_cdd_cov(i), cps' = cps
  PROVE  RankedExact' /\ Unranked'
<1> DEFINE f == comp_cdds[i]
<1>1. Ranked' = Ranked \cup {f} /\ f \in File \ Ranked
  BY SelectKeeps
<1>2. Ranked \in SUBSET File
  BY SwapRanks DEF rank_selected_cdd_cov
<1>3. \A p \in Point : Hitting(p) \in SUBSET File /\ (f \in Hitting(p) <=> p \in cps[f])
  BY <1>1 DEF Hitting
<1>4. /\ \A p \in Point : unranked_merged[p] = Cardinality(Hitting(p) \ Ranked)
      /\ \A p \in Point : ranked_merged[p] = Cardinality(Hitting(p) \cap Ranked)
      /\ unranked_merged \in [Point -> Nat]
  BY DEF Unranked, RankedExact
<1> HIDE DEF f
<1>5. ASSUME NEW p \in Point
      PROVE  /\ Cardinality(Hitting(p) \cap Ranked') = ranked_merged[p] + (IF p \in cps[f] THEN 1 ELSE 0)
             /\ Cardinality(Hitting(p) \ Ranked') = unranked_merged[p] - (IF p \in cps[f] THEN 1 ELSE 0)
             /\ p \in cps[f] => unranked_merged[p] > 0
  <2> DEFINE H == Hitting(p)
  <2>1. H \in SUBSET File
    BY <1>3
  <2> HIDE DEF H
  <2>2. /\ Cardinality(H \cap (Ranked \cup {f})) = Cardinality(H \cap Ranked) + (IF f \in H THEN 1 ELSE 0)
        /\ Cardinality(H \ (Ranked \cup {f})) = Cardinality(H \ Ranked) - (IF f \in H THEN 1 ELSE 0)
        /\ f \in H => Cardinality(H \ Ranked) > 0
    BY <1>1, <1>2, <2>1, OneMore
  <2> QED BY <1>1, <1>3, <1>4, <2>2 DEF H
<1>6. Taken(f) = cps[f]
  BY <1>1, <1>5 DEF Taken, Types
<1>7. /\ unranked_merged' = [p \in Point |-> unranked_merged[p] - (IF p \in Taken(f) THEN 1 ELSE 0)]
      /\ ranked_merged' = [p \in Point |-> ranked_merged[p] + (IF p \in Taken(f) THEN 1 ELSE 0)]
  BY DEF rank_selected_cdd_cov, f
<1>8. \A p \in Point : ranked_merged'[p] = Cardinality(Hitting(p) \cap Ranked')
  BY <1>5, <1>6, <1>7
<1>9. \A p \in Point : unranked_merged'[p] = Cardinality(Hitting(p) \ Ranked')
  BY <1>5, <1>6, <1>7
<1>10. unranked_merged' \in [Point -> Nat]
  <2>1. ASSUME NEW p \in Point
        PROVE  unranked_merged[p] - (IF p \in cps[f] THEN 1 ELSE 0) \in Nat
    <3>1. unranked_merged[p] \in Nat /\ (p \in cps[f] => unranked_merged[p] > 0)
      BY <1>4, <1>5
    <3>2. CASE p \in cps[f]
      BY <3>1, <3>2
    <3>3. CASE p \notin cps[f]
      BY <3>1, <3>3
    <3> QED BY <3>2, <3>3
  <2> QED BY <1>6, <1>7, <2>1
<1>11. \A p \in Point : Hitting(p)' = Hitting(p)
  BY DEF Hitting
<1> QED BY <1>8, <1>9, <1>10, <1>11 DEF RankedExact, Unranked

(* Step 1 counts every point at its own index. *)
LEMMA CountCounts ==
  ASSUME IndexFits, IInvC, CountPoints
  PROVE  Unranked' /\ RankedExact'
<1>1. IndexSize \in Nat /\ Point \subseteq Nat
  BY PointAssumption DEF IndexFits
<1>2. \A q \in Point : q % IndexSize = q
  <2>1. \A q, k \in Nat : q < k => q % k = q
    OBVIOUS
  <2> QED BY <1>1, <2>1 DEF IndexFits
<1>3. \A p \in Point : CountedAt(p) = {p}
  BY <1>2 DEF CountedAt
<1>4. \A p \in Point : (CHOOSE q \in CountedAt(p) : \A r \in CountedAt(p) : r <= q) = p
  BY <1>1, <1>3
<1>5. unranked_merged' = [p \in Point |-> Cardinality(Hitting(p))]
  BY <1>3, <1>4 DEF CountPoints
<1>6. Ranked' = Ranked /\ Ranked = {} /\ \A p : Hitting(p)' = Hitting(p)
  <2>1. 1..(next_cdd - 1) = {}
    BY DEF IInvC, IInv, Positions, CountPoints
  <2> QED BY <2>1 DEF CountPoints, input, Ranked, Hitting
<1>7. \A p \in Point : Cardinality(Hitting(p)) \in Nat
  <2>1. \A p \in Point : Hitting(p) \in SUBSET File
    BY DEF Hitting
  <2> QED BY <2>1, FiniteFiles
<1>8. RankedExact'
  BY <1>6 DEF IInvC, RankedExact, CountPoints
<1>9. \A p \in Point : Hitting(p) \ Ranked = Hitting(p)
  BY <1>6
<1> QED BY <1>5, <1>6, <1>7, <1>8, <1>9 DEF Unranked

(* A step that moves no file and counts nothing. *)
LEMMA SameCounts ==
  ASSUME IInvC, Counting' => Counting, UNCHANGED <<comp_cdds, counts, next_cdd, cps>>
  PROVE  Unranked' /\ RankedExact'
<1>1. Ranked' = Ranked /\ \A p : Hitting(p)' = Hitting(p)
  BY DEF Ranked, Hitting
<1> QED BY <1>1 DEF IInvC, Unranked, RankedExact, counts

LEMMA InductiveCounts == IndexFits /\ IInvC /\ [Next]_vars => IInvC'
<1> SUFFICES ASSUME IndexFits, IInvC, [Next]_vars PROVE Unranked' /\ RankedExact'
  BY Inductive DEF IInvC
<1>0. N \in Nat /\ Permutation /\ Types /\ Positions /\ Unranked /\ RankedExact
  BY FiniteFiles DEF IInvC, IInv
<1>1. CASE CountPoints
  BY <1>1, CountCounts
<1>2. CASE SelectRequired
  <2>1. cps' = cps /\ Counting
    BY <1>2 DEF SelectRequired, Counting, input
  <2>2. CASE cand \in Position /\ comp_cdds[cand] \in required
    <3>1. rank_selected_cdd_cov(cand)
      BY <1>2, <2>2 DEF SelectRequired
    <3>2. next_cdd \in 1..N /\ cand \in next_cdd..N
      BY <1>0, <1>2, <2>2 DEF SelectRequired, Positions, Types, Position
    <3> QED BY <1>0, <2>1, <3>1, <3>2, SelectCounts
  <2>3. CASE ~(cand \in Position /\ comp_cdds[cand] \in required)
    <3>1. UNCHANGED <<comp_cdds, counts, next_cdd>>
      BY <1>2, <2>3 DEF SelectRequired
    <3> QED BY <2>1, <3>1, SameCounts
  <2> QED BY <2>2, <2>3
<1>3. CASE SelectUnique
  <2>1. cps' = cps /\ Counting
    BY <1>3 DEF SelectUnique, Counting, input
  <2>2. CASE cand \notin Position /\ unique_cps[comp_cdds[best]] > 0
    <3>1. rank_selected_cdd_cov(best)
      BY <1>3, <2>2 DEF SelectUnique
    <3>2. next_cdd \in 1..N /\ best \in next_cdd..N
      BY <1>0, <1>3 DEF SelectUnique, Positions, Types
    <3> QED BY <1>0, <2>1, <3>1, <3>2, SelectCounts
  <2>3. CASE ~(cand \notin Position /\ unique_cps[comp_cdds[best]] > 0)
    <3>1. UNCHANGED <<comp_cdds, counts, next_cdd>>
      BY <1>3, <2>3 DEF SelectUnique
    <3> QED BY <2>1, <3>1, SameCounts
  <2> QED BY <2>2, <2>3
<1>4. CASE SelectWeighted
  <2>1. cps' = cps /\ Counting /\ next_cdd \in 1..(N + 1)
    BY <1>0, <1>4 DEF SelectWeighted, Counting, input, Types
  <2>2. CASE next_cdd > N
    <3>1. pc' = "greedy" /\ next_cdd' = 1 /\ ranked_merged' = [p \in Point |-> 0]
      BY <1>0, <2>1, <1>4, <2>2 DEF SelectWeighted
    <3>2. (1..(next_cdd - 1))' = {}
      BY <3>1
    <3>3. Ranked' = {}
      BY <3>2 DEF Ranked
    <3>4. \A p \in Point : Cardinality((Hitting(p) \cap Ranked)') = 0
      BY <3>3, FS_EmptySet
    <3> QED BY <3>1, <3>4 DEF RankedExact, Unranked, Counting
  <2>3. CASE next_cdd <= N /\ cand \notin Position
    <3>1. rank_selected_cdd_cov(best)
      BY <1>0, <1>4, <2>1, <2>3 DEF SelectWeighted
    <3>2. next_cdd \in 1..N /\ best \in next_cdd..N
      BY <1>0, <1>4, <2>1, <2>3 DEF SelectWeighted, Positions
    <3> QED BY <1>0, <2>1, <3>1, <3>2, SelectCounts
  <2>4. CASE next_cdd <= N /\ cand \in Position
    <3>1. UNCHANGED <<comp_cdds, counts, next_cdd>>
      BY <1>0, <1>4, <2>1, <2>4 DEF SelectWeighted
    <3> QED BY <2>1, <3>1, SameCounts
  <2> QED BY <1>0, <2>1, <2>2, <2>3, <2>4
<1>5. CASE SortGreedy
  <2>1. IInv'
    BY <1>5, GreedyStep DEF IInvC
  <2>2. Greedy' /\ ~Counting'
    BY <1>5 DEF SortGreedy, Greedy, Counting
  <2> QED BY <2>1, <2>2 DEF IInv, Unranked
<1>6. CASE Finished \/ UNCHANGED vars
  <2>1. UNCHANGED vars
    BY <1>6 DEF Finished
  <2> QED BY <2>1, SameCounts DEF vars, input, counts, Counting
<1> QED BY <1>1, <1>2, <1>3, <1>4, <1>5, <1>6 DEF Next

-----------------------------------------------------------------------------
LEMMA Kept == IInv => CoverageKept
<1> SUFFICES ASSUME IInv, pc = "done", NEW p \in Point
             PROVE  LET kept == Cardinality({f \in Hitting(p) : Needed(f)})
                    IN  kept >= cp_depth \/ kept = Cardinality(Hitting(p))
  BY DEF CoverageKept
<1> USE DEF IInv
<1> DEFINE K == {f \in Hitting(p) : Needed(f)}
<1>1. N \in Nat /\ next_cdd = N + 1
  BY FiniteFiles DEF Positions
<1>2. Ranked = File
  BY <1>1 DEF Ranked, Permutation, Position
<1>3. Hitting(p) \in SUBSET File /\ Worthy(p) \in SUBSET K /\ K \in SUBSET File
  BY DEF Hitting, Worthy, Needed
<1>4. IsFiniteSet(K) /\ Cardinality(K) \in Nat /\ Cardinality(Worthy(p)) \in Nat /\ cp_depth \in Nat
  BY <1>3, FiniteFiles DEF Types
<1>5. Cardinality(Worthy(p)) <= Cardinality(K)
  BY <1>3, <1>4, FS_Subset
<1>6. Cardinality(Worthy(p)) >= cp_depth \/ Worthy(p) = Hitting(p)
  BY <1>2, <1>3 DEF WorthyEnough, Greedy
<1>7. Worthy(p) = Hitting(p) => K = Hitting(p)
  BY <1>3
<1>8. Cardinality(K) >= cp_depth \/ K = Hitting(p)
  BY <1>4, <1>5, <1>6, <1>7
<1> QED BY <1>8

(* Whatever files the user requires and however deep points are to be hit,  *)
(* the files rank_output lists above the line keep the coverage             *)
(* (rank_perform, rank_perform_greedy_sort and rank_output).                *)
THEOREM KeepsCoverage == Spec => []CoverageKept
<1>1. Init => IInv
  BY InitInv DEF IInvC
<1>2. IInv /\ [Next]_vars => IInv'
  BY Inductive
<1>3. IInv => CoverageKept
  BY Kept
<1> QED BY <1>1, <1>2, <1>3, PTL DEF Spec

(* The list rank_perform_greedy_sort leaves is in order of what its files   *)
(* add, whatever the ties its conditions decide.                            *)
THEOREM GainDecreases == Spec => []DecreasingGain
<1>1. Init => IInv
  BY InitInv DEF IInvC
<1>2. IInv /\ [Next]_vars => IInv'
  BY Inductive
<1>3. IInv => DecreasingGain
  <2> SUFFICES ASSUME IInv, pc = "done" PROVE DecreasingGain
    BY DEF DecreasingGain
  <2>1. N \in Nat /\ next_cdd = N + 1
    BY FiniteFiles DEF IInv, Positions
  <2>2. 1..(next_cdd - 1) = Position
    BY <2>1 DEF Position
  <2> QED BY <2>2 DEF IInv, InOrder, Greedy, DecreasingGain
<1> QED BY <1>1, <1>2, <1>3, PTL DEF Spec

(* As long as the index of every coverage point fits in merged_index, the   *)
(* counters that rank_selected_cdd_cov updates point by point are those of  *)
(* the files ranked and not yet ranked.                                     *)
THEOREM CountersAreExact ==
  ASSUME IndexFits
  PROVE  Spec => []CountersExact
<1>1. Init => IInvC
  BY InitInv
<1>2. IInvC /\ [Next]_vars => IInvC'
  BY InductiveCounts
<1>3. IInvC => CountersExact
  <2> SUFFICES ASSUME IInvC PROVE CountersExact
    OBVIOUS
  <2>1. {comp_cdds[i] : i \in Position} = File
    BY DEF IInvC, IInv, Permutation
  <2> QED BY <2>1 DEF IInvC, Unranked, RankedExact, Ranked, Counting, CountersExact
<1> QED BY <1>1, <1>2, <1>3, PTL DEF Spec
=============================================================================
