-------------------------------- MODULE Rank --------------------------------
(***************************************************************************)
(* The rank command (rank.c): CDD files are put into the order in which    *)
(* their simulations should be run, and those that add nothing are left    *)
(* out.  Each file is the set of coverage points it hits (comp_cdd_cov);   *)
(* the five steps of rank_perform move the files about in the array        *)
(* comp_cdds, step 5 once more from the start.  The loops that look for    *)
(* the next file are steps of their own: "cand" is the file they look at,  *)
(* "best" the best one so far.                                             *)
(***************************************************************************)
EXTENDS Naturals, FiniteSetsExt

CONSTANTS
  File,         (* the files to rank                                         *)
  Order,        (* the order in which they are given                         *)
  Point,        (* the coverage points of the design, from 0                 *)
  Metric,       (* CP_TYPE_LINE, CP_TYPE_TOGGLE, ...                         *)
  MetricOf,     (* the metric of each point                                  *)
  Weight,       (* cdd_type_weight                                           *)
  Timesteps,    (* lengths of simulations                                    *)
  Depths,       (* values of -depth                                          *)
  IndexSize,    (* merged_index is a uint16 and counts modulo this           *)
  Garbage       (* what unranked_merged may hold before it is written        *)

ASSUME PointAssumption  == Point \subseteq Nat
ASSUME MetricAssumption == MetricOf \in [Point -> Metric] /\ IsFiniteSet(Metric)
ASSUME FileAssumption   == IsFiniteSet(File) /\ IsFiniteSet(Point)
ASSUME OrderAssumption  == /\ Order \in [1..Cardinality(File) -> File]
                           /\ \A f \in File : \E i \in DOMAIN Order : Order[i] = f
                           /\ \A i, j \in DOMAIN Order : Order[i] = Order[j] => i = j
ASSUME DepthAssumption  == Depths \subseteq Nat \ {0} /\ Timesteps \subseteq Nat \ {0}

VARIABLES
  cps, timesteps, required,    (* of each file                               *)
  cp_depth,
  comp_cdds,                   (* the array of files, from 1                 *)
  unique_cps, score,           (* of each file                               *)
  ranked_merged, unranked_merged,    (* files that hit a point, by rank      *)
  pc,
  next_cdd,                    (* the position to be filled                  *)
  cand, best                   (* positions                                  *)

input == <<cps, timesteps, required, cp_depth>>
counts == <<ranked_merged, unranked_merged>>
vars == <<input, comp_cdds, unique_cps, score, counts, pc, next_cdd, cand, best>>

N == Cardinality(File)
Position == 1..N

Hitting(p) == {f \in File : p \in cps[f]}

(* At least one file is not required: with none left, step 3 would look at  *)
(* the element behind the array.                                            *)
Init ==
  /\ cps \in [File -> SUBSET Point]
  /\ timesteps \in [File -> Timesteps]
  /\ required \in (SUBSET File) \ {File}
  /\ cp_depth \in Depths
  /\ comp_cdds = Order
  /\ unique_cps = [f \in File |-> 0] /\ score = [f \in File |-> 0]
  /\ ranked_merged = [p \in Point |-> 0]
  /\ unranked_merged \in [Point -> Garbage]
  /\ pc = "count" /\ next_cdd = 1 /\ cand = 1 /\ best = 1

(* Step 1.  The last point whose index is p, if any, leaves its number. *)
CountedAt(p) == {q \in Point : q % IndexSize = p}

CountPoints ==
  /\ pc = "count"
  /\ unranked_merged' =
       [p \in Point |->
          IF CountedAt(p) = {} THEN unranked_merged[p]
          ELSE Cardinality(Hitting(CHOOSE q \in CountedAt(p) : \A r \in CountedAt(p) : r <= q))]
  /\ unique_cps' = [f \in File |-> Cardinality({p \in Point : Hitting(p) = {f}})]
  /\ pc' = "required"
  /\ UNCHANGED <<input, comp_cdds, score, ranked_merged, next_cdd, cand, best>>

-----------------------------------------------------------------------------
(* Fault: the file that was there is overwritten.                           *)
Overwritten(i, j) == [comp_cdds EXCEPT ![i] = comp_cdds[j]]

Swapped(i, j) == [comp_cdds EXCEPT ![i] = comp_cdds[j], ![j] = comp_cdds[i]]

(* rank_selected_cdd_cov: file f is ranked next; the points it takes are    *)
(* those that are still to be had.                                          *)
Taken(f) == {p \in cps[f] : unranked_merged[p] > 0}

rank_selected_cdd_cov(i) ==
  LET f == comp_cdds[i]
  IN  /\ comp_cdds' = Swapped(next_cdd, i)
      /\ unique_cps' = [unique_cps EXCEPT ![f] = Cardinality({p \in Taken(f) : ranked_merged[p] < cp_depth})]
      /\ unranked_merged' = [p \in Point |-> unranked_merged[p] - (IF p \in Taken(f) THEN 1 ELSE 0)]
      /\ ranked_merged' = [p \in Point |-> ranked_merged[p] + (IF p \in Taken(f) THEN 1 ELSE 0)]
      /\ next_cdd' = next_cdd + 1

(* Step 2: the files the user requires. *)
SelectRequired ==
  /\ pc = "required"
  /\ IF cand \in Position
     THEN /\ IF comp_cdds[cand] \in required THEN rank_selected_cdd_cov(cand)
             ELSE UNCHANGED <<comp_cdds, unique_cps, counts, next_cdd>>
          /\ cand' = cand + 1
          /\ UNCHANGED <<pc, best>>
     ELSE /\ pc' = "unique" /\ best' = next_cdd /\ cand' = next_cdd + 1
          /\ UNCHANGED <<comp_cdds, unique_cps, counts, next_cdd>>
  /\ UNCHANGED <<input, score>>

(* Step 3: the file with most points that no other file hits.  The end of   *)
(* the loop is decided by the file that is now where the selected one was.  *)
SelectUnique ==
  /\ pc = "unique"
  /\ IF cand \in Position
     THEN /\ best' = IF unique_cps[comp_cdds[cand]] > unique_cps[comp_cdds[best]] THEN cand ELSE best
          /\ cand' = cand + 1
          /\ UNCHANGED <<comp_cdds, unique_cps, counts, next_cdd, pc>>
     ELSE /\ IF unique_cps[comp_cdds[best]] > 0 THEN rank_selected_cdd_cov(best)
             ELSE UNCHANGED <<comp_cdds, unique_cps, counts, next_cdd>>
          /\ IF next_cdd' <= N /\ unique_cps'[comp_cdds'[best]] > 0
             THEN /\ best' = next_cdd' /\ cand' = next_cdd' + 1 /\ UNCHANGED pc
             ELSE /\ best' = next_cdd' /\ cand' = next_cdd' /\ pc' = "weighted"
  /\ UNCHANGED <<input, score>>

(* Step 4, rank_perform_weighted_selection.  Numbers are truncated when     *)
(* they are added to the score.                                             *)
Worth(f, m) == (Cardinality({p \in Taken(f) : MetricOf[p] = m}) * 100 * Weight[m]) \div timesteps[f]
NewlyHit(f) == \E p \in Taken(f) : ranked_merged[p] < cp_depth

SelectWeighted ==
  /\ pc = "weighted"
  /\ \/ /\ next_cdd > N
        /\ pc' = "greedy" /\ next_cdd' = 1 /\ cand' = 1 /\ best' = 1
        /\ ranked_merged' = [p \in Point |-> 0]
        /\ UNCHANGED <<comp_cdds, unique_cps, score, unranked_merged>>
     \/ /\ next_cdd <= N /\ cand \in Position
        /\ LET f == comp_cdds[cand]
           IN  /\ score' = [score EXCEPT ![f] = MapThenSumSet(LAMBDA m : Worth(f, m), Metric)]
               /\ best' = IF score'[f] > score'[comp_cdds[best]] /\ NewlyHit(f) THEN cand ELSE best
        /\ cand' = cand + 1
        /\ UNCHANGED <<comp_cdds, unique_cps, counts, next_cdd, pc>>
     \/ /\ next_cdd <= N /\ cand \notin Position
        /\ rank_selected_cdd_cov(best)
        /\ best' = next_cdd' /\ cand' = next_cdd'
        /\ UNCHANGED <<score, pc>>
  /\ UNCHANGED input

(* Step 5, rank_perform_greedy_sort: the whole array once more, by the      *)
(* points that the files before do not hit.                                 *)

(* Fault: only points that no file before hits.                             *)
UniqueFirst(f) == Cardinality({p \in cps[f] : ranked_merged[p] = 0})

Unique(f) == Cardinality({p \in cps[f] : ranked_merged[p] < cp_depth})

(* Fault: the longer simulation is always better.                           *)
BetterLonger(f, b, unique) ==
  \/ unique[b] < unique[f]
  \/ timesteps[b] < timesteps[f]

Better(f, b, unique) ==
  \/ unique[b] < unique[f]
  \/ unique[b] = unique[f] /\ timesteps[b] < timesteps[f]
  \/ unique[b] = 0 /\ b \notin required /\ comp_cdds[next_cdd] \notin required

SortGreedy ==
  /\ pc = "greedy"
  /\ \/ /\ next_cdd > N
        /\ pc' = "done"
        /\ UNCHANGED <<comp_cdds, unique_cps, ranked_merged, next_cdd, cand, best>>
     \/ /\ next_cdd <= N /\ cand \in Position
        /\ unique_cps' = [unique_cps EXCEPT ![comp_cdds[cand]] = Unique(comp_cdds[cand])]
        /\ best' = IF Better(comp_cdds[cand], comp_cdds[best], unique_cps') THEN cand ELSE best
        /\ cand' = cand + 1
        /\ UNCHANGED <<comp_cdds, ranked_merged, next_cdd, pc>>
     \/ /\ next_cdd <= N /\ cand \notin Position
        /\ comp_cdds' = Swapped(next_cdd, best)
        /\ ranked_merged' = [p \in Point |-> ranked_merged[p] + (IF p \in cps[comp_cdds[best]] THEN 1 ELSE 0)]
        /\ next_cdd' = next_cdd + 1 /\ cand' = next_cdd + 1 /\ best' = next_cdd + 1
        /\ UNCHANGED <<unique_cps, pc>>
  /\ UNCHANGED <<input, score, unranked_merged>>

(* rank_output: the files that need not be run are listed below a line. *)
Needed(f) == unique_cps[f] > 0 \/ f \in required

Finished == pc = "done" /\ UNCHANGED vars

Next == CountPoints \/ SelectRequired \/ SelectUnique \/ SelectWeighted \/ SortGreedy \/ Finished

Spec == Init /\ [][Next]_vars

-----------------------------------------------------------------------------
(* Whatever the order, the depth and the files the user requires, leaving   *)
(* out the files that are not needed costs no coverage: each point is hit   *)
(* by as many of the others as before, or by cp_depth of them.              *)
CoverageKept ==
  pc = "done" =>
    \A p \in Point : LET kept == Cardinality({f \in Hitting(p) : Needed(f)})
                     IN  kept >= cp_depth \/ kept = Cardinality(Hitting(p))

(* The two arrays of counters, which the selections update point by point,  *)
(* always hold the files that hit a point among those ranked and those not  *)
(* yet ranked; the array is a permutation of the files all along.           *)
CountersExact ==
  LET ranked == {comp_cdds[i] : i \in 1..(next_cdd - 1)}
  IN  /\ {comp_cdds[i] : i \in Position} = File
      /\ pc \in {"required", "unique", "weighted"} =>
           \A p \in Point : /\ ranked_merged[p] = Cardinality(Hitting(p) \cap ranked)
                            /\ unranked_merged[p] = Cardinality(Hitting(p) \ ranked)

(* Every file adds at least as many points as each one after it, so that    *)
(* the first files of the list are the best ones to choose and all that add *)
(* nothing come last (chapter_rank.xml:24-28).                              *)
DecreasingGain ==
  pc = "done" => \A i, j \in Position : i < j => unique_cps[comp_cdds[i]] >= unique_cps[comp_cdds[j]]

(* The files below the line of rank_output, "The following CDD files add no *)
(* additional coverage", are not needed.                                    *)
NeededFirst ==
  pc = "done" => \A i, j \in Position : i < j /\ Needed(comp_cdds[j]) => Needed(comp_cdds[i])
=============================================================================
