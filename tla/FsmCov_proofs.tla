---------------------------- MODULE FsmCov_proofs ----------------------------
(***************************************************************************)
(* Proofs about FsmCov, for every set of values, every declaration and any *)
(* number of runs, exclusions and merges: what an arc stands for never     *)
(* changes, and an arc is hit or excluded exactly when it should be.       *)
(***************************************************************************)
EXTENDS FsmCov, FiniteSetTheorems, TLAPS

-----------------------------------------------------------------------------
(* What holds of one table: the lists hold each value once, arcs point     *)
(* into them, no two arcs are the same, and hit arcs are between known     *)
(* values (arc_db_merge would drop others).                                *)

Injective(s) == \A i, j \in DOMAIN s : s[i] = s[j] => i = j

Pointed(T) == \A i \in DOMAIN T.arcs :
  T.arcs[i].from \in DOMAIN T.fr /\ T.arcs[i].to \in DOMAIN T.to

NoTwins(T) == \A i, j \in DOMAIN T.arcs :
  T.arcs[i].from = T.arcs[j].from /\ T.arcs[i].to = T.arcs[j].to => i = j

KnownHits(T) == \A i \in DOMAIN T.arcs :
  T.arcs[i].hit => FromOf(T, i) \notin Unknown /\ ToOf(T, i) \notin Unknown

Sound(T) ==
  /\ T \in Table
  /\ Injective(T.fr) /\ Injective(T.to)
  /\ Pointed(T) /\ NoTwins(T) /\ KnownHits(T)

\* A state is found where it was or put at the end, and no position moves.
LEMMA StateFound ==
  ASSUME NEW s \in Seq(Values), NEW v \in Values, Injective(s)
  PROVE  /\ WithState(s, v) \in Seq(Values) /\ Injective(WithState(s, v))
         /\ FindState(s, v) \in DOMAIN WithState(s, v)
         /\ WithState(s, v)[FindState(s, v)] = v
         /\ \A i \in DOMAIN s : i \in DOMAIN WithState(s, v) /\ WithState(s, v)[i] = s[i]
<1>1. CASE \E i \in DOMAIN s : s[i] = v
  <2>1. WithState(s, v) = s
    BY <1>1 DEF WithState
  <2>2. FindState(s, v) \in DOMAIN s /\ s[FindState(s, v)] = v
    BY <1>1 DEF FindState
  <2>3. QED
    BY <2>1, <2>2
<1>2. CASE ~ \E i \in DOMAIN s : s[i] = v
  <2>1. WithState(s, v) = Append(s, v) /\ FindState(s, v) = Len(s) + 1
    BY <1>2 DEF WithState, FindState
  <2>2. Injective(Append(s, v))
    BY <1>2 DEF Injective
  <2>3. QED
    BY <2>1, <2>2
<1>3. QED
  BY <1>1, <1>2

\* What WithArc makes of a list a of arcs, and where: b is the list, k the place.
ArcPut(a, b, k, f, t, hit, exclude) ==
  /\ k \in DOMAIN b /\ DOMAIN b = DOMAIN a \union {k}
  /\ b[k].from = f /\ b[k].to = t
  /\ b[k].hit = ((k \in DOMAIN a /\ a[k].hit) \/ hit)
  /\ b[k].excluded = ((k \in DOMAIN a /\ a[k].excluded) \/ exclude)
  /\ \A i \in DOMAIN a : b[i].from = a[i].from /\ b[i].to = a[i].to
  /\ \A i \in DOMAIN a : i # k => b[i] = a[i]
  /\ k \notin DOMAIN a => \A i \in DOMAIN a : ~ (a[i].from = f /\ a[i].to = t)

\* The same for arcs.
LEMMA ArcFound ==
  ASSUME NEW a \in Seq(Arc), NEW f \in Nat \ {0}, NEW t \in Nat \ {0}, NEW hit \in BOOLEAN,
         NEW exclude \in BOOLEAN
  PROVE  /\ WithArc(a, f, t, hit, exclude) \in Seq(Arc)
         /\ ArcPut(a, WithArc(a, f, t, hit, exclude), FindArc(a, f, t), f, t, hit, exclude)
<1> DEFINE k == FindArc(a, f, t)
           b == WithArc(a, f, t, hit, exclude)
<1>1. CASE \E i \in DOMAIN a : a[i].from = f /\ a[i].to = t
  <2>1. k \in DOMAIN a /\ a[k].from = f /\ a[k].to = t
    BY <1>1 DEF FindArc
  <2> DEFINE r == Marked(a[k], hit, exclude)
  <2>2. b = [a EXCEPT ![k] = r]
    BY <2>1 DEF WithArc
  <2>3. r \in Arc
    <3>1. a[k] \in Arc
      BY <2>1
    <3>2. (a[k].hit \/ hit) \in BOOLEAN /\ (a[k].excluded \/ exclude) \in BOOLEAN
      BY <3>1 DEF Arc
    <3>3. QED
      BY <3>1, <3>2 DEF Arc, Marked
  <2> HIDE DEF r
  <2>4. b[k] = r
    BY <2>1, <2>2
  <2> USE DEF r
  <2>5. /\ b[k] \in Arc /\ b[k].from = f /\ b[k].to = t
        /\ b[k].hit = (a[k].hit \/ hit) /\ b[k].excluded = (a[k].excluded \/ exclude)
    BY <2>1, <2>3, <2>4 DEF Arc, Marked
  <2>6. DOMAIN b = DOMAIN a /\ \A i \in DOMAIN a : i # k => b[i] = a[i]
    BY <2>2
  <2> HIDE DEF r
  <2>7. b \in Seq(Arc)
    BY <2>1, <2>2, <2>3
  <2> HIDE DEF k, b
  <2>8. QED
    BY <2>1, <2>5, <2>6, <2>7 DEF ArcPut, k, b
<1>2. CASE ~ \E i \in DOMAIN a : a[i].from = f /\ a[i].to = t
  <2> DEFINE n == [from |-> f, to |-> t, hit |-> hit, excluded |-> exclude]
  <2>1. k = Len(a) + 1 /\ k \notin DOMAIN a
    BY <1>2 DEF FindArc
  <2>2. b = Append(a, n)
    BY <2>1 DEF WithArc
  <2>3. n \in Arc
    BY DEF Arc
  <2>4. b \in Seq(Arc) /\ DOMAIN b = DOMAIN a \union {k} /\ b[k] = n
        /\ \A i \in DOMAIN a : b[i] = a[i]
    BY <2>1, <2>2, <2>3
  <2> HIDE DEF k, b
  <2>5. QED
    BY <1>2, <2>1, <2>4 DEF ArcPut, k, b
<1>3. QED
  BY <1>1, <1>2

\* Whether arc_add does anything at all.
Recorded(f, t, hit) == hit => f \notin Unknown /\ t \notin Unknown

\* U is T with the transition from f to t.
Added(T, U, f, t, hit, exclude) ==
  /\ Sound(U)
  /\ Hit(U) = Hit(T) \union {p \in {<<f, t>>} : hit /\ Recorded(f, t, hit)}
  /\ LeftOut(U) = LeftOut(T) \union {p \in {<<f, t>>} : exclude /\ Recorded(f, t, hit)}

\* arc_add keeps a table sound, and adds exactly the transition it is given.
LEMMA ArcAdded ==
  ASSUME NEW T, Sound(T), NEW f \in Values, NEW t \in Values, NEW hit \in BOOLEAN,
         NEW exclude \in BOOLEAN
  PROVE  Added(T, arc_add(T, f, t, hit, exclude), f, t, hit, exclude)
<1> SUFFICES ASSUME NEW U, U = arc_add(T, f, t, hit, exclude)
             PROVE  Added(T, U, f, t, hit, exclude)
  OBVIOUS
<1>1. CASE ~ Recorded(f, t, hit)
  <2>1. U = T
    BY <1>1 DEF arc_add, Recorded
  <2>2. QED
    BY <1>1, <2>1 DEF Added
<1>2. CASE Recorded(f, t, hit)
  <2> DEFINE fi == FindState(T.fr, f)
             ti == FindState(T.to, t)
             k  == FindArc(T.arcs, fi, ti)
  <2>1. /\ T \in Table /\ T.fr \in Seq(Values) /\ T.to \in Seq(Values) /\ T.arcs \in Seq(Arc)
        /\ T.known \in BOOLEAN /\ Injective(T.fr) /\ Injective(T.to)
    BY DEF Sound, Table
  <2>2. /\ U.fr = WithState(T.fr, f) /\ U.to = WithState(T.to, t)
        /\ U.arcs = WithArc(T.arcs, fi, ti, hit, exclude)
        /\ U = [known |-> T.known \/ ~hit, fr |-> U.fr, to |-> U.to, arcs |-> U.arcs]
    BY <1>2 DEF arc_add, Recorded
  <2>3. /\ U.fr \in Seq(Values) /\ Injective(U.fr) /\ fi \in DOMAIN U.fr /\ U.fr[fi] = f
        /\ \A i \in DOMAIN T.fr : i \in DOMAIN U.fr /\ U.fr[i] = T.fr[i]
    <3> DEFINE s == T.fr
    <3>1. s \in Seq(Values) /\ Injective(s)
      BY <2>1
    <3> HIDE DEF s
    <3>2. /\ WithState(s, f) \in Seq(Values) /\ Injective(WithState(s, f))
          /\ FindState(s, f) \in DOMAIN WithState(s, f)
          /\ WithState(s, f)[FindState(s, f)] = f
          /\ \A i \in DOMAIN s : i \in DOMAIN WithState(s, f) /\ WithState(s, f)[i] = s[i]
      BY <3>1, StateFound
    <3>3. QED
      BY <3>2, <2>2 DEF s
  <2>4. /\ U.to \in Seq(Values) /\ Injective(U.to) /\ ti \in DOMAIN U.to /\ U.to[ti] = t
        /\ \A i \in DOMAIN T.to : i \in DOMAIN U.to /\ U.to[i] = T.to[i]
    <3> DEFINE s == T.to
    <3>1. s \in Seq(Values) /\ Injective(s)
      BY <2>1
    <3> HIDE DEF s
    <3>2. /\ WithState(s, t) \in Seq(Values) /\ Injective(WithState(s, t))
          /\ FindState(s, t) \in DOMAIN WithState(s, t)
          /\ WithState(s, t)[FindState(s, t)] = t
          /\ \A i \in DOMAIN s : i \in DOMAIN WithState(s, t) /\ WithState(s, t)[i] = s[i]
      BY <3>1, StateFound
    <3>3. QED
      BY <3>2, <2>2 DEF s
  <2>5. fi \in Nat \ {0} /\ ti \in Nat \ {0}
    BY <2>3, <2>4
  <2> HIDE DEF fi, ti
  <2>6. /\ U.arcs \in Seq(Arc) /\ k \in DOMAIN U.arcs /\ DOMAIN U.arcs = DOMAIN T.arcs \union {k}
        /\ U.arcs[k].from = fi /\ U.arcs[k].to = ti
        /\ U.arcs[k].hit = ((k \in DOMAIN T.arcs /\ T.arcs[k].hit) \/ hit)
        /\ U.arcs[k].excluded = ((k \in DOMAIN T.arcs /\ T.arcs[k].excluded) \/ exclude)
        /\ \A i \in DOMAIN T.arcs : U.arcs[i].from = T.arcs[i].from /\ U.arcs[i].to = T.arcs[i].to
        /\ \A i \in DOMAIN T.arcs : i # k => U.arcs[i] = T.arcs[i]
        /\ k \notin DOMAIN T.arcs => \A i \in DOMAIN T.arcs : ~ (T.arcs[i].from = fi /\ T.arcs[i].to = ti)
    <3>1. /\ WithArc(T.arcs, fi, ti, hit, exclude) \in Seq(Arc)
          /\ ArcPut(T.arcs, WithArc(T.arcs, fi, ti, hit, exclude), k, fi, ti, hit, exclude)
      BY <2>1, <2>5, ArcFound
    <3>2. U.arcs \in Seq(Arc) /\ ArcPut(T.arcs, U.arcs, k, fi, ti, hit, exclude)
      BY <3>1, <2>2
    <3> HIDE DEF k
    <3>3. QED
      BY <3>2 DEF ArcPut
  <2> HIDE DEF k
  <2>7. Pointed(T) /\ NoTwins(T) /\ KnownHits(T)
    BY DEF Sound
  \* An old arc stands for what it stood for, the one found or added for f to t.
  <2>8. /\ PairOf(U, k) = <<f, t>> /\ FromOf(U, k) = f /\ ToOf(U, k) = t
        /\ \A i \in DOMAIN T.arcs : FromOf(U, i) = FromOf(T, i) /\ ToOf(U, i) = ToOf(T, i)
    BY SMTT(30), <2>3, <2>4, <2>6, <2>7 DEF PairOf, FromOf, ToOf, Pointed
  <2>9. Pointed(U)
    BY <2>3, <2>4, <2>6, <2>7 DEF Pointed
  <2>10. NoTwins(U)
    BY <2>6, <2>7 DEF NoTwins
  <2>11. KnownHits(U)
    <3> SUFFICES ASSUME NEW i \in DOMAIN U.arcs, U.arcs[i].hit
                 PROVE  FromOf(U, i) \notin Unknown /\ ToOf(U, i) \notin Unknown
      BY DEF KnownHits
    <3>1. CASE i \in DOMAIN T.arcs /\ T.arcs[i].hit
      BY <3>1, <2>7, <2>8 DEF KnownHits
    <3>2. CASE ~ (i \in DOMAIN T.arcs /\ T.arcs[i].hit)
      <4>1. i = k /\ hit
        BY <3>2, <2>6
      <4>2. QED
        BY <4>1, <2>8, <1>2 DEF Recorded
    <3>3. QED
      BY <3>1, <3>2
  <2>12. U \in Table
    <3> DEFINE known == T.known \/ ~hit
    <3>1. known \in BOOLEAN
      BY <2>1
    <3> HIDE DEF known
    <3>2. U = [known |-> known, fr |-> U.fr, to |-> U.to, arcs |-> U.arcs]
      BY <2>2, Zenon DEF known
    <3>3. U.fr \in Seq(Values) /\ U.to \in Seq(Values) /\ U.arcs \in Seq(Arc)
      BY <2>3, <2>4, <2>6
    <3>4. QED
      BY <3>1, <3>2, <3>3 DEF Table
  <2>13. Sound(U)
    BY <2>3, <2>4, <2>9, <2>10, <2>11, <2>12 DEF Sound
  <2>14. \A i \in DOMAIN T.arcs : PairOf(U, i) = PairOf(T, i)
    BY <2>8 DEF PairOf
  <2>15. Hit(U) = Hit(T) \union {p \in {<<f, t>>} : hit}
    <3>1. \A i \in DOMAIN U.arcs : U.arcs[i].hit <=> (i \in DOMAIN T.arcs /\ T.arcs[i].hit) \/ (i = k /\ hit)
      BY <2>6
    <3>2. ASSUME NEW p
          PROVE  p \in Hit(U) <=> p \in Hit(T) \/ (p = <<f, t>> /\ hit)
      <4>1. p \in Hit(U) <=> \E i \in DOMAIN U.arcs : U.arcs[i].hit /\ p = PairOf(U, i)
        BY DEF Hit
      <4>2. p \in Hit(T) <=> \E i \in DOMAIN T.arcs : T.arcs[i].hit /\ p = PairOf(T, i)
        BY DEF Hit
      <4>3. QED
        BY <4>1, <4>2, <3>1, <2>6, <2>8, <2>14
    <3>3. QED
      BY <3>2
  <2>16. LeftOut(U) = LeftOut(T) \union {p \in {<<f, t>>} : exclude}
    <3>1. \A i \in DOMAIN U.arcs : U.arcs[i].excluded <=> (i \in DOMAIN T.arcs /\ T.arcs[i].excluded) \/ (i = k /\ exclude)
      BY <2>6
    <3>2. ASSUME NEW p
          PROVE  p \in LeftOut(U) <=> p \in LeftOut(T) \/ (p = <<f, t>> /\ exclude)
      <4>1. p \in LeftOut(U) <=> \E i \in DOMAIN U.arcs : U.arcs[i].excluded /\ p = PairOf(U, i)
        BY DEF LeftOut
      <4>2. p \in LeftOut(T) <=> \E i \in DOMAIN T.arcs : T.arcs[i].excluded /\ p = PairOf(T, i)
        BY DEF LeftOut
      <4>3. QED
        BY <4>1, <4>2, <3>1, <2>6, <2>8, <2>14
    <3>3. QED
      BY <3>2
  <2>17. QED
    BY <1>2, <2>13, <2>15, <2>16 DEF Added
<1>3. QED
  BY <1>1, <1>2

-----------------------------------------------------------------------------
(* The inductive invariant.  Every table is sound; a database that is not  *)
(* being merged into is exact; during a merge the arcs before next are in. *)

\* The transition no run has made: the first one of a single variable.
First == {<<Zero, v>> : v \in IF design.two THEN {} ELSE Values}

Exact(c) ==
  /\ c.seen \subseteq Hit(c.table)
  /\ Hit(c.table) \subseteq c.seen \union First
  /\ LeftOut(c.table) = c.out

MergedHit == {PairOf(other.table, i) :
                i \in {j \in DOMAIN other.table.arcs : j < next /\ other.table.arcs[j].hit}}
MergedOut == {PairOf(other.table, i) :
                i \in {j \in DOMAIN other.table.arcs : j < next /\ other.table.arcs[j].excluded}}

Merging ==
  /\ cdd.seen \union MergedHit \subseteq Hit(cdd.table)
  /\ Hit(cdd.table) \subseteq cdd.seen \union MergedHit \union First
  /\ LeftOut(cdd.table) = cdd.out \union MergedOut

FromKept == phase = "sim" /\ ~design.two => from = sampled \/ (from = Zero /\ sampled = X)

IInv ==
  /\ TypeOK
  /\ Sound(cdd.table) /\ Sound(other.table) /\ \A f \in files : Sound(f.table)
  /\ Exact(other) /\ \A f \in files : Exact(f)
  /\ phase # "merge" => Exact(cdd)
  /\ phase = "merge" => Merging
  /\ FromKept
  /\ SettledRecorded

\* What an arc of a sound table stands for.
LEMMA ArcValues ==
  ASSUME NEW T, Sound(T), NEW i \in DOMAIN T.arcs
  PROVE  /\ FromOf(T, i) \in Values /\ ToOf(T, i) \in Values /\ PairOf(T, i) \in Pairs
         /\ T.arcs[i] \in Arc /\ T.arcs[i].hit \in BOOLEAN /\ T.arcs[i].excluded \in BOOLEAN
         /\ Recorded(FromOf(T, i), ToOf(T, i), T.arcs[i].hit)
<1>1. T.fr \in Seq(Values) /\ T.to \in Seq(Values) /\ T.arcs \in Seq(Arc)
  BY DEF Sound, Table
<1>2. T.arcs[i].from \in DOMAIN T.fr /\ T.arcs[i].to \in DOMAIN T.to
  BY DEF Sound, Pointed
<1>3. T.arcs[i] \in Arc
  BY <1>1
<1>4. FromOf(T, i) \in Values /\ ToOf(T, i) \in Values
  BY <1>1, <1>2 DEF FromOf, ToOf
<1>5. Recorded(FromOf(T, i), ToOf(T, i), T.arcs[i].hit)
  BY DEF Sound, KnownHits, Recorded
<1>6. QED
  BY <1>3, <1>4, <1>5 DEF PairOf, Pairs, Arc

\* No two arcs of a sound table stand for the same transition.
LEMMA PairsDiffer ==
  ASSUME NEW T, Sound(T), NEW i \in DOMAIN T.arcs, NEW j \in DOMAIN T.arcs,
         PairOf(T, i) = PairOf(T, j)
  PROVE  i = j
<1>1. FromOf(T, i) = FromOf(T, j) /\ ToOf(T, i) = ToOf(T, j)
  BY DEF PairOf
<1>2. T.arcs[i].from = T.arcs[j].from /\ T.arcs[i].to = T.arcs[j].to
  BY <1>1 DEF FromOf, ToOf, Sound, Pointed, Injective
<1>3. QED
  BY <1>2 DEF Sound, NoTwins

LEMMA StatsType ==
  ASSUME NEW T, Sound(T)
  PROVE  Stats(T) \in [hit: Int, excluded: Int]
<1>1. DOMAIN T.arcs = 1 .. Len(T.arcs) /\ Len(T.arcs) \in Nat
  BY DEF Sound, Table
<1> DEFINE n == Len(T.arcs)
<1>2. IsFiniteSet(DOMAIN T.arcs)
  <2>1. n \in Int
    BY <1>1
  <2> HIDE DEF n
  <2>2. IsFiniteSet(1 .. n)
    BY <2>1, FS_Interval
  <2>3. QED
    BY <2>2, <1>1 DEF n
<1>3. /\ IsFiniteSet({i \in DOMAIN T.arcs : T.arcs[i].hit \/ T.arcs[i].excluded})
      /\ IsFiniteSet({i \in DOMAIN T.arcs : T.arcs[i].excluded})
  BY <1>2, FS_Subset
<1>4. ArcHits(T) \in Nat /\ ArcExcluded(T) \in Nat
  BY <1>3, FS_CardinalityType DEF ArcHits, ArcExcluded
<1>5. QED
  BY <1>4 DEF Stats

LEMMA NewIsSound ==
  /\ Sound(arc_create) /\ NewCdd \in Cdd /\ NewCdd.table = arc_create
  /\ Hit(arc_create) = {} /\ LeftOut(arc_create) = {} /\ NewCdd.seen = {} /\ NewCdd.out = {}
<1>1. arc_create \in Table
  BY DEF arc_create, Table
<1>2. /\ DOMAIN arc_create.fr = {} /\ DOMAIN arc_create.to = {} /\ DOMAIN arc_create.arcs = {}
  BY DEF arc_create
<1>3. Sound(arc_create)
  BY <1>1, <1>2 DEF Sound, Injective, Pointed, NoTwins, KnownHits
<1>4. QED
  BY <1>1, <1>2, <1>3 DEF NewCdd, Cdd, Hit, LeftOut

\* A database after a change of one excluded bit.
LEMMA ExclusionExact ==
  ASSUME NEW c \in Cdd, Sound(c.table), Exact(c), NEW i \in DOMAIN c.table.arcs,
         NEW exclude \in BOOLEAN, NEW d, d = Excluded(c, i, exclude)
  PROVE  d \in Cdd /\ Sound(d.table) /\ Exact(d)
<1> DEFINE T == c.table
           U == d.table
<1>1. c.table \in Table /\ T.arcs \in Seq(Arc) /\ T.arcs[i] \in Arc /\ PairOf(T, i) \in Pairs
  BY ArcValues DEF Sound, Table
<1>2. /\ U = [T EXCEPT !.arcs = [T.arcs EXCEPT ![i] = [T.arcs[i] EXCEPT !.excluded = exclude]]]
      /\ d.seen = c.seen
      /\ d.out = IF exclude THEN c.out \union {PairOf(T, i)} ELSE c.out \ {PairOf(T, i)}
      /\ d = [table |-> U, seen |-> d.seen, out |-> d.out]
  BY DEF Excluded, Cdd
<1>3. /\ U.fr = T.fr /\ U.to = T.to /\ U.known = T.known
      /\ U.arcs = [T.arcs EXCEPT ![i] = [T.arcs[i] EXCEPT !.excluded = exclude]]
      /\ U = [known |-> U.known, fr |-> U.fr, to |-> U.to, arcs |-> U.arcs]
  BY <1>1, <1>2 DEF Table
<1>4. U.arcs \in Seq(Arc) /\ DOMAIN U.arcs = DOMAIN T.arcs
  <2> DEFINE r == [T.arcs[i] EXCEPT !.excluded = exclude]
  <2>1. r \in Arc
    BY <1>1 DEF Arc
  <2> HIDE DEF r
  <2>2. U.arcs = [T.arcs EXCEPT ![i] = r]
    BY <1>3 DEF r
  <2>3. QED
    BY <2>1, <2>2, <1>1
<1>5. \A j \in DOMAIN T.arcs :
        /\ U.arcs[j].from = T.arcs[j].from /\ U.arcs[j].to = T.arcs[j].to
        /\ U.arcs[j].hit = T.arcs[j].hit
        /\ U.arcs[j].excluded = IF j = i THEN exclude ELSE T.arcs[j].excluded
  BY SMTT(30), <1>1, <1>3 DEF Arc
<1>6. \A j \in DOMAIN T.arcs :
        FromOf(U, j) = FromOf(T, j) /\ ToOf(U, j) = ToOf(T, j) /\ PairOf(U, j) = PairOf(T, j)
  BY <1>3, <1>5 DEF FromOf, ToOf, PairOf
<1>7. U \in Table
  BY <1>1, <1>3, <1>4 DEF Table
<1>8. Sound(U)
  <2>1. Injective(U.fr) /\ Injective(U.to) /\ Pointed(U)
    BY <1>3, <1>4, <1>5 DEF Sound, Pointed
  <2>2. NoTwins(U)
    BY <1>4, <1>5 DEF Sound, NoTwins
  <2>3. KnownHits(U)
    BY <1>4, <1>5, <1>6 DEF Sound, KnownHits
  <2>4. QED
    BY <1>7, <2>1, <2>2, <2>3 DEF Sound
<1>9. Hit(U) = Hit(T)
  BY <1>4, <1>5, <1>6 DEF Hit
<1>10. LeftOut(U) = d.out
  <2>1. \A j \in DOMAIN T.arcs : PairOf(T, j) = PairOf(T, i) => j = i
    BY PairsDiffer
  <2>2. LeftOut(T) = c.out
    BY DEF Exact
  <2>3. ASSUME NEW p PROVE p \in LeftOut(U) <=> p \in d.out
    <3>1. p \in LeftOut(U) <=> \E j \in DOMAIN T.arcs : U.arcs[j].excluded /\ p = PairOf(T, j)
      BY <1>4, <1>6 DEF LeftOut
    <3>2. p \in LeftOut(T) <=> \E j \in DOMAIN T.arcs : T.arcs[j].excluded /\ p = PairOf(T, j)
      BY DEF LeftOut
    <3>3. QED
      BY <3>1, <3>2, <2>1, <2>2, <1>2, <1>5
  <2>4. QED
    BY <2>3
<1>11. d \in Cdd
  BY <1>1, <1>2, <1>7 DEF Cdd
<1>12. QED
  BY <1>2, <1>8, <1>9, <1>10, <1>11 DEF Exact

-----------------------------------------------------------------------------
LEMMA InitInv == Init => IInv
<1> SUFFICES ASSUME Init PROVE IInv
  OBVIOUS
<1> USE ValuesAssumption, NewIsSound
<1>1. TypeOK
  BY StatsType DEF Init, TypeOK
<1>2. QED
  BY <1>1 DEF Init, IInv, Exact, FromKept, SettledRecorded

\* Steps that touch neither the table at hand nor the loop of a merge.
LEMMA RunStep ==
  ASSUME IInv, [StartRun \/ RunFrom \/ EndRun \/ \E s \in {"from", "to"}, v \in Values : Assign(s, v)]_vars
  PROVE  IInv'
<1> USE ValuesAssumption DEF IInv
<1>0. CASE UNCHANGED vars
  <2>1. TypeOK'
    BY <1>0 DEF vars, TypeOK
  <2>2. Merging' = Merging
    BY <1>0 DEF vars, Merging, MergedHit, MergedOut, First
  <2>3. QED
    BY <1>0, <2>1, <2>2 DEF vars, Exact, First, FromKept, SettledRecorded
<1>1. CASE StartRun
  <2>1. TypeOK'
    BY <1>1 DEF StartRun, TypeOK, Statements
  <2>2. QED
    BY <1>1, <2>1 DEF StartRun, Exact, First, FromKept, SettledRecorded, Statements
<1>2. CASE RunFrom
  <2>1. TypeOK'
    BY <1>2 DEF RunFrom, TypeOK
  <2>2. QED
    BY <1>2, <2>1 DEF RunFrom, Exact, First, FromKept, SettledRecorded
<1>3. CASE EndRun
  <2>1. Stats(cdd.table) \in [hit: Int, excluded: Int]
    BY StatsType
  <2>2. TypeOK'
    BY <1>3, <2>1 DEF EndRun, TypeOK
  <2>3. QED
    BY <1>3, <2>2 DEF EndRun, Exact, First, FromKept, SettledRecorded
<1>4. ASSUME NEW s \in {"from", "to"}, NEW v \in Values, Assign(s, v)
      PROVE  IInv'
  <2>1. TypeOK'
    BY <1>4 DEF Assign, TypeOK
  <2>2. s \in active' /\ (~design.two => from' = from)
    BY <1>4 DEF Assign, Statements
  <2>3. QED
    BY <1>4, <2>1, <2>2 DEF Assign, Exact, First, FromKept, SettledRecorded
<1>5. QED
  BY <1>0, <1>1, <1>2, <1>3, <1>4

LEMMA CreateArcStep ==
  ASSUME IInv, CreateArc
  PROVE  IInv'
<1> USE DEF IInv
<1> DEFINE a == design.arcs[next]
           T == cdd.table
           U == arc_add(T, a[1], a[2], FALSE, design.exclude)
<1>1. a \in Pairs /\ a[1] \in Values /\ a[2] \in Values /\ a = <<a[1], a[2]>> /\ design.exclude \in BOOLEAN
  BY ValuesAssumption DEF TypeOK, CreateArc, Pairs
<1>2. /\ cdd \in Cdd /\ Sound(T) /\ Exact(cdd)
      /\ cdd' = [cdd EXCEPT !.table = U, !.out = IF design.exclude THEN @ \union {a} ELSE @]
      /\ UNCHANGED <<design, phase, files, other, from, to, active, stat, sampled, count>>
      /\ phase = "create" /\ next' = next + 1
  BY DEF CreateArc, TypeOK
<1> HIDE DEF a, T, U
<1>3. /\ Sound(U)
      /\ Hit(U) = Hit(T)
      /\ LeftOut(U) = LeftOut(T) \union {p \in {a} : design.exclude}
  <2>1. Sound(U) /\ Hit(U) = Hit(T) \union {p \in {<<a[1], a[2]>>} : FALSE /\ Recorded(a[1], a[2], FALSE)}
        /\ LeftOut(U) = LeftOut(T) \union {p \in {<<a[1], a[2]>>} : design.exclude /\ Recorded(a[1], a[2], FALSE)}
    <3>1. FALSE \in BOOLEAN
      OBVIOUS
    <3>2. Added(T, U, a[1], a[2], FALSE, design.exclude)
      BY <1>1, <1>2, <3>1, ArcAdded, Zenon DEF U
    <3>3. QED
      BY <3>2 DEF Added
  <2>2. QED
    BY <2>1, <1>1 DEF Recorded
<1>4. cdd' \in Cdd /\ cdd'.table = U /\ cdd'.seen = cdd.seen
      /\ cdd'.out = cdd.out \union {p \in {a} : design.exclude}
  BY <1>1, <1>2, <1>3 DEF Cdd, Sound
<1>5. Exact(cdd)' /\ Sound(cdd.table)'
  BY <1>2, <1>3, <1>4 DEF Exact, First, T
<1>6. TypeOK'
  BY <1>2, <1>4 DEF TypeOK
<1>7. QED
  BY <1>2, <1>5, <1>6 DEF Exact, First, FromKept, SettledRecorded

LEMMA RunToStep ==
  ASSUME IInv, RunTo
  PROVE  IInv'
<1> USE DEF IInv
<1> DEFINE T == cdd.table
           U == arc_add(T, from, to, TRUE, FALSE)
           was == IF design.two THEN from ELSE sampled
           made == {<<was, to>>} \cap ((Values \ Unknown) \X (Values \ Unknown))
<1>1. /\ cdd \in Cdd /\ Sound(T) /\ Exact(cdd) /\ phase = "sim"
      /\ from \in Values /\ to \in Values /\ sampled \in Values
      /\ cdd' = [cdd EXCEPT !.table = U, !.seen = @ \union made]
      /\ from' = (IF design.two THEN from ELSE to) /\ sampled' = to
      /\ UNCHANGED <<design, phase, files, other, next, to, stat, count>>
      /\ active' = active \ {"to"}
  BY DEF RunTo, TypeOK
<1> HIDE DEF T, U
<1>2. /\ Sound(U) /\ LeftOut(U) = LeftOut(T)
      /\ Hit(U) = Hit(T) \union {p \in {<<from, to>>} : from \notin Unknown /\ to \notin Unknown}
  <2>1. /\ Sound(U)
        /\ Hit(U) = Hit(T) \union {p \in {<<from, to>>} : TRUE /\ Recorded(from, to, TRUE)}
        /\ LeftOut(U) = LeftOut(T) \union {p \in {<<from, to>>} : FALSE /\ Recorded(from, to, TRUE)}
    <3>1. TRUE \in BOOLEAN /\ FALSE \in BOOLEAN
      OBVIOUS
    <3>2. Added(T, U, from, to, TRUE, FALSE)
      BY <1>1, <3>1, ArcAdded, Zenon DEF U
    <3>3. QED
      BY <3>2 DEF Added
  <2>2. QED
    BY <2>1 DEF Recorded
<1>3. made \in SUBSET Pairs
  BY DEF Pairs
<1>4. cdd' \in Cdd /\ cdd'.table = U /\ cdd'.seen = cdd.seen \union made /\ cdd'.out = cdd.out
  BY <1>1, <1>2, <1>3 DEF Cdd, Sound
<1>5. Hit(U) \subseteq Hit(T) \union made \union First /\ made \subseteq Hit(U)
  <2>1. CASE design.two
    BY <2>1, <1>1, <1>2
  <2>2. CASE ~design.two /\ from = sampled
    BY <2>2, <1>1, <1>2
  <2>3. CASE ~design.two /\ from = Zero /\ sampled = X
    BY <2>3, <1>1, <1>2, ValuesAssumption DEF First
  <2>4. QED
    BY <2>1, <2>2, <2>3, <1>1 DEF FromKept
<1>6. Exact(cdd)' /\ Sound(cdd.table)'
  BY <1>1, <1>2, <1>4, <1>5 DEF Exact, First, T
<1>7. TypeOK'
  BY <1>1, <1>4 DEF TypeOK
<1>8. FromKept' /\ SettledRecorded'
  BY <1>1, <1>2, <1>4 DEF FromKept, SettledRecorded
<1>9. QED
  BY <1>1, <1>6, <1>7, <1>8 DEF Exact, First

LEMMA DatabaseStep ==
  ASSUME IInv, NextRun \/ (\E f \in files : Open(f)) \/ (\E f \in files : StartMerge(f)) \/ EndMerge
  PROVE  IInv'
<1> USE DEF IInv
<1>0. cdd \in Cdd /\ other \in Cdd /\ files \subseteq Cdd
  BY DEF TypeOK
<1>1. CASE NextRun
  <2>1. TypeOK'
    <3>1. NewCdd \in Cdd
      BY NewIsSound
    <3>2. count' \in [assigns: Nat, runs: Nat, edits: Nat]
      <4>1. count \in [assigns: Nat, runs: Nat, edits: Nat]
        BY DEF TypeOK
      <4>2. count' = [count EXCEPT !.runs = count.runs + 1, !.assigns = 0]
        BY <1>1 DEF NextRun
      <4>3. count.runs + 1 \in Nat
        BY <4>1
      <4>4. QED
        BY <4>1, <4>2, <4>3
    <3>3. QED
      BY <1>0, <1>1, <3>1, <3>2 DEF NextRun, TypeOK
  <2>2. Exact(NewCdd)
    BY NewIsSound DEF Exact
  <2>3. QED
    BY <1>1, <2>1, <2>2, NewIsSound DEF NextRun, Exact, First, FromKept, SettledRecorded
<1>2. ASSUME NEW f \in files, Open(f)
      PROVE  IInv'
  <2>1. Stats(f.table) \in [hit: Int, excluded: Int]
    BY StatsType
  <2>2. TypeOK'
    BY <1>0, <1>2, <2>1 DEF Open, TypeOK
  <2>3. QED
    BY <1>2, <2>2 DEF Open, Exact, First, FromKept, SettledRecorded
<1>3. ASSUME NEW f \in files, StartMerge(f)
      PROVE  IInv'
  <2>1. TypeOK'
    BY <1>0, <1>3 DEF StartMerge, TypeOK
  <2>2. MergedHit' = {} /\ MergedOut' = {}
    <3>1. f.table.arcs \in Seq(Arc)
      BY DEF Sound, Table
    <3>2. \A j \in DOMAIN f.table.arcs : ~ (j < 1)
      BY <3>1
    <3>3. QED
      BY <1>3, <3>2 DEF StartMerge, MergedHit, MergedOut
  <2>3. Merging'
    BY <1>3, <2>2 DEF StartMerge, Merging, Exact, First
  <2>4. QED
    BY <1>3, <2>1, <2>3 DEF StartMerge, Exact, First, FromKept, SettledRecorded
<1>4. CASE EndMerge
  <2>1. Stats(cdd.table) \in [hit: Int, excluded: Int]
    BY StatsType
  <2>2. /\ cdd' = [cdd EXCEPT !.seen = @ \union other.seen, !.out = @ \union other.out]
        /\ phase = "merge" /\ phase' = "cdd"
        /\ UNCHANGED <<design, files, other, next, from, to, active, sampled, count>>
    BY <1>4 DEF EndMerge
  <2>3. /\ cdd' \in Cdd /\ cdd'.table = cdd.table /\ cdd'.seen = cdd.seen \union other.seen
        /\ cdd'.out = cdd.out \union other.out
    BY <1>0, <2>2 DEF Cdd
  <2>4. TypeOK'
    BY <1>4, <2>1, <2>2, <2>3 DEF EndMerge, TypeOK
  <2>5. MergedHit = Hit(other.table) /\ MergedOut = LeftOut(other.table)
    <3>1. other.table.arcs \in Seq(Arc) /\ next > Len(other.table.arcs) /\ next \in Nat
      BY <1>4 DEF Sound, Table, EndMerge, TypeOK
    <3>2. \A j \in DOMAIN other.table.arcs : j < next
      BY <3>1
    <3>3. QED
      BY <3>2 DEF MergedHit, MergedOut, Hit, LeftOut
  <2>6. Exact(cdd)'
    BY <2>2, <2>3, <2>5 DEF Merging, Exact, First
  <2>7. QED
    BY <2>2, <2>3, <2>4, <2>6 DEF Exact, First, FromKept, SettledRecorded
<1>5. QED
  BY <1>1, <1>2, <1>3, <1>4

LEMMA ToggleStep ==
  ASSUME IInv, (\E f, t \in Values : ToggleCell(f, t)) \/ (\E i \in DOMAIN cdd.table.arcs : ToggleId(i))
  PROVE  IInv'
<1> USE DEF IInv
<1>1. ASSUME NEW i \in DOMAIN cdd.table.arcs, phase = "cdd",
             cdd' = Excluded(cdd, i, ~cdd.table.arcs[i].excluded),
             stat' \in [hit: Int, excluded: Int],
             count' = [count EXCEPT !.edits = @ + 1],
             UNCHANGED <<design, phase, files, other, next, from, to, active, sampled>>
      PROVE  IInv'
  <2> DEFINE e == ~cdd.table.arcs[i].excluded
  <2>1. e \in BOOLEAN /\ cdd \in Cdd /\ Exact(cdd) /\ cdd' = Excluded(cdd, i, e)
    BY <1>1 DEF TypeOK
  <2> HIDE DEF e
  <2>2. cdd' \in Cdd /\ Sound(cdd'.table) /\ cdd'.seen \subseteq Hit(cdd'.table)
        /\ Hit(cdd'.table) \subseteq cdd'.seen \union First /\ LeftOut(cdd'.table) = cdd'.out
    BY <2>1, ExclusionExact DEF Exact
  <2>3. TypeOK'
    <3>1. count' \in [assigns: Nat, runs: Nat, edits: Nat]
      BY <1>1 DEF TypeOK
    <3>2. UNCHANGED <<design, phase, files, other, next, from, to, active, sampled>>
          /\ stat' \in [hit: Int, excluded: Int]
      BY <1>1
    <3> HIDE DEF IInv
    <3>3. TypeOK
      BY DEF IInv
    <3>4. QED
      BY <2>2, <3>1, <3>2, <3>3 DEF TypeOK
  <2>4. QED
    BY <1>1, <2>2, <2>3 DEF Exact, First, FromKept, SettledRecorded
<1>2. ASSUME NEW f \in Values, NEW t \in Values, ToggleCell(f, t)
      PROVE  IInv'
  <2> DEFINE i == FindArc(cdd.table.arcs, FindState(cdd.table.fr, f), FindState(cdd.table.to, t))
  <2>1. /\ i \in DOMAIN cdd.table.arcs /\ phase = "cdd"
        /\ cdd' = Excluded(cdd, i, ~cdd.table.arcs[i].excluded)
        /\ stat' = Recalculated(cdd.table.arcs[i], ~cdd.table.arcs[i].excluded)
        /\ count' = [count EXCEPT !.edits = @ + 1]
        /\ UNCHANGED <<design, phase, files, other, next, from, to, active, sampled>>
    BY <1>2 DEF ToggleCell
  <2> HIDE DEF i
  <2>2. stat' \in [hit: Int, excluded: Int]
    BY <2>1 DEF TypeOK, Recalculated
  <2>3. QED
    BY <2>1, <2>2, <1>1
<1>3. ASSUME NEW i \in DOMAIN cdd.table.arcs, ToggleId(i)
      PROVE  IInv'
  <2>1. /\ phase = "cdd"
        /\ cdd' = Excluded(cdd, i, ~cdd.table.arcs[i].excluded)
        /\ stat' = Stats(cdd'.table)
        /\ count' = [count EXCEPT !.edits = @ + 1]
        /\ UNCHANGED <<design, phase, files, other, next, from, to, active, sampled>>
    BY <1>3 DEF ToggleId
  <2> DEFINE e == ~cdd.table.arcs[i].excluded
  <2>2. e \in BOOLEAN /\ cdd \in Cdd /\ Exact(cdd) /\ cdd' = Excluded(cdd, i, e)
    BY <2>1 DEF TypeOK
  <2> HIDE DEF e
  <2>3. Sound(cdd'.table)
    BY <2>2, ExclusionExact
  <2>4. stat' \in [hit: Int, excluded: Int]
    BY <2>1, <2>3, StatsType
  <2>5. QED
    BY <2>1, <2>4, <1>1
<1>4. QED
  BY <1>2, <1>3

LEMMA MergeArcStep ==
  ASSUME IInv, MergeArc
  PROVE  IInv'
<1> USE DEF IInv
<1> DEFINE O == other.table
           T == cdd.table
           f == FromOf(O, next)
           t == ToOf(O, next)
           hit == O.arcs[next].hit
           exclude == O.arcs[next].excluded
           U == arc_add(T, f, t, hit, exclude)
<1>1. /\ cdd \in Cdd /\ Sound(T) /\ Sound(O) /\ phase = "merge" /\ Merging
      /\ cdd' = [cdd EXCEPT !.table = U] /\ next' = next + 1
      /\ UNCHANGED <<design, phase, files, other, from, to, active, stat, sampled, count>>
      /\ next \in Nat \ {0}
  BY DEF MergeArc, TypeOK
<1>2. next \in DOMAIN O.arcs /\ DOMAIN O.arcs \subseteq Nat
  BY <1>1 DEF Sound, Table, MergeArc
<1>3. /\ f \in Values /\ t \in Values /\ hit \in BOOLEAN /\ exclude \in BOOLEAN
      /\ Recorded(f, t, hit) /\ PairOf(O, next) = <<f, t>>
  BY <1>1, <1>2, ArcValues DEF PairOf
<1> HIDE DEF f, t, hit, exclude, U
<1>4. /\ Sound(U)
      /\ Hit(U) = Hit(T) \union {p \in {<<f, t>>} : hit}
      /\ LeftOut(U) = LeftOut(T) \union {p \in {<<f, t>>} : exclude}
  <2>1. Added(T, U, f, t, hit, exclude)
    BY <1>1, <1>3, ArcAdded, Zenon DEF U
  <2>2. QED
    BY <2>1, <1>3 DEF Added
<1>5. cdd' \in Cdd /\ cdd'.table = U /\ cdd'.seen = cdd.seen /\ cdd'.out = cdd.out
  BY <1>1, <1>4 DEF Cdd, Sound
<1>6. \A j \in DOMAIN O.arcs : j < next + 1 <=> j < next \/ j = next
  BY <1>1, <1>2
<1>7. /\ MergedHit' = MergedHit \union {p \in {<<f, t>>} : hit}
      /\ MergedOut' = MergedOut \union {p \in {<<f, t>>} : exclude}
  BY <1>1, <1>2, <1>3, <1>6 DEF MergedHit, MergedOut, hit, exclude
<1>8. Merging'
  BY <1>1, <1>4, <1>5, <1>7 DEF Merging, First
<1>9. TypeOK'
  BY <1>1, <1>5 DEF TypeOK
<1>10. QED
  BY <1>1, <1>4, <1>5, <1>8, <1>9 DEF Exact, First, FromKept, SettledRecorded

LEMMA Inductive == Spec => []IInv
<1>1. IInv /\ [Next]_vars => IInv'
  <2> SUFFICES ASSUME IInv, [Next]_vars PROVE IInv'
    OBVIOUS
  <2> QED
    BY CreateArcStep, RunStep, RunToStep, DatabaseStep, ToggleStep, MergeArcStep DEF Next
<1>2. QED
  BY <1>1, InitInv, PTL DEF Spec

-----------------------------------------------------------------------------
(* Types, and soundness of the tables, hold always. *)
THEOREM TypeCorrect == Spec => []TypeOK
<1>1. IInv => TypeOK
  BY DEF IInv
<1>2. QED
  BY <1>1, Inductive, PTL

(* Every transition is one arc, whatever was declared, met and merged and in
   which order: arc_total and arc_hit count transitions. *)
THEOREM ArcsAreDistinct == Spec => []DistinctArcs
<1>1. IInv => DistinctArcs
  BY PairsDiffer DEF IInv, DistinctArcs
<1>2. QED
  BY <1>1, Inductive, PTL

(* arc_add and the merge keep exactly the transitions that the runs made: the
   only one too many is the first of a single variable, from 0. *)
THEOREM HitsAreExact == Spec => []HitsExact
<1>1. IInv => HitsExact
  BY DEF IInv, HitsExact, Exact, First
<1>2. QED
  BY <1>1, Inductive, PTL

(* Exclusions survive simulation, saving and merging, and no other is made. *)
THEOREM ExclusionsAreExact == Spec => []ExclusionsExact
<1>1. IInv => ExclusionsExact
  BY DEF IInv, ExclusionsExact, Exact
<1>2. QED
  BY <1>1, Inductive, PTL

(* Whenever the threads of the state expressions wait, the transition the
   design has settled in is recorded. *)
THEOREM SettledIsRecorded == Spec => []SettledRecorded
<1>1. IInv => SettledRecorded
  BY DEF IInv
<1>2. QED
  BY <1>1, Inductive, PTL

-----------------------------------------------------------------------------
(* The statistics *)

(* Inverting the exclusion of an arc that is not hit moves both numbers by  *)
(* one, up or down together.                                                *)
LEMMA StatsToggled ==
  ASSUME NEW c \in Cdd, NEW i \in DOMAIN c.table.arcs, ~c.table.arcs[i].hit,
         NEW exclude \in BOOLEAN, exclude = ~c.table.arcs[i].excluded,
         stat = Stats(c.table)
  PROVE  Stats(Excluded(c, i, exclude).table) = Recalculated(c.table.arcs[i], exclude)
<1> DEFINE A == c.table.arcs
           B == Excluded(c, i, exclude).table.arcs
           N == DOMAIN A
           hitA == {j \in N : A[j].hit \/ A[j].excluded}
           outA == {j \in N : A[j].excluded}
           hitB == {j \in N : B[j].hit \/ B[j].excluded}
           outB == {j \in N : B[j].excluded}
           one == IF exclude THEN 1 ELSE -1
<1>1. A \in Seq(Arc) /\ A[i] \in Arc
  BY DEF Cdd, Table
<1>2. B = [A EXCEPT ![i] = [A[i] EXCEPT !.excluded = exclude]]
  BY DEF Excluded, Cdd, Table
<1>3. /\ DOMAIN B = N
      /\ B[i].hit = A[i].hit /\ B[i].excluded = exclude
      /\ \A j \in N : j # i => B[j] = A[j]
  <2>1. i \in DOMAIN A
    OBVIOUS
  <2> HIDE DEF A, B
  <2>2. /\ DOMAIN B = N /\ B[i] = [A[i] EXCEPT !.excluded = exclude]
        /\ \A j \in N : j # i => B[j] = A[j]
    BY <1>2, <2>1
  <2>3. B[i].hit = A[i].hit /\ B[i].excluded = exclude
    BY <1>1, <2>2 DEF Arc
  <2> QED BY <2>2, <2>3
<1>4. IsFiniteSet(N)
  <2>1. N = 1 .. Len(A) /\ Len(A) \in Nat
    BY <1>1
  <2> QED BY <2>1, FS_Interval
<1>5. IsFiniteSet(hitA) /\ IsFiniteSet(outA)
  BY <1>4, FS_Subset
<1>6. Cardinality(hitA) \in Nat /\ Cardinality(outA) \in Nat
  BY <1>5, FS_CardinalityType
<1> HIDE DEF A, B
<1>7. Cardinality(hitB) = Cardinality(hitA) + one /\ Cardinality(outB) = Cardinality(outA) + one
  <2>1. CASE exclude
    <3>1. i \notin hitA /\ i \notin outA /\ hitB = hitA \cup {i} /\ outB = outA \cup {i}
      BY <1>3, <2>1 DEF A
    <3> HIDE DEF hitA, outA, hitB, outB
    <3> QED BY <1>5, <2>1, <3>1, FS_AddElement
  <2>2. CASE ~exclude
    <3>1. i \in hitA /\ i \in outA /\ hitB = hitA \ {i} /\ outB = outA \ {i}
      BY <1>3, <2>2 DEF A
    <3> HIDE DEF hitA, outA, hitB, outB
    <3>2. Cardinality(hitB) = Cardinality(hitA) - 1 /\ Cardinality(outB) = Cardinality(outA) - 1
      BY <1>5, <3>1, FS_RemoveElement
    <3> QED BY <1>6, <2>2, <3>2
  <2> QED BY <2>1, <2>2
<1>8. stat = [hit |-> Cardinality(hitA), excluded |-> Cardinality(outA)]
  BY DEF Stats, ArcHits, ArcExcluded, A
<1>9. Stats(Excluded(c, i, exclude).table) = [hit |-> Cardinality(hitB), excluded |-> Cardinality(outB)]
  BY <1>3 DEF Stats, ArcHits, ArcExcluded, B
<1> HIDE DEF hitA, outA, hitB, outB
<1>10. Recalculated(A[i], exclude) = [hit |-> stat.hit + one, excluded |-> stat.excluded + one]
  BY DEF Recalculated, A
<1> QED BY <1>7, <1>8, <1>9, <1>10 DEF A

(* The numbers the GUI adjusts at each exclusion are those that a new       *)
(* reading of the database computes, after any series of exclusions,        *)
(* inclusions, runs and merges.                                             *)
THEOREM StatsAreExact == Spec => []StatExact
<1>1. Init => StatExact
  BY DEF Init, StatExact
<1>2. IInv /\ StatExact /\ [Next]_vars => StatExact'
  <2> SUFFICES ASSUME IInv, StatExact, [Next]_vars PROVE StatExact'
    OBVIOUS
  <2>1. CASE CreateArc \/ StartRun \/ RunFrom \/ RunTo \/ NextRun \/ MergeArc
             \/ (\E s \in {"from", "to"}, v \in Values : Assign(s, v))
             \/ (\E f \in files : StartMerge(f))
    <3>1. phase' # "cdd"
      BY <2>1 DEF CreateArc, StartRun, RunFrom, RunTo, NextRun, MergeArc, Assign, StartMerge
    <3> QED BY <3>1 DEF StatExact
  <2>2. CASE EndRun \/ (\E f \in files : Open(f)) \/ (\E i \in DOMAIN cdd.table.arcs : ToggleId(i))
    BY <2>2 DEF EndRun, Open, ToggleId, StatExact
  <2>3. CASE EndMerge
    <3>1. cdd \in Cdd
      BY DEF IInv, TypeOK
    <3>2. cdd'.table = cdd.table /\ stat' = Stats(cdd.table)
      BY <2>3, <3>1 DEF EndMerge, Cdd
    <3> QED BY <3>2 DEF StatExact
  <2>4. ASSUME NEW f \in Values, NEW t \in Values, ToggleCell(f, t) PROVE StatExact'
    <3> DEFINE i == FindArc(cdd.table.arcs, FindState(cdd.table.fr, f), FindState(cdd.table.to, t))
               exclude == ~cdd.table.arcs[i].excluded
    <3>1. /\ i \in DOMAIN cdd.table.arcs /\ ~cdd.table.arcs[i].hit /\ phase = "cdd"
          /\ cdd' = Excluded(cdd, i, exclude)
          /\ stat' = Recalculated(cdd.table.arcs[i], exclude)
      BY <2>4 DEF ToggleCell
    <3>2. cdd \in Cdd /\ stat = Stats(cdd.table) /\ exclude \in BOOLEAN
      BY <3>1 DEF IInv, TypeOK, StatExact
    <3>3. exclude = ~cdd.table.arcs[i].excluded
      OBVIOUS
    <3> HIDE DEF i, exclude
    <3>4. Stats(cdd'.table) = Recalculated(cdd.table.arcs[i], exclude)
      BY <3>1, <3>2, <3>3, StatsToggled
    <3> QED BY <3>1, <3>4 DEF StatExact
  <2>5. CASE UNCHANGED vars
    BY <2>5 DEF StatExact, vars
  <2> QED BY <2>1, <2>2, <2>3, <2>4, <2>5 DEF Next
<1> QED BY <1>1, <1>2, Inductive, PTL DEF Spec
=============================================================================
