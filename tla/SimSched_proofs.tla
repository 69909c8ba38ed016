-------------------------- MODULE SimSched_proofs --------------------------
(***************************************************************************)
(* Theorems about the thread scheduler: the types, for every design, every *)
(* number of thread structures and every size of a word; and the threads,  *)
(* where they are, who waits for whom and in which order they run, for     *)
(* every structured design and any dumpfile.                               *)
(***************************************************************************)
EXTENDS SimSched, FiniteSetTheorems, SequenceTheorems, WellFoundedInduction, TLAPS

-----------------------------------------------------------------------------
(* Facts about the sequence operators the scheduler is written with. *)

(* A non-empty set of natural numbers has a least element. *)
LEMMA MinOfNats ==
  ASSUME NEW S, S \subseteq Nat, S # {}
  PROVE  \E x \in S : \A y \in S : x <= y
<1>1. PICK x \in S : \A y \in S : ~(<<y, x>> \in OpToRel(<, Nat))
  BY NatLessThanWellFounded, WFMin
<1>2. \A y \in S : ~(y < x)
  BY <1>1 DEF OpToRel
<1>3. \A y \in S : x <= y
  BY <1>2
<1> QED BY <1>3

(* A non-empty set of positions has a greatest one. *)
LEMMA MaxOfInterval ==
  ASSUME NEW n \in Nat, NEW S, S \subseteq 1..n, S # {}
  PROVE  \E x \in S : \A y \in S : y <= x
<1> DEFINE D == {n - x : x \in S}
<1>1. \A x \in S : x \in Int /\ n - x \in Nat
  OBVIOUS
<1>2. D \subseteq Nat
  BY <1>1
<1>3. D # {}
  OBVIOUS
<1>4. PICK d \in D : \A e \in D : d <= e
  BY <1>2, <1>3, MinOfNats
<1>5. PICK x \in S : d = n - x
  BY <1>4
<1>6. \A y \in S : n - x <= n - y
  BY <1>4, <1>5
<1> QED BY <1>1, <1>6

(* The first and the last position of a set of positions, or 0. *)
LEMMA FirstPosition ==
  ASSUME NEW n \in Nat, NEW I \in SUBSET (1..n)
  PROVE  /\ (IF I # {} THEN Min(I) ELSE 0) \in 0..n
         /\ I # {} => Min(I) \in I /\ \A j \in I : Min(I) <= j
<1>1. CASE I = {}
  BY <1>1
<1>2. CASE I # {}
  <2>1. PICK x \in I : \A y \in I : x <= y
    BY <1>2, MinOfNats, I \subseteq Nat
  <2>2. Min(I) \in I /\ \A j \in I : Min(I) <= j
    BY <2>1 DEF Min
  <2>3. Min(I) \in 0..n
    BY <2>2, I \subseteq 0..n
  <2> QED BY <1>2, <2>2, <2>3
<1> QED BY <1>1, <1>2

LEMMA LastPosition ==
  ASSUME NEW n \in Nat, NEW I \in SUBSET (1..n)
  PROVE  /\ (IF I # {} THEN Max(I) ELSE 0) \in 0..n
         /\ I # {} => Max(I) \in I /\ \A j \in I : Max(I) >= j
<1>1. CASE I = {}
  BY <1>1
<1>2. CASE I # {}
  <2>1. PICK x \in I : \A y \in I : y <= x
    BY <1>2, MaxOfInterval
  <2>2. \A y \in I : x >= y
    BY <2>1
  <2>3. Max(I) \in I /\ \A j \in I : Max(I) >= j
    BY <2>2 DEF Max
  <2>4. Max(I) \in 0..n
    BY <2>3, I \subseteq 0..n
  <2> QED BY <1>2, <2>3, <2>4
<1> QED BY <1>1, <1>2

(* Inserting and removing keep a sequence a sequence over the same set.    *)
LEMMA InsertAtType ==
  ASSUME NEW T, NEW s \in Seq(T), NEW e \in T, NEW i \in 1..(Len(s) + 1)
  PROVE  InsertAt(s, i, e) \in Seq(T)
<1>1. SubSeq(s, 1, i - 1) \in Seq(T)
  BY SubSeqProperties
<1>2. SubSeq(s, i, Len(s)) \in Seq(T)
  BY SubSeqProperties
<1> QED BY <1>1, <1>2 DEF InsertAt

LEMMA RemoveAtType ==
  ASSUME NEW T, NEW s \in Seq(T), NEW i \in 0..Len(s)
  PROVE  RemoveAt(s, i) \in Seq(T)
<1>1. SubSeq(s, 1, i - 1) \in Seq(T)
  BY SubSeqProperties
<1>2. SubSeq(s, i + 1, Len(s)) \in Seq(T)
  BY SubSeqProperties
<1> QED BY <1>1, <1>2 DEF RemoveAt

LEMMA FrontType ==
  ASSUME NEW T, NEW s \in Seq(T), s # <<>>
  PROVE  Front(s) \in Seq(T)
  BY SubSeqProperties DEF Front

(* What a sequence holds. *)
LEMMA ToSetType ==
  ASSUME NEW T, NEW s \in Seq(T)
  PROVE  ToSet(s) \subseteq T /\ IsFiniteSet(ToSet(s))
<1>1. ToSet(s) \subseteq T
  BY DEF ToSet
<1>2. IsFiniteSet(1..Len(s))
  BY FS_Interval
<1>3. s \in Surjection(1..Len(s), ToSet(s))
  BY DEF Surjection, ToSet
<1> QED BY <1>1, <1>2, <1>3, FS_Surjection

(* An enumeration of a finite set is a sequence over every set it is in.   *)
LEMMA SetToSeqsType ==
  ASSUME NEW T, NEW S \in SUBSET T, IsFiniteSet(S), NEW q \in SetToSeqs(S)
  PROVE  q \in Seq(T)
<1>1. Cardinality(S) \in Nat
  BY FS_CardinalityType
<1>2. q \in [1..Cardinality(S) -> T]
  BY DEF SetToSeqs
<1> QED BY <1>1, <1>2

-----------------------------------------------------------------------------
(* What the word-by-word arithmetic of the TIME_* macros computes, for       *)
(* every size of a word.                                                     *)

(* A larger high word outweighs any low word. *)
LEMMA HighWordDominates ==
  ASSUME NEW x \in SimTime, NEW y \in SimTime, x.hi < y.hi
  PROVE  Full(x) < Full(y)
<1>1. /\ x.hi \in Nat /\ y.hi \in Nat /\ x.lo \in 0..(Word - 1) /\ y.lo \in Nat
      /\ Word \in Nat
  BY WordAssumption DEF SimTime
<1>2. (x.hi + 1) * Word <= y.hi * Word
  <2>1. x.hi + 1 <= y.hi
    BY <1>1
  <2>2. \A a, b, w \in Nat : a <= b => a * w <= b * w
    OBVIOUS
  <2> QED BY <1>1, <2>1, <2>2
<1>3. (x.hi + 1) * Word = x.hi * Word + Word
  BY <1>1
<1>4. x.hi * Word \in Nat /\ y.hi * Word \in Nat
  BY <1>1
<1> QED BY <1>1, <1>2, <1>3, <1>4 DEF Full

(* With equal high words the low words decide. *)
LEMMA EqualHighWords ==
  ASSUME NEW x \in SimTime, NEW y \in SimTime, x.hi = y.hi
  PROVE  Full(x) <= Full(y) <=> x.lo <= y.lo
<1>1. /\ x.hi \in Nat /\ x.lo \in Nat /\ y.lo \in Nat /\ Word \in Nat
  BY WordAssumption DEF SimTime
<1>2. x.hi * Word \in Nat
  BY <1>1
<1> QED BY <1>1, <1>2 DEF Full

(* A 64-bit number is a natural number. *)
LEMMA FullType ==
  ASSUME NEW x \in SimTime
  PROVE  Full(x) \in Nat
<1>1. x.hi \in Nat /\ x.lo \in Nat /\ Word \in Nat
  BY WordAssumption DEF SimTime
<1>2. x.hi * Word \in Nat
  BY <1>1
<1> QED BY <1>1, <1>2 DEF Full

(* TIME_CMP_LE is the order of the 64-bit times: sim_simulate and the end  *)
(* of a delay decide "due" as if they compared the full times.             *)
THEOREM TimeCmpLECorrect ==
  ASSUME NEW x \in SimTime, NEW y \in SimTime
  PROVE  TimeCmpLE(x, y) <=> Full(x) <= Full(y)
<1>1. /\ x.hi \in Int /\ y.hi \in Int /\ x.lo \in Int /\ y.lo \in Int
  BY WordAssumption DEF SimTime
<1>2. Full(x) \in Nat /\ Full(y) \in Nat
  BY FullType
<1>3. CASE x.hi < y.hi
  BY <1>1, <1>2, <1>3, HighWordDominates DEF TimeCmpLE
<1>4. CASE x.hi > y.hi
  BY <1>1, <1>2, <1>4, HighWordDominates DEF TimeCmpLE
<1>5. CASE x.hi = y.hi
  BY <1>1, <1>5, EqualHighWords DEF TimeCmpLE
<1> QED BY <1>1, <1>3, <1>4, <1>5

(* TIME_CMP_GT never misses a later time, and is exact as long as the two  *)
(* times agree in their high words.  It is not the order of the times in   *)
(* general (see MCWord): the insertion into the delayed queue may walk     *)
(* past an earlier time, but only across a carry.                          *)
THEOREM TimeCmpGTOneSided ==
  ASSUME NEW x \in SimTime, NEW y \in SimTime
  PROVE  /\ Full(x) > Full(y) => TimeCmpGT(x, y)
         /\ x.hi = y.hi => (TimeCmpGT(x, y) <=> Full(x) > Full(y))
<1>1. /\ x.hi \in Int /\ y.hi \in Int /\ x.lo \in Int /\ y.lo \in Int
  BY WordAssumption DEF SimTime
<1>2. Full(x) \in Nat /\ Full(y) \in Nat
  BY FullType
<1>3. CASE x.hi < y.hi
  BY <1>1, <1>2, <1>3, HighWordDominates
<1>4. CASE x.hi > y.hi
  BY <1>1, <1>4 DEF TimeCmpGT
<1>5. CASE x.hi = y.hi
  BY <1>1, <1>2, <1>5, EqualHighWords DEF TimeCmpGT
<1> QED BY <1>1, <1>3, <1>4, <1>5

(* The sum of two words that overflows loses exactly one Word. *)
LEMMA LowWordCarry ==
  ASSUME NEW a \in 0..(Word - 1), NEW b \in 0..(Word - 1)
  PROVE  /\ (Word - 1) - a < b => (a + b) % Word = a + b - Word
         /\ ~((Word - 1) - a < b) => (a + b) % Word = a + b
<1>1. Word \in Nat \ {0}
  BY WordAssumption
<1> QED BY <1>1

(* TIME_INC adds the 64-bit times, carry included, unless the sum does not *)
(* fit in two words: a delay always ends that much later than it began.    *)
THEOREM TimeIncCorrect ==
  ASSUME NEW x \in SimTime, NEW y \in SimTime, Full(x) + Full(y) < Word * Word
  PROVE  /\ TimeInc(x, y) \in SimTime
         /\ Full(TimeInc(x, y)) = Full(x) + Full(y)
<1> DEFINE c == IF (Word - 1) - x.lo < y.lo THEN 1 ELSE 0
           h == x.hi + y.hi + c
           l == x.lo + y.lo - c * Word
<1>1. /\ Word \in Nat \ {0}
      /\ x.hi \in 0..(Word - 1) /\ y.hi \in 0..(Word - 1)
      /\ x.lo \in 0..(Word - 1) /\ y.lo \in 0..(Word - 1)
      /\ x.final \in BOOLEAN
  BY WordAssumption DEF SimTime
<1>2. (x.lo + y.lo) % Word = l /\ l \in 0..(Word - 1) /\ c \in {0, 1}
  <2>1. CASE (Word - 1) - x.lo < y.lo
    <3>1. (x.lo + y.lo) % Word = x.lo + y.lo - Word
      BY <1>1, <2>1, LowWordCarry
    <3>2. c = 1 /\ 1 * Word = Word
      BY <1>1, <2>1
    <3> QED BY <1>1, <2>1, <3>1, <3>2
  <2>2. CASE ~((Word - 1) - x.lo < y.lo)
    <3>1. (x.lo + y.lo) % Word = x.lo + y.lo
      BY <1>1, <2>2, LowWordCarry
    <3>2. c = 0 /\ 0 * Word = 0
      BY <1>1, <2>2
    <3> QED BY <1>1, <2>2, <3>1, <3>2
  <2> QED BY <2>1, <2>2
<1>3. h \in Nat
  BY <1>1, <1>2
<1> HIDE DEF c
<1>4. h * Word = x.hi * Word + y.hi * Word + c * Word
  BY <1>1, <1>2
<1>5. x.hi * Word \in Nat /\ y.hi * Word \in Nat /\ c * Word \in Nat
  BY <1>1, <1>2
<1>6. Full(x) + Full(y) = h * Word + l
  BY <1>1, <1>4, <1>5 DEF Full
<1>7. h < Word
  <2>1. h * Word < Word * Word
    BY <1>1, <1>2, <1>3, <1>4, <1>5, <1>6
  <2>2. \A n, w \in Nat : w <= n => w * w <= n * w
    OBVIOUS
  <2> HIDE DEF h
  <2>3. h * Word \in Nat /\ Word * Word \in Nat
    BY <1>1, <1>3
  <2> QED BY <1>1, <1>3, <2>1, <2>2, <2>3
<1>8. h % Word = h
  <2>1. \A n, w \in Nat : n < w => n % w = n
    OBVIOUS
  <2> HIDE DEF h
  <2> QED BY <1>1, <1>3, <1>7, <2>1
<1>9. TimeInc(x, y) = [hi |-> h, lo |-> l, final |-> x.final]
  BY <1>2, <1>8 DEF TimeInc, c
<1>10. TimeInc(x, y) \in SimTime
  BY <1>1, <1>2, <1>3, <1>7, <1>9 DEF SimTime
<1> QED BY <1>6, <1>9, <1>10 DEF Full

-----------------------------------------------------------------------------
(* The step of the simulator the assumptions and the types of the state    *)
(* give for every lemma below.                                             *)
LEMMA TimeOfType ==
  ASSUME NEW n \in Nat, NEW f \in BOOLEAN
  PROVE  TimeOf(n, f) \in SimTime
<1>1. Word \in Nat \ {0}
  BY WordAssumption
<1>2. n \div Word \in Nat
  BY <1>1
<1>3. \A m \in Nat : m % Word \in 0..(Word - 1)
  BY <1>1
<1> QED BY <1>2, <1>3 DEF TimeOf, SimTime

LEMMA FinalTimeType == FinalTime \in SimTime
  BY WordAssumption DEF FinalTime, SimTime

LEMMA TimeIncType ==
  ASSUME NEW x \in SimTime, NEW y \in SimTime
  PROVE  TimeInc(x, y) \in SimTime
<1>1. Word \in Nat \ {0}
  BY WordAssumption
<1>2. \A m \in Int : m % Word \in 0..(Word - 1)
  BY <1>1
<1>3. /\ x.hi \in Int /\ y.hi \in Int /\ x.lo \in Int /\ y.lo \in Int
      /\ x.final \in BOOLEAN
  BY <1>1 DEF SimTime
<1> QED BY <1>2, <1>3 DEF TimeInc, SimTime

-----------------------------------------------------------------------------
(* The helpers keep the types *)

LEMMA IndexInType ==
  ASSUME NEW T, NEW q \in Seq(T), NEW t
  PROVE  /\ IndexIn(q, t) \in 0..Len(q)
         /\ IndexIn(q, t) # 0 => q[IndexIn(q, t)] = t
<1> DEFINE I == {i \in 1..Len(q) : q[i] = t}
<1>1. /\ (IF I # {} THEN Min(I) ELSE 0) \in 0..Len(q)
      /\ I # {} => Min(I) \in I /\ \A j \in I : Min(I) <= j
  <2>1. I \in SUBSET (1..Len(q)) /\ Len(q) \in Nat
    OBVIOUS
  <2> HIDE DEF I
  <2> QED BY <2>1, FirstPosition
<1>2. IndexIn(q, t) = IF I # {} THEN Min(I) ELSE 0
  BY DEF IndexIn, SelectInSeq
<1> HIDE DEF I
<1>3. I # {} => Min(I) \in I
  BY <1>1
<1>4. Min(I) \in I => q[Min(I)] = t
  BY DEF I
<1> QED BY <1>1, <1>2, <1>3, <1>4

LEMMA InsertPosType ==
  ASSUME NEW q \in Seq(Thread), NEW tm
  PROVE  InsertPos(q, tm) \in 0..Len(q)
<1> DEFINE I == {i \in 1..Len(q) : ~TimeCmpGT(thr[q[i]].time, tm)}
<1>1. (IF I # {} THEN Max(I) ELSE 0) \in 0..Len(q)
  <2>1. I \in SUBSET (1..Len(q)) /\ Len(q) \in Nat
    OBVIOUS
  <2> HIDE DEF I
  <2> QED BY <2>1, LastPosition
<1>2. InsertPos(q, tm) = IF I # {} THEN Max(I) ELSE 0
  BY DEF InsertPos, SelectLastInSeq
<1> QED BY <1>1, <1>2

LEMMA InsertType ==
  ASSUME NEW q \in Seq(Thread), NEW t \in Thread, NEW tm
  PROVE  Insert(q, t, tm) \in Seq(Thread)
<1>1. InsertPos(q, tm) + 1 \in 1..(Len(q) + 1)
  BY InsertPosType
<1> QED BY <1>1, InsertAtType DEF Insert

LEMMA NewThreadType ==
  ASSUME NEW p \in Thread \cup {NULL}, NEW s \in Stmt, NEW st \in ThreadState,
         NEW tm \in SimTime
  PROVE  NewThread(p, s, st, tm) \in ThreadRec
  BY DesignAssumption DEF NewThread, ThreadRec

LEMMA LiveType ==
  ASSUME TypeOK
  PROVE  Live \subseteq Thread /\ IsFiniteSet(Live)
<1>1. pool \in Seq(Thread)
  BY DEF TypeOK
<1>2. CASE allNext = NULL
  BY <1>1, <1>2, ToSetType DEF Live
<1>3. CASE allNext # NULL
  <2> DEFINE i == IndexIn(pool, allNext) - 1
  <2>1. i \in Int /\ i <= Len(pool)
    BY <1>1, IndexInType
  <2>2. SubSeq(pool, 1, i) \in Seq(Thread)
    BY <1>1, <2>1, SubSeqProperties
  <2>3. ToSet(SubSeq(pool, 1, i)) \subseteq Thread /\ IsFiniteSet(ToSet(SubSeq(pool, 1, i)))
    BY <2>2, ToSetType
  <2> QED BY <1>3, <2>3 DEF Live
<1> QED BY <1>2, <1>3

LEMMA WokenType ==
  ASSUME TypeOK, NEW S, NEW q \in SetToSeqs(Woken(S))
  PROVE  q \in Seq(Thread)
<1>1. Woken(S) \subseteq Live
  BY DEF Woken
<1>2. IsFiniteSet(Woken(S)) /\ Woken(S) \subseteq Thread
  BY <1>1, LiveType, FS_Subset
<1> QED BY <1>2, SetToSeqsType

LEMMA PushedType ==
  ASSUME NEW T \in [Thread -> ThreadRec], NEW q, NEW tm \in SimTime
  PROVE  Pushed(T, q, tm) \in [Thread -> ThreadRec]
<1> SUFFICES ASSUME NEW u \in Thread
             PROVE  (IF u \notin ToSet(q) THEN T[u]
                     ELSE [T[u] EXCEPT !.state = "ACTIVE",
                             !.time = IF Op[T[u].curr] \in {"EVENT", "COMB", "WAIT"}
                                      THEN tm ELSE @]) \in ThreadRec
  BY DEF Pushed
<1>1. T[u] \in ThreadRec
  OBVIOUS
<1> QED BY <1>1 DEF ThreadRec, ThreadState

LEMMA AllocType ==
  ASSUME TypeOK, NEW t \in Thread, Alloc(t)
  PROVE  pool' \in Seq(Thread) /\ allNext' \in Thread \cup {NULL}
<1>1. pool \in Seq(Thread) /\ allNext \in Thread \cup {NULL}
  BY DEF TypeOK
<1>2. CASE allNext = NULL
  BY <1>1, <1>2 DEF Alloc
<1>3. CASE allNext # NULL
  <2> DEFINE i == IndexIn(pool, t)
  <2>1. i \in 0..Len(pool)
    BY <1>1, IndexInType
  <2>2. i < Len(pool) => pool[i + 1] \in Thread
    BY <1>1, <2>1, ElementOfSeq
  <2> QED BY <1>1, <1>3, <2>2 DEF Alloc
<1> QED BY <1>2, <1>3

LEMMA AddChildType ==
  ASSUME TypeOK, NEW t \in Thread, NEW p \in Thread, NEW s \in Stmt,
         NEW T \in [Thread -> ThreadRec], AddChild(t, p, s, T)
  PROVE  /\ pool' \in Seq(Thread) /\ allNext' \in Thread \cup {NULL}
         /\ active' \in Seq(Thread)
         /\ thr' \in [Thread -> ThreadRec]
<1>1. active \in Seq(Thread)
  BY DEF TypeOK
<1>2. pool' \in Seq(Thread) /\ allNext' \in Thread \cup {NULL}
  BY AllocType DEF AddChild
<1>3. active' \in Seq(Thread)
  <2>1. IndexIn(active, p) + 1 \in 1..(Len(active) + 1)
    BY <1>1, IndexInType
  <2> QED BY <1>1, <2>1, InsertAtType DEF AddChild
<1>4. thr' \in [Thread -> ThreadRec]
  <2>1. [T[p] EXCEPT !.children = @ + 1] \in ThreadRec
    BY T[p] \in ThreadRec DEF ThreadRec
  <2>2. NewThread(p, s, "ACTIVE", T[p].time) \in ThreadRec
    BY NewThreadType, T[p] \in ThreadRec DEF ThreadRec, ThreadState
  <2> QED BY <2>1, <2>2 DEF AddChild
<1> QED BY <1>2, <1>3, <1>4

LEMMA ParentAfterKillType ==
  ASSUME thr \in [Thread -> ThreadRec], NEW t \in Thread, thr[t].parent # NULL
  PROVE  ParentAfterKill(t) \in ThreadRec
<1>1. thr[t] \in ThreadRec
  OBVIOUS
<1>2. thr[t].parent \in Thread /\ thr[t].time \in SimTime
  BY <1>1 DEF ThreadRec
<1>3. thr[thr[t].parent] \in ThreadRec
  BY <1>2
<1> DEFINE r == thr[thr[t].parent]
<1>4. r.children - 1 \in Int
  BY <1>3 DEF ThreadRec
<1>5. ParentAfterKill(t) = IF LastChild(t)
        THEN [r EXCEPT !.children = r.children - 1, !.time = thr[t].time, !.state = "ACTIVE"]
        ELSE [r EXCEPT !.children = r.children - 1]
  BY DEF ParentAfterKill
<1> HIDE DEF r
<1>6. r \in ThreadRec
  BY <1>3 DEF r
<1>7. CASE LastChild(t)
  BY <1>2, <1>4, <1>5, <1>6, <1>7 DEF ThreadRec, ThreadState
<1>8. CASE ~LastChild(t)
  BY <1>4, <1>5, <1>6, <1>8 DEF ThreadRec
<1> QED BY <1>7, <1>8

LEMMA KillThreadType ==
  ASSUME TypeOK, NEW t \in Thread, KillThread(t)
  PROVE  /\ pool' \in Seq(Thread) /\ allNext' \in Thread \cup {NULL}
         /\ active' \in Seq(Thread)
         /\ thr' \in [Thread -> ThreadRec]
<1>1. /\ pool \in Seq(Thread) /\ allNext \in Thread \cup {NULL}
      /\ active \in Seq(Thread) /\ thr \in [Thread -> ThreadRec]
  BY DEF TypeOK
<1>2. pool' \in Seq(Thread) /\ allNext' \in Thread \cup {NULL}
  <2>1. RemoveAt(pool, IndexIn(pool, t)) \in Seq(Thread)
    BY <1>1, IndexInType, RemoveAtType
  <2> QED BY <1>1, <2>1, AppendProperties DEF KillThread, Park
<1>3. thr[t].parent \in Thread \cup {NULL}
  BY <1>1 DEF ThreadRec
<1>4. active' \in Seq(Thread)
  <2>1. CASE LastChild(t)
    <3> DEFINE i == IndexIn(active, t) + 1
    <3>1. i \in Int /\ i >= 1
      BY <1>1, IndexInType
    <3>2. SubSeq(active, i, Len(active)) \in Seq(Thread)
      BY <1>1, <3>1, SubSeqProperties
    <3>3. <<thr[t].parent>> \in Seq(Thread)
      BY <1>3, <2>1 DEF LastChild
    <3> QED BY <2>1, <3>2, <3>3, ConcatProperties DEF KillThread, ActiveAfterKill
  <2>2. CASE ~LastChild(t)
    BY <1>1, <2>2, HeadTailProperties DEF KillThread, ActiveAfterKill
  <2> QED BY <2>1, <2>2
<1>5. thr' \in [Thread -> ThreadRec]
  BY <1>1, ParentAfterKillType DEF KillThread
<1> QED BY <1>2, <1>4, <1>5

LEMMA DisabledType ==
  ASSUME NEW T \in [Thread -> ThreadRec], NEW f
  PROVE  Disabled(T, f) \in [Thread -> ThreadRec]
<1> SUFFICES ASSUME NEW u \in Thread
             PROVE  Disabled(T, f)[u] \in ThreadRec
  BY DEF Disabled
<1>1. T[u] \in ThreadRec
  OBVIOUS
<1> QED BY <1>1 DEF Disabled, ThreadRec

(* The innermost call of sim_thread, and what the loop does after each *)
(* statement.                                                          *)
LEMMA TopType ==
  ASSUME TypeOK, frames # <<>>
  PROVE  Top \in FrameRec /\ Len(frames) \in DOMAIN frames
  BY DEF TypeOK, Top

LEMMA ExecutingType ==
  ASSUME TypeOK, NEW ops, Executing(ops)
  PROVE  /\ Top \in FrameRec /\ Top.thr \in Thread /\ Top.stmt \in Stmt
         /\ thr[Top.thr] \in ThreadRec /\ Len(frames) \in DOMAIN frames
<1>1. frames # <<>> /\ Top.stmt # NULL
  BY DEF Executing
<1>2. Top \in FrameRec /\ Len(frames) \in DOMAIN frames
  BY <1>1, TopType
<1>3. Top.thr \in Thread /\ Top.stmt \in Stmt
  BY <1>1, <1>2 DEF FrameRec
<1> QED BY <1>2, <1>3 DEF TypeOK

LEMMA ExecutedType ==
  ASSUME TypeOK, NEW ops, Executing(ops), NEW T \in [Thread -> ThreadRec]
  PROVE  Executed(T) \in [Thread -> ThreadRec]
<1>1. Top.thr \in Thread /\ Top.stmt \in Stmt
  BY ExecutingType
<1>2. T[Top.thr] \in ThreadRec
  BY <1>1
<1> DEFINE r == [[T[Top.thr] EXCEPT !.curr = Top.stmt] EXCEPT !.execFirst = FALSE]
<1>3. r \in ThreadRec
  BY <1>1, <1>2 DEF ThreadRec
<1>4. Executed(T) = [T EXCEPT ![Top.thr] = r]
  BY <1>1 DEF Executed
<1> QED BY <1>3, <1>4

LEMMA AdvanceType ==
  ASSUME TypeOK, NEW ops, Executing(ops), NEW chg \in BOOLEAN, NEW branch \in BOOLEAN,
         Advance(chg, branch)
  PROVE  frames' \in Seq(FrameRec)
<1>1. Top \in FrameRec /\ Top.stmt \in Stmt
  BY ExecutingType
<1> DEFINE n == IF Top.stmt \in Cont THEN NULL
                ELSE IF branch THEN NextTrue[Top.stmt] ELSE NextFalse[Top.stmt]
           r == [Top EXCEPT !.chg = chg, !.called = FALSE, !.stmt = n]
<1>2. n \in Stmt \cup {NULL}
  BY <1>1, DesignAssumption
<1> HIDE DEF n
<1>3. r \in FrameRec
  BY <1>1, <1>2 DEF FrameRec
<1>4. frames' = [frames EXCEPT ![Len(frames)] = r]
  BY DEF Advance, Top, n
<1> HIDE DEF r
<1>5. frames \in Seq(FrameRec) /\ Len(frames) \in 1..Len(frames)
  BY ExecutingType DEF TypeOK
<1> QED BY <1>3, <1>4, <1>5, ExceptSeq

LEMMA AssignType ==
  ASSUME TypeOK, NEW ops, Executing(ops), NEW T \in [Thread -> ThreadRec], Assign(T)
  PROVE  active' \in Seq(Thread) /\ thr' \in [Thread -> ThreadRec]
<1> PICK S \in SUBSET Writes[Top.stmt] :
       \E q \in SetToSeqs(Woken(S)) :
         active' = active \o q /\ thr' = Pushed(T, q, thr[Top.thr].time)
  BY DEF Assign
<1>1. PICK q \in SetToSeqs(Woken(S)) :
        active' = active \o q /\ thr' = Pushed(T, q, thr[Top.thr].time)
  OBVIOUS
<1>2. q \in Seq(Thread)
  BY WokenType
<1>3. thr[Top.thr].time \in SimTime
  BY ExecutingType DEF ThreadRec
<1>4. active \in Seq(Thread)
  BY DEF TypeOK
<1> QED BY <1>1, <1>2, <1>3, <1>4, PushedType, ConcatProperties

-----------------------------------------------------------------------------
(* Type correctness *)

LEMMA InitType == Init => TypeOK
<1> SUFFICES ASSUME Init PROVE TypeOK
  OBVIOUS
<1> DEFINE f0 == CHOOSE f \in Funit : TRUE
           z0 == TimeOf(0, FALSE)
           r0 == [funit |-> f0, parent |-> NULL, curr |-> NULL, state |-> "NONE",
                  kill |-> FALSE, execFirst |-> FALSE, children |-> 0,
                  time |-> z0]
<1>1. z0 \in SimTime
  BY TimeOfType
<1>2. f0 \in Funit
  BY DesignAssumption
<1>3. thr = [t \in Thread |-> r0]
  BY DEF Init
<1> HIDE DEF f0, z0
<1>4. r0 \in ThreadRec
  BY <1>1, <1>2 DEF ThreadRec, ThreadState
<1> HIDE DEF r0
<1>5. thr \in [Thread -> ThreadRec]
  BY <1>3, <1>4
<1>6. Heads \in Seq(Stmt)
  BY DesignAssumption
<1>7. /\ pool \in Seq(Thread) /\ active \in Seq(Thread) /\ delayed \in Seq(Thread)
      /\ frames \in Seq(FrameRec)
  BY EmptySeq DEF Init
<1> QED BY <1>1, <1>5, <1>6, <1>7 DEF Init, TypeOK, Phase, z0

(* Reading the database: the blocks are queued. *)
LEMMA StartBlockType == TypeOK /\ StartBlock => TypeOK'
<1> SUFFICES ASSUME TypeOK, StartBlock PROVE TypeOK'
  OBVIOUS
<1>1. PICK t \in Thread :
        /\ Alloc(t)
        /\ evalT' = IF Op[Head(toAdd)] = "COMB" THEN evalT \cup {Head(toAdd)} ELSE evalT
        /\ \/ StartDelayed(t, Head(toAdd), TimeOf(0, FALSE))
           \/ StartDelayed(t, Head(toAdd), FinalTime)
           \/ StartActive(t, Head(toAdd))
  BY DEF StartBlock
<1> DEFINE s == Head(toAdd)
<1>2. s \in Stmt /\ toAdd' \in Seq(Stmt)
  BY HeadTailProperties DEF StartBlock, TypeOK
<1>3. pool' \in Seq(Thread) /\ allNext' \in Thread \cup {NULL}
  BY <1>1, AllocType
<1>4. /\ active \in Seq(Thread) /\ delayed \in Seq(Thread)
      /\ thr \in [Thread -> ThreadRec] /\ NULL \in Thread \cup {NULL}
  BY DEF TypeOK
<1> HIDE DEF s
<1>5. ASSUME NEW tm \in SimTime, StartDelayed(t, s, tm)
      PROVE  /\ active' \in Seq(Thread) /\ delayed' \in Seq(Thread)
             /\ thr' \in [Thread -> ThreadRec]
  <2>1. NewThread(NULL, s, "DELAYED", tm) \in ThreadRec
    BY <1>2, NewThreadType DEF ThreadState
  <2> QED BY <1>4, <1>5, <2>1, InsertType DEF StartDelayed
<1>6. CASE StartActive(t, s)
  <2>1. NewThread(NULL, s, "ACTIVE", TimeOf(0, FALSE)) \in ThreadRec
    BY <1>2, NewThreadType, TimeOfType DEF ThreadState
  <2> QED BY <1>2, <1>3, <1>4, <1>6, <1>1, <2>1, AppendProperties
          DEF StartActive, StartBlock, TypeOK, s
<1>7. CASE StartDelayed(t, s, TimeOf(0, FALSE)) \/ StartDelayed(t, s, FinalTime)
  <2>1. /\ active' \in Seq(Thread) /\ delayed' \in Seq(Thread)
        /\ thr' \in [Thread -> ThreadRec]
    BY <1>5, <1>7, TimeOfType, FinalTimeType
  <2> QED BY <1>1, <1>2, <1>3, <2>1 DEF StartBlock, TypeOK, s
<1> QED BY <1>1, <1>6, <1>7 DEF s

(* db_do_timestep and sim_simulate around the calls of sim_thread. *)
LEMMA TimestepType ==
  TypeOK /\ (EndRead \/ (\E n \in 0..MaxTime : Timestep(n)) \/ FinalTimestep) => TypeOK'
<1> SUFFICES ASSUME TypeOK PROVE
      EndRead \/ (\E n \in 0..MaxTime : Timestep(n)) \/ FinalTimestep => TypeOK'
  OBVIOUS
<1>1. ASSUME EndRead PROVE TypeOK'
  BY <1>1 DEF EndRead, TypeOK, Phase
<1>2. ASSUME NEW n \in 0..MaxTime, Timestep(n) PROVE TypeOK'
  <2>1. TimeOf(n, FALSE) \in SimTime
    BY n \in Nat, TimeOfType, DesignAssumption
  <2> QED BY <1>2, <2>1 DEF Timestep, TypeOK, Phase
<1>3. ASSUME FinalTimestep PROVE TypeOK'
  <2>1. TimeOf(0, TRUE) \in SimTime
    BY TimeOfType
  <2> QED BY <1>3, <2>1 DEF FinalTimestep, TypeOK, Phase
<1> QED BY <1>1, <1>2, <1>3

LEMMA PassType == TypeOK /\ (PopDelayed \/ EndPass \/ PostAssign) => TypeOK'
<1> SUFFICES ASSUME TypeOK PROVE PopDelayed \/ EndPass \/ PostAssign => TypeOK'
  OBVIOUS
<1>1. ASSUME PopDelayed PROVE TypeOK'
  <2>1. Head(delayed) \in Thread /\ Tail(delayed) \in Seq(Thread)
    BY <1>1, HeadTailProperties DEF PopDelayed, Due, TypeOK
  <2>2. [thr[Head(delayed)] EXCEPT !.state = "ACTIVE"] \in ThreadRec
    BY <2>1 DEF TypeOK, ThreadRec, ThreadState
  <2> QED BY <1>1, <2>1, <2>2 DEF PopDelayed, TypeOK
<1>2. ASSUME EndPass PROVE TypeOK'
  BY <1>2, FinalTimeType DEF EndPass, Resting, TypeOK, Phase
<1>3. ASSUME PostAssign PROVE TypeOK'
  <2> PICK S \in SUBSET PostSignals :
        \E q \in SetToSeqs(Woken(S)) : active' = active \o q /\ thr' = Pushed(thr, q, now)
    BY <1>3 DEF PostAssign
  <2>1. PICK q \in SetToSeqs(Woken(S)) :
          active' = active \o q /\ thr' = Pushed(thr, q, now)
    OBVIOUS
  <2>2. active' \in Seq(Thread)
    BY <2>1, WokenType, ConcatProperties DEF TypeOK
  <2>3. thr' \in [Thread -> ThreadRec]
    BY <2>1, PushedType DEF TypeOK
  <2> QED BY <1>3, <2>2, <2>3 DEF PostAssign, Resting, TypeOK, Phase
<1> QED BY <1>1, <1>2, <1>3

(* sim_thread: the calls begin, and nest in functions. *)
LEMMA BeginThreadType == TypeOK /\ BeginThread => TypeOK'
<1> SUFFICES ASSUME TypeOK, BeginThread PROVE TypeOK'
  OBVIOUS
<1>1. Head(active) \in Thread
  BY HeadTailProperties DEF BeginThread, TypeOK
<1>2. thr[Head(active)].curr \in Stmt \cup {NULL}
  BY <1>1 DEF TypeOK, ThreadRec
<1> DEFINE f == [thr |-> Head(active), stmt |-> thr[Head(active)].curr,
                 chg |-> FALSE, called |-> FALSE]
<1>3. f \in FrameRec
  BY <1>1, <1>2 DEF FrameRec
<1>4. frames' = <<f>>
  BY DEF BeginThread
<1> HIDE DEF f
<1>5. frames' \in Seq(FrameRec)
  BY <1>3, <1>4
<1> QED BY <1>5 DEF BeginThread, TypeOK

LEMMA CallFunctionType == TypeOK /\ CallFunction => TypeOK'
<1> SUFFICES ASSUME TypeOK, CallFunction PROVE TypeOK'
  OBVIOUS
<1>1. PICK t \in Thread :
        LET s == First[Func[Top.stmt]]
        IN  /\ AddChild(t, Top.thr, s, thr)
            /\ frames' = Append([frames EXCEPT ![Len(frames)].called = TRUE],
                                [thr |-> t, stmt |-> s, chg |-> FALSE, called |-> FALSE])
  BY DEF CallFunction
<1> DEFINE s == First[Func[Top.stmt]]
           g == [thr |-> t, stmt |-> s, chg |-> FALSE, called |-> FALSE]
           r == [Top EXCEPT !.called = TRUE]
<1>2. /\ Top \in FrameRec /\ Top.thr \in Thread /\ Top.stmt \in Stmt
      /\ Len(frames) \in 1..Len(frames)
  BY ExecutingType DEF CallFunction, TypeOK
<1>3. s \in Stmt
  BY <1>2, DesignAssumption DEF CallFunction
<1>4. /\ pool' \in Seq(Thread) /\ allNext' \in Thread \cup {NULL}
      /\ active' \in Seq(Thread) /\ thr' \in [Thread -> ThreadRec]
  BY <1>1, <1>2, <1>3, AddChildType DEF TypeOK
<1>5. g \in FrameRec /\ r \in FrameRec
  BY <1>2, <1>3 DEF FrameRec
<1>6. frames' = Append([frames EXCEPT ![Len(frames)] = r], g)
  BY <1>1 DEF Top
<1> HIDE DEF g, r
<1>7. [frames EXCEPT ![Len(frames)] = r] \in Seq(FrameRec)
  BY <1>2, <1>5, ExceptSeq DEF TypeOK
<1>8. frames' \in Seq(FrameRec)
  BY <1>5, <1>6, <1>7, AppendProperties
<1> QED BY <1>4, <1>8 DEF CallFunction, TypeOK

(* The operations that end in Executed(thr) and Advance, with at most the  *)
(* signals a statement writes waking other threads.                        *)
LEMMA SimpleOpType ==
  TypeOK /\ (ExecAssign \/ ExecEvent \/ ExecJoin \/ ExecDisable \/ ExecFinish) => TypeOK'
<1> SUFFICES ASSUME TypeOK
             PROVE ExecAssign \/ ExecEvent \/ ExecJoin \/ ExecDisable \/ ExecFinish => TypeOK'
  OBVIOUS
<1>0. thr \in [Thread -> ThreadRec]
  BY DEF TypeOK
<1>1. ASSUME ExecAssign PROVE TypeOK'
  <2> DEFINE ops == {"ASSIGN", "CASE", "VALUE"}
  <2>1. Executing(ops)
    BY <1>1 DEF ExecAssign, Evaluating
  <2>2. Executed(thr) \in [Thread -> ThreadRec]
    BY <1>0, <2>1, ExecutedType
  <2>3. active' \in Seq(Thread) /\ thr' \in [Thread -> ThreadRec]
    BY <1>1, <2>1, <2>2, AssignType DEF ExecAssign
  <2>4. frames' \in Seq(FrameRec)
    BY <1>1, <2>1, AdvanceType DEF ExecAssign
  <2> QED BY <1>1, <2>3, <2>4 DEF ExecAssign, TypeOK
<1>2. ASSUME ExecEvent PROVE TypeOK'
  <2> DEFINE ops == {"EVENT", "WAIT", "COMB"}
  <2>1. Executing(ops)
    BY <1>2 DEF ExecEvent, Evaluating
  <2>2. thr' \in [Thread -> ThreadRec]
    BY <1>0, <1>2, <2>1, ExecutedType DEF ExecEvent
  <2>3. MayFire(Top.stmt) \in BOOLEAN
    BY <2>1, ExecutingType DEF MayFire, ThreadRec
  <2>4. frames' \in Seq(FrameRec)
    BY <1>2, <2>1, <2>3, AdvanceType DEF ExecEvent
  <2> QED BY <1>2, <2>2, <2>4 DEF ExecEvent, TypeOK
<1>3. ASSUME ExecJoin PROVE TypeOK'
  <2>1. Executing({"JOIN"})
    BY <1>3 DEF ExecJoin, Evaluating
  <2>2. thr' \in [Thread -> ThreadRec]
    BY <1>0, <1>3, <2>1, ExecutedType DEF ExecJoin
  <2>3. frames' \in Seq(FrameRec)
    BY <1>3, <2>1, AdvanceType DEF ExecJoin
  <2> QED BY <1>3, <2>2, <2>3 DEF ExecJoin, TypeOK
<1>4. ASSUME ExecDisable PROVE TypeOK'
  <2>1. Executing({"DISABLE"})
    BY <1>4 DEF ExecDisable, Evaluating
  <2>2. thr' \in [Thread -> ThreadRec]
    BY <1>0, <1>4, <2>1, DisabledType, ExecutedType DEF ExecDisable
  <2>3. frames' \in Seq(FrameRec)
    BY <1>4, <2>1, AdvanceType DEF ExecDisable
  <2> QED BY <1>4, <2>2, <2>3 DEF ExecDisable, TypeOK
<1>5. ASSUME ExecFinish PROVE TypeOK'
  <2>1. Executing({"FINISH", "STOP"})
    BY <1>5 DEF ExecFinish, Evaluating
  <2>2. thr' \in [Thread -> ThreadRec]
    BY <1>0, <1>5, <2>1, ExecutedType DEF ExecFinish
  <2>3. frames' \in Seq(FrameRec)
    BY <1>5, <2>1, AdvanceType DEF ExecFinish
  <2> QED BY <1>5, <2>2, <2>3 DEF ExecFinish, TypeOK
<1> QED BY <1>1, <1>2, <1>3, <1>4, <1>5

(* Delays: the thread leaves the active queue for the delayed one. *)
LEMMA DelayType == TypeOK /\ (ExecDelayStart \/ ExecDelayEnd) => TypeOK'
<1> SUFFICES ASSUME TypeOK PROVE ExecDelayStart \/ ExecDelayEnd => TypeOK'
  OBVIOUS
<1>0. /\ thr \in [Thread -> ThreadRec]
      /\ active \in Seq(Thread) /\ delayed \in Seq(Thread)
  BY DEF TypeOK
<1>1. ASSUME ExecDelayStart PROVE TypeOK'
  <2>1. Executing({"DELAY"})
    BY <1>1 DEF ExecDelayStart, Evaluating
  <2>2. /\ Top.thr \in Thread /\ Top.stmt \in Stmt /\ thr[Top.thr] \in ThreadRec
    BY <2>1, ExecutingType
  <2>3. WakeTime \in SimTime
    <3>1. Delay[Top.stmt] \in Nat
      BY <2>2, DesignAssumption
    <3>2. thr[Top.thr].time \in SimTime
      BY <2>2 DEF ThreadRec
    <3> QED BY <3>1, <3>2, TimeOfType, TimeIncType DEF WakeTime
  <2>4. frames' \in Seq(FrameRec)
    BY <1>1, <2>1, AdvanceType DEF ExecDelayStart
  <2>5. CASE now.final
    <3>1. thr' \in [Thread -> ThreadRec]
      BY <1>0, <1>1, <2>1, <2>5, ExecutedType DEF ExecDelayStart
    <3> QED BY <1>1, <2>4, <2>5, <3>1 DEF ExecDelayStart, TypeOK
  <2>6. CASE ~now.final
    <3> DEFINE r == [[thr[Top.thr] EXCEPT !.state = "DELAYED"] EXCEPT !.time = WakeTime]
    <3>1. r \in ThreadRec
      BY <2>2, <2>3 DEF ThreadRec, ThreadState
    <3>2. [thr EXCEPT ![Top.thr].state = "DELAYED", ![Top.thr].time = WakeTime]
            = [thr EXCEPT ![Top.thr] = r]
      BY <1>0, <2>2
    <3>3. [thr EXCEPT ![Top.thr] = r] \in [Thread -> ThreadRec]
      BY <1>0, <3>1
    <3> HIDE DEF r
    <3>4. thr' \in [Thread -> ThreadRec]
      <4> DEFINE T == [thr EXCEPT ![Top.thr] = r]
      <4>1. thr' = Executed(T)
        BY <1>1, <2>6, <3>2 DEF ExecDelayStart
      <4>2. T \in [Thread -> ThreadRec]
        BY <3>3
      <4> HIDE DEF T
      <4> QED BY <2>1, <4>1, <4>2, ExecutedType
    <3>5. active' \in Seq(Thread)
      BY <1>0, <1>1, <2>6, HeadTailProperties DEF ExecDelayStart
    <3>6. delayed' \in Seq(Thread)
      BY <1>0, <1>1, <2>2, <2>6, InsertType DEF ExecDelayStart
    <3> QED BY <1>1, <2>4, <3>4, <3>5, <3>6 DEF ExecDelayStart, TypeOK
  <2> QED BY <2>5, <2>6
<1>2. ASSUME ExecDelayEnd PROVE TypeOK'
  <2>1. Executing({"DELAY"})
    BY <1>2 DEF ExecDelayEnd, Evaluating
  <2>2. Executed(thr) \in [Thread -> ThreadRec]
    BY <1>0, <2>1, ExecutedType
  <2>3. active' \in Seq(Thread) /\ thr' \in [Thread -> ThreadRec]
    BY <1>0, <1>2, <2>1, <2>2, AssignType DEF ExecDelayEnd
  <2>4. DelayOver \in BOOLEAN
    BY DEF DelayOver, TimeCmpLE, TypeOK, SimTime
  <2>5. frames' \in Seq(FrameRec)
    BY <1>2, <2>1, <2>4, AdvanceType DEF ExecDelayEnd
  <2> QED BY <1>2, <2>3, <2>5 DEF ExecDelayEnd, TypeOK
<1> QED BY <1>1, <1>2

(* Calls and forks: a child thread. *)
LEMMA SpawnType == TypeOK /\ (ExecCall \/ ExecFork) => TypeOK'
<1> SUFFICES ASSUME TypeOK PROVE ExecCall \/ ExecFork => TypeOK'
  OBVIOUS
<1>1. ASSUME NEW ops, Executing(ops), NEW t \in Thread,
             AddChild(t, Top.thr, First[Target[Top.stmt]], Executed(thr))
      PROVE  /\ pool' \in Seq(Thread) /\ allNext' \in Thread \cup {NULL}
             /\ active' \in Seq(Thread) /\ thr' \in [Thread -> ThreadRec]
  <2>1. Executed(thr) \in [Thread -> ThreadRec]
    BY <1>1, ExecutedType DEF TypeOK
  <2>2. Top.thr \in Thread /\ First[Target[Top.stmt]] \in Stmt
    BY <1>1, ExecutingType, DesignAssumption
  <2> QED BY <1>1, <2>1, <2>2, AddChildType
<1>2. ASSUME ExecCall PROVE TypeOK'
  <2>1. Executing({"CALL"})
    BY <1>2 DEF ExecCall, Evaluating
  <2>2. frames' \in Seq(FrameRec)
    BY <1>2, <2>1, AdvanceType DEF ExecCall
  <2> QED BY <1>1, <1>2, <2>1, <2>2 DEF ExecCall, TypeOK
<1>3. ASSUME ExecFork PROVE TypeOK'
  <2>1. Executing({"FORK"})
    BY <1>3 DEF ExecFork, Evaluating
  <2>2. frames' \in Seq(FrameRec)
    BY <1>3, <2>1, AdvanceType DEF ExecFork
  <2> QED BY <1>1, <1>3, <2>1, <2>2 DEF ExecFork, TypeOK
<1> QED BY <1>2, <1>3

(* The loop ends: the thread dies or leaves the active queue. *)
LEMMA EndThreadType == TypeOK /\ (EndThread \/ SwitchThread) => TypeOK'
<1> SUFFICES ASSUME TypeOK PROVE EndThread \/ SwitchThread => TypeOK'
  OBVIOUS
<1>1. ASSUME LoopEnds
      PROVE  Top.thr \in Thread /\ Front(frames) \in Seq(FrameRec)
  BY <1>1, TopType, FrontType DEF LoopEnds, FrameRec, TypeOK
<1>2. ASSUME EndThread PROVE TypeOK'
  BY <1>1, <1>2, KillThreadType DEF EndThread, TypeOK
<1>3. ASSUME SwitchThread PROVE TypeOK'
  <2>1. Top.thr \in Thread /\ frames' \in Seq(FrameRec)
    BY <1>1, <1>3 DEF SwitchThread
  <2>2. CASE Op[thr[Top.thr].curr] # "DELAY" \/ now.final
    <3> DEFINE h == Head(active)
    <3>1. h \in Thread /\ active' \in Seq(Thread) /\ thr[h].curr # NULL
      BY <1>3, <2>2, HeadTailProperties DEF SwitchThread, TypeOK
    <3>2. thr[h] \in ThreadRec
      BY <3>1 DEF TypeOK
    <3>3. NextTrue[thr[h].curr] \in Stmt \cup {NULL}
      BY <3>1, <3>2, DesignAssumption DEF ThreadRec
    <3>4. Switched(thr[h]) \in ThreadRec
      BY <3>2, <3>3 DEF Switched, ThreadRec, ThreadState
    <3>5. thr' = [thr EXCEPT ![h] = Switched(thr[h])]
      BY <1>3, <2>2 DEF SwitchThread
    <3> HIDE DEF h
    <3>6. thr' \in [Thread -> ThreadRec]
      BY <3>1, <3>4, <3>5 DEF TypeOK
    <3> QED BY <1>3, <2>1, <3>1, <3>6 DEF SwitchThread, TypeOK
  <2>3. CASE ~(Op[thr[Top.thr].curr] # "DELAY" \/ now.final)
    <3>1. [thr[Top.thr] EXCEPT !.execFirst = TRUE] \in ThreadRec
      <4> DEFINE r == thr[Top.thr]
      <4>1. r \in ThreadRec
        BY <2>1 DEF TypeOK
      <4> HIDE DEF r
      <4>2. [r EXCEPT !.execFirst = TRUE] \in ThreadRec
        BY <4>1 DEF ThreadRec
      <4> QED BY <4>2 DEF r
    <3> QED BY <1>3, <2>1, <2>3, <3>1 DEF SwitchThread, TypeOK
  <2> QED BY <2>2, <2>3
<1> QED BY <1>2, <1>3

(* Every state of the scheduler is well-formed: whatever the design, the   *)
(* queues hold thread structures, times stay in their two words, and a     *)
(* thread points at a statement of the design or at none.                  *)
THEOREM TypeCorrect == Spec => []TypeOK
<1>1. Init => TypeOK
  BY InitType
<1>2. TypeOK /\ [Next]_vars => TypeOK'
  <2> SUFFICES ASSUME TypeOK, [Next]_vars PROVE TypeOK'
    OBVIOUS
  <2>1. CASE SimThread
    BY <2>1, BeginThreadType, CallFunctionType, SimpleOpType, DelayType, SpawnType,
       EndThreadType DEF SimThread
  <2>2. CASE StartBlock
    BY <2>2, StartBlockType
  <2>3. CASE EndRead \/ (\E n \in 0..MaxTime : Timestep(n)) \/ FinalTimestep
    BY <2>3, TimestepType
  <2>4. CASE PopDelayed \/ EndPass \/ PostAssign
    BY <2>4, PassType
  <2>5. CASE Terminated \/ UNCHANGED vars
    BY <2>5 DEF Terminated, vars, TypeOK
  <2> QED BY <2>1, <2>2, <2>3, <2>4, <2>5 DEF Next, Simulate
<1> QED BY <1>1, <1>2, PTL DEF Spec

-----------------------------------------------------------------------------
(* The pool *)

(* RemoveAt by its elements: position 0 stands for "not found" and removes *)
(* nothing.                                                                *)
LEMMA RemoveAtElements ==
  ASSUME NEW q \in Seq(Thread), NEW i \in 0..Len(q)
  PROVE  /\ RemoveAt(q, i) \in Seq(Thread)
         /\ Len(RemoveAt(q, i)) = IF i = 0 THEN Len(q) ELSE Len(q) - 1
         /\ \A j \in 1..Len(RemoveAt(q, i)) :
              RemoveAt(q, i)[j] = IF i = 0 \/ j < i THEN q[j] ELSE q[j + 1]
<1> DEFINE a == SubSeq(q, 1, i - 1)
           b == SubSeq(q, i + 1, Len(q))
<1>1. /\ a \in Seq(Thread) /\ Len(a) = IF 1 <= i - 1 THEN i - 1 ELSE 0
      /\ \A j \in 1..(i - 1) : a[j] = q[j]
  BY SubSeqProperties
<1>2. /\ b \in Seq(Thread) /\ Len(b) = Len(q) - i
      /\ \A j \in 1..(Len(q) - i) : b[j] = q[i + j]
  BY SubSeqProperties
<1>3. RemoveAt(q, i) = a \o b
  BY DEF RemoveAt
<1> HIDE DEF a, b
<1>4. /\ a \o b \in Seq(Thread) /\ Len(a \o b) = Len(a) + Len(b)
      /\ \A j \in 1..(Len(a) + Len(b)) :
           (a \o b)[j] = IF j <= Len(a) THEN a[j] ELSE b[j - Len(a)]
  BY <1>1, <1>2, ConcatProperties
<1>5. CASE i = 0
  BY <1>1, <1>2, <1>3, <1>4, <1>5
<1>6. CASE i # 0
  <2>1. Len(a) = i - 1 /\ Len(a \o b) = Len(q) - 1
    BY <1>1, <1>2, <1>4, <1>6
  <2>2. ASSUME NEW j \in 1..(Len(q) - 1)
        PROVE  (a \o b)[j] = IF j < i THEN q[j] ELSE q[j + 1]
    <3>1. CASE j < i
      BY <1>1, <1>4, <2>1, <3>1
    <3>2. CASE ~(j < i)
      <4>1. (a \o b)[j] = b[j - (i - 1)] /\ j - (i - 1) \in 1..(Len(q) - i)
        BY <1>2, <1>4, <2>1, <3>2
      <4>2. i + (j - (i - 1)) = j + 1
        OBVIOUS
      <4> QED BY <1>2, <3>2, <4>1, <4>2
    <3> QED BY <3>1, <3>2
  <2> QED BY <1>3, <1>4, <1>6, <2>1, <2>2
<1> QED BY <1>5, <1>6

(* Moving a structure to the end of a list keeps what is on it, adds the   *)
(* structure if it was not, and makes none appear twice.                   *)
LEMMA MoveToEnd ==
  ASSUME NEW q \in Seq(Thread), NEW t \in Thread, Distinct(q)
  PROVE  LET r == Append(RemoveAt(q, IndexIn(q, t)), t)
         IN  Distinct(r) /\ ToSet(r) = ToSet(q) \cup {t}
<1> DEFINE i == IndexIn(q, t)
           d == RemoveAt(q, i)
           r == Append(d, t)
<1>1. i \in 0..Len(q) /\ (i # 0 => q[i] = t) /\ (i = 0 => t \notin ToSet(q))
  <2> DEFINE I == {j \in 1..Len(q) : q[j] = t}
  <2>1. I # {} => Min(I) \in I
    <3>1. I \in SUBSET (1..Len(q)) /\ Len(q) \in Nat
      OBVIOUS
    <3> HIDE DEF I
    <3> QED BY <3>1, FirstPosition
  <2>2. IndexIn(q, t) = IF I # {} THEN Min(I) ELSE 0
    BY DEF IndexIn, SelectInSeq
  <2>3. IndexIn(q, t) = 0 => I = {}
    BY <2>1, <2>2
  <2>4. I = {} => t \notin ToSet(q)
    BY DEF ToSet
  <2> QED BY <2>3, <2>4, IndexInType
<1> HIDE DEF i
<1>2. /\ d \in Seq(Thread) /\ Len(d) = IF i = 0 THEN Len(q) ELSE Len(q) - 1
      /\ \A j \in 1..Len(d) : d[j] = IF i = 0 \/ j < i THEN q[j] ELSE q[j + 1]
  BY <1>1, RemoveAtElements
<1> HIDE DEF d
<1>3. /\ r \in Seq(Thread) /\ Len(r) = Len(d) + 1
      /\ r[Len(d) + 1] = t /\ \A j \in 1..Len(d) : r[j] = d[j]
  BY <1>2, AppendProperties
<1> HIDE DEF r
<1>4. /\ DOMAIN r = 1..(Len(d) + 1) /\ DOMAIN q = 1..Len(q)
      /\ Len(d) \in Nat /\ Len(q) \in Nat
  BY <1>2, <1>3
<1> DEFINE at(j) == IF i = 0 \/ j < i THEN j ELSE j + 1
<1>5. \A j \in 1..Len(d) : at(j) \in 1..Len(q) /\ at(j) # i /\ r[j] = q[at(j)]
  <2> SUFFICES ASSUME NEW j \in 1..Len(d)
               PROVE  at(j) \in 1..Len(q) /\ at(j) # i /\ r[j] = q[at(j)]
    OBVIOUS
  <2>1. r[j] = d[j] /\ d[j] = q[at(j)]
    BY <1>2, <1>3
  <2>2. at(j) \in 1..Len(q) /\ at(j) # i
    <3>1. CASE i = 0
      BY <1>2, <3>1
    <3>2. CASE i # 0
      <4>1. Len(d) = Len(q) - 1 /\ i \in 1..Len(q)
        BY <1>1, <1>2, <3>2
      <4> QED BY <1>4, <3>2, <4>1
    <3> QED BY <3>1, <3>2
  <2> QED BY <2>1, <2>2
<1>6. \A j, k \in 1..Len(d) : at(j) = at(k) => j = k
  BY <1>1, <1>4
<1>7. \A k \in 1..Len(q) : k # i => \E j \in 1..Len(d) : at(j) = k
  <2> SUFFICES ASSUME NEW k \in 1..Len(q), k # i
               PROVE  \E j \in 1..Len(d) : at(j) = k
    OBVIOUS
  <2>1. CASE i = 0 \/ k < i
    <3>1. CASE i = 0
      BY <1>2, <3>1
    <3>2. CASE i # 0 /\ k < i
      <4>1. Len(d) = Len(q) - 1 /\ i \in 1..Len(q)
        BY <1>1, <1>2, <3>2
      <4>2. k \in 1..Len(d) /\ at(k) = k
        BY <1>4, <3>2, <4>1
      <4> QED BY <4>2
    <3> QED BY <2>1, <3>1, <3>2
  <2>2. CASE i # 0 /\ k > i
    <3>1. Len(d) = Len(q) - 1 /\ i \in 1..Len(q)
      BY <1>1, <1>2, <2>2
    <3>2. k - 1 \in 1..Len(d) /\ ~(k - 1 < i) /\ (k - 1) + 1 = k
      BY <1>4, <2>2, <3>1
    <3>3. at(k - 1) = k
      BY <2>2, <3>2
    <3> QED BY <3>2, <3>3
  <2> QED BY <1>1, <1>4, <2>1, <2>2
<1> HIDE DEF at
<1>8. \A j \in 1..Len(d) : q[at(j)] # t
  <2> SUFFICES ASSUME NEW j \in 1..Len(d), q[at(j)] = t PROVE FALSE
    OBVIOUS
  <2>1. at(j) \in DOMAIN q /\ at(j) # i
    BY <1>4, <1>5
  <2>2. i # 0
    BY <1>1, <2>1 DEF ToSet
  <2>3. i \in DOMAIN q /\ q[i] = t
    BY <1>1, <1>4, <2>2
  <2> QED BY <2>1, <2>3 DEF Distinct
<1>9. \A j \in DOMAIN r : j \in 1..Len(d) \/ j = Len(d) + 1
  BY <1>4
<1>10. Distinct(r)
  <2> SUFFICES ASSUME NEW j \in DOMAIN r, NEW k \in DOMAIN r, r[j] = r[k]
               PROVE  j = k
    BY DEF Distinct
  <2>1. CASE j \in 1..Len(d) /\ k \in 1..Len(d)
    <3>1. q[at(j)] = q[at(k)] /\ at(j) \in DOMAIN q /\ at(k) \in DOMAIN q
      BY <1>4, <1>5, <2>1
    <3> QED BY <1>6, <2>1, <3>1 DEF Distinct
  <2>2. CASE ~(j \in 1..Len(d) /\ k \in 1..Len(d))
    BY <1>3, <1>5, <1>8, <1>9, <2>2
  <2> QED BY <2>1, <2>2
<1>11. \A j \in 1..Len(q) : q[j] \in ToSet(r)
  <2> SUFFICES ASSUME NEW j \in 1..Len(q) PROVE q[j] \in ToSet(r)
    OBVIOUS
  <2>1. CASE j = i
    BY <1>1, <1>3, <1>4, <2>1 DEF ToSet
  <2>2. CASE j # i
    BY <1>4, <1>5, <1>7, <2>2 DEF ToSet
  <2> QED BY <2>1, <2>2
<1>12. \A j \in DOMAIN r : r[j] \in ToSet(q) \cup {t}
  BY <1>3, <1>4, <1>5, <1>9 DEF ToSet
<1>13. t \in ToSet(r)
  BY <1>3, <1>4 DEF ToSet
<1>14. ToSet(r) = ToSet(q) \cup {t}
  BY <1>4, <1>11, <1>12, <1>13 DEF ToSet
<1> QED BY <1>10, <1>14 DEF r, d, i

LEMMA ParkPoolOnce ==
  ASSUME TypeOK, PoolOnce, NEW t \in Thread, Park(t)
  PROVE  PoolOnce'
<1>1. pool \in Seq(Thread) /\ Distinct(pool) /\ (allNext # NULL => allNext \in ToSet(pool))
  BY DEF TypeOK, PoolOnce
<1>2. Distinct(pool') /\ ToSet(pool') = ToSet(pool) \cup {t}
  BY <1>1, MoveToEnd DEF Park
<1>3. allNext' \in {allNext, t}
  BY DEF Park
<1> QED BY <1>1, <1>2, <1>3 DEF PoolOnce, Distinct

LEMMA AllocPoolOnce ==
  ASSUME TypeOK, PoolOnce, NEW t \in Thread, Alloc(t)
  PROVE  PoolOnce'
<1>1. pool \in Seq(Thread) /\ Distinct(pool)
  BY DEF TypeOK, PoolOnce
<1>2. CASE allNext = NULL
  <2>1. t \notin ToSet(pool) /\ pool' = Append(pool, t) /\ allNext' = NULL
    BY <1>2 DEF Alloc
  <2>2. /\ Len(pool') = Len(pool) + 1 /\ pool' \in Seq(Thread) /\ Len(pool) \in Nat
        /\ \A i \in 1..Len(pool) : pool'[i] = pool[i] /\ pool[i] # t
        /\ pool'[Len(pool) + 1] = t
    BY <1>1, <2>1, AppendProperties DEF ToSet
  <2>3. DOMAIN pool = 1..Len(pool) /\ DOMAIN pool' = 1..(Len(pool) + 1)
    BY <1>1, <2>2
  <2>4. \A i, j \in DOMAIN pool' : pool'[i] = pool'[j] => i = j
    BY <1>1, <2>2, <2>3 DEF Distinct
  <2> QED BY <2>1, <2>4 DEF PoolOnce, Distinct
<1>3. CASE allNext # NULL
  <2> DEFINE i == IndexIn(pool, t)
  <2>1. i \in 0..Len(pool)
    BY <1>1, IndexInType
  <2>2. i < Len(pool) => pool[i + 1] \in ToSet(pool)
    BY <1>1, <2>1 DEF ToSet
  <2>3. pool' = pool /\ (allNext' # NULL => allNext' \in ToSet(pool))
    BY <1>3, <2>2 DEF Alloc
  <2> QED BY <1>1, <2>3 DEF PoolOnce, Distinct
<1> QED BY <1>2, <1>3

(* The list of thread structures that sim_create_thread, sim_add_thread and *)
(* sim_kill_thread relink by hand stays a list without repetition: nothing  *)
(* is freed into it twice, and all_next never points outside of it.         *)
THEOREM PoolOnceAlways == Spec => []PoolOnce
<1>1. Init => PoolOnce
  BY DEF Init, PoolOnce, Distinct
<1>2. TypeOK /\ PoolOnce /\ [Next]_vars => PoolOnce'
  <2> SUFFICES ASSUME TypeOK, PoolOnce, [Next]_vars PROVE PoolOnce'
    OBVIOUS
  <2>1. CASE UNCHANGED <<pool, allNext>>
    BY <2>1 DEF PoolOnce, Distinct
  <2>2. CASE StartBlock
    BY <2>2, AllocPoolOnce DEF StartBlock
  <2>3. CASE CallFunction \/ ExecCall \/ ExecFork
    BY <2>3, AllocPoolOnce DEF CallFunction, ExecCall, ExecFork, AddChild
  <2>4. CASE EndThread
    <3>1. Top.thr \in Thread
      BY <2>4, TopType DEF EndThread, LoopEnds, FrameRec
    <3> QED BY <2>4, <3>1, ParkPoolOnce DEF EndThread, KillThread
  <2>5. CASE BeginThread \/ ExecAssign \/ ExecEvent \/ ExecDelayStart \/ ExecDelayEnd
    BY <2>1, <2>5 DEF BeginThread, ExecAssign, ExecEvent, ExecDelayStart, ExecDelayEnd
  <2>6. CASE ExecJoin \/ ExecDisable \/ ExecFinish \/ SwitchThread
    BY <2>1, <2>6 DEF ExecJoin, ExecDisable, ExecFinish, SwitchThread
  <2>7. CASE EndRead \/ (\E n \in 0..MaxTime : Timestep(n)) \/ FinalTimestep
    BY <2>1, <2>7 DEF EndRead, Timestep, FinalTimestep
  <2>8. CASE PopDelayed \/ EndPass \/ PostAssign \/ Terminated \/ UNCHANGED vars
    BY <2>1, <2>8 DEF PopDelayed, EndPass, PostAssign, Terminated, vars
  <2> QED BY <2>2, <2>3, <2>4, <2>5, <2>6, <2>7, <2>8 DEF Next, Simulate, SimThread
<1> QED BY <1>1, <1>2, TypeCorrect, PTL DEF Spec

-----------------------------------------------------------------------------
(* The threads: where they are and who waits for whom.                      *)

(* Sequences without repetition *)

LEMMA AppendDistinct ==
  ASSUME NEW q \in Seq(Thread), NEW t \in Thread
  PROVE  /\ ToSet(Append(q, t)) = ToSet(q) \cup {t}
         /\ Distinct(q) /\ t \notin ToSet(q) => Distinct(Append(q, t))
<1> DEFINE r == Append(q, t)
<1>1. /\ Len(r) = Len(q) + 1 /\ r \in Seq(Thread) /\ Len(q) \in Nat
      /\ \A i \in 1..Len(q) : r[i] = q[i]
      /\ r[Len(q) + 1] = t
  BY AppendProperties
<1> HIDE DEF r
<1>2. DOMAIN q = 1..Len(q) /\ DOMAIN r = 1..(Len(q) + 1)
  BY <1>1
<1>3. \A i \in DOMAIN r : i \in DOMAIN q \/ i = Len(q) + 1
  BY <1>1, <1>2
<1>4. ToSet(r) = ToSet(q) \cup {t}
  BY <1>1, <1>2, <1>3 DEF ToSet
<1>5. ASSUME Distinct(q), t \notin ToSet(q) PROVE Distinct(r)
  BY <1>1, <1>2, <1>3, <1>5 DEF Distinct, ToSet
<1> QED BY <1>4, <1>5 DEF r

LEMMA ConcatDistinct ==
  ASSUME NEW q \in Seq(Thread), NEW r \in Seq(Thread)
  PROVE  /\ q \o r \in Seq(Thread) /\ Len(q \o r) = Len(q) + Len(r)
         /\ \A i \in 1..Len(q) : (q \o r)[i] = q[i]
         /\ ToSet(q \o r) = ToSet(q) \cup ToSet(r)
         /\ Distinct(q) /\ Distinct(r) /\ ToSet(q) \cap ToSet(r) = {} => Distinct(q \o r)
<1> DEFINE c == q \o r
<1>1. /\ c \in Seq(Thread) /\ Len(c) = Len(q) + Len(r)
      /\ \A i \in 1..(Len(q) + Len(r)) : c[i] = IF i <= Len(q) THEN q[i] ELSE r[i - Len(q)]
  BY ConcatProperties
<1> HIDE DEF c
<1>2. /\ DOMAIN q = 1..Len(q) /\ DOMAIN r = 1..Len(r) /\ DOMAIN c = 1..(Len(q) + Len(r))
      /\ Len(q) \in Nat /\ Len(r) \in Nat
  BY <1>1
<1>3. \A i \in DOMAIN c : \/ i \in DOMAIN q /\ c[i] = q[i]
                          \/ i - Len(q) \in DOMAIN r /\ c[i] = r[i - Len(q)]
  BY <1>1, <1>2
<1>4. \A i \in DOMAIN q : i \in DOMAIN c /\ c[i] = q[i]
  BY <1>1, <1>2
<1>5. \A i \in DOMAIN r : i + Len(q) \in DOMAIN c /\ c[i + Len(q)] = r[i]
  BY <1>1, <1>2
<1>6. ToSet(c) = ToSet(q) \cup ToSet(r)
  <2>1. ToSet(c) \subseteq ToSet(q) \cup ToSet(r)
    BY <1>3 DEF ToSet
  <2>2. ToSet(q) \subseteq ToSet(c)
    BY <1>4 DEF ToSet
  <2>3. ToSet(r) \subseteq ToSet(c)
    BY <1>5 DEF ToSet
  <2> QED BY <2>1, <2>2, <2>3
<1>7. ASSUME Distinct(q), Distinct(r), ToSet(q) \cap ToSet(r) = {} PROVE Distinct(c)
  <2> SUFFICES ASSUME NEW i \in DOMAIN c, NEW j \in DOMAIN c, c[i] = c[j] PROVE i = j
    BY DEF Distinct
  <2>1. \A k \in DOMAIN q, l \in DOMAIN r : q[k] # r[l]
    BY <1>7 DEF ToSet
  <2>2. i \in Int /\ j \in Int
    BY <1>2
  <2>3. CASE i \in DOMAIN q /\ c[i] = q[i]
    BY <1>3, <1>7, <2>1, <2>3 DEF Distinct
  <2>4. CASE i - Len(q) \in DOMAIN r /\ c[i] = r[i - Len(q)]
    <3>1. j - Len(q) \in DOMAIN r /\ c[j] = r[j - Len(q)]
      BY <1>3, <2>1, <2>4
    <3>2. i - Len(q) = j - Len(q)
      BY <1>7, <2>4, <3>1 DEF Distinct
    <3> QED BY <1>2, <2>2, <3>2
  <2> QED BY <1>3, <2>3, <2>4
<1> QED BY <1>1, <1>4, <1>6, <1>7, <1>2 DEF c

LEMMA TailDistinct ==
  ASSUME NEW q \in Seq(Thread), q # <<>>, Distinct(q)
  PROVE  /\ Tail(q) \in Seq(Thread) /\ Distinct(Tail(q)) /\ Head(q) = q[1]
         /\ Len(q) >= 1 /\ Len(Tail(q)) = Len(q) - 1
         /\ \A i \in 1..(Len(q) - 1) : Tail(q)[i] = q[i + 1]
         /\ Head(q) \in ToSet(q)
         /\ ToSet(Tail(q)) = ToSet(q) \ {Head(q)}
<1> DEFINE r == Tail(q)
<1>1. /\ r \in Seq(Thread) /\ Len(r) = Len(q) - 1 /\ Head(q) = q[1]
      /\ \A i \in 1..Len(r) : r[i] = q[i + 1]
  BY HeadTailProperties
<1> HIDE DEF r
<1>2. /\ Len(q) \in Nat /\ Len(q) >= 1
      /\ DOMAIN q = 1..Len(q) /\ DOMAIN r = 1..(Len(q) - 1)
  BY <1>1
<1>3. \A i, j \in DOMAIN q : q[i] = q[j] => i = j
  BY DEF Distinct
<1>4. Distinct(r)
  <2> SUFFICES ASSUME NEW i \in DOMAIN r, NEW j \in DOMAIN r, r[i] = r[j] PROVE i = j
    BY DEF Distinct
  <2>1. q[i + 1] = q[j + 1] /\ i + 1 \in DOMAIN q /\ j + 1 \in DOMAIN q
    BY <1>1, <1>2
  <2>2. i + 1 = j + 1
    BY <1>3, <2>1
  <2> QED BY <1>2, <2>2
<1>5. \A i \in DOMAIN r : i + 1 \in DOMAIN q /\ i + 1 # 1 /\ r[i] = q[i + 1]
  BY <1>1, <1>2
<1>6. \A i \in DOMAIN q : i # 1 => i - 1 \in DOMAIN r /\ r[i - 1] = q[i]
  BY <1>1, <1>2
<1>7. ToSet(r) = ToSet(q) \ {q[1]}
  <2>1. ToSet(r) \subseteq ToSet(q) \ {q[1]}
    BY <1>2, <1>3, <1>5 DEF ToSet
  <2>2. ToSet(q) \ {q[1]} \subseteq ToSet(r)
    BY <1>6 DEF ToSet
  <2> QED BY <2>1, <2>2
<1>8. q[1] \in ToSet(q)
  BY <1>2 DEF ToSet
<1> QED BY <1>1, <1>2, <1>4, <1>7, <1>8 DEF r

LEMMA InsertDistinct ==
  ASSUME NEW q \in Seq(Thread), NEW t \in Thread, NEW i \in 1..(Len(q) + 1)
  PROVE  LET r == InsertAt(q, i, t)
         IN  /\ r \in Seq(Thread) /\ Len(r) = Len(q) + 1
             /\ \A j \in 1..(i - 1) : r[j] = q[j]
             /\ r[i] = t
             /\ \A j \in i..Len(q) : r[j + 1] = q[j]
             /\ ToSet(r) = ToSet(q) \cup {t}
             /\ Distinct(q) /\ t \notin ToSet(q) => Distinct(r)
<1> DEFINE r == InsertAt(q, i, t)
           a == SubSeq(q, 1, i - 1)
           b == SubSeq(q, i, Len(q))
<1>1. a \in Seq(Thread) /\ Len(a) = i - 1 /\ \A j \in 1..(i - 1) : a[j] = q[j]
  BY SubSeqProperties
<1>2. b \in Seq(Thread) /\ Len(b) = Len(q) - i + 1 /\ \A j \in 1..(Len(q) - i + 1) : b[j] = q[i + j - 1]
  BY SubSeqProperties
<1>3. r = a \o <<t>> \o b
  BY DEF InsertAt
<1> HIDE DEF r, a, b
<1>4. <<t>> \in Seq(Thread) /\ Len(<<t>>) = 1 /\ <<t>>[1] = t
  OBVIOUS
<1> DEFINE c == a \o <<t>>
<1>5. /\ c \in Seq(Thread) /\ Len(c) = i
      /\ \A j \in 1..(i - 1) : c[j] = q[j]
      /\ c[i] = t
  BY <1>1, <1>4, ConcatProperties
<1>6. r = c \o b
  BY <1>3
<1> HIDE DEF c
<1>7. /\ r \in Seq(Thread) /\ Len(r) = Len(q) + 1
      /\ \A j \in 1..(Len(q) + 1) : r[j] = IF j <= i THEN c[j] ELSE b[j - i]
  <2>1. /\ c \o b \in Seq(Thread) /\ Len(c \o b) = Len(c) + Len(b)
        /\ \A j \in 1..(Len(c) + Len(b)) :
             (c \o b)[j] = IF j <= Len(c) THEN c[j] ELSE b[j - Len(c)]
    BY <1>2, <1>5, ConcatProperties
  <2>2. Len(c) = i /\ Len(c) + Len(b) = Len(q) + 1
    BY <1>2, <1>5
  <2> QED BY <1>6, <2>1, <2>2
<1>8. \A j \in 1..(i - 1) : r[j] = q[j]
  BY <1>5, <1>7
<1>9. r[i] = t
  BY <1>5, <1>7
<1>10. \A j \in i..Len(q) : r[j + 1] = q[j]
  <2> SUFFICES ASSUME NEW j \in i..Len(q) PROVE r[j + 1] = q[j]
    OBVIOUS
  <2>1. r[j + 1] = b[(j + 1) - i]
    BY <1>7
  <2>2. b[(j + 1) - i] = q[i + ((j + 1) - i) - 1]
    BY <1>2
  <2>3. i + ((j + 1) - i) - 1 = j
    OBVIOUS
  <2> QED BY <2>1, <2>2, <2>3
<1>11. DOMAIN r = 1..(Len(q) + 1) /\ DOMAIN q = 1..Len(q) /\ Len(q) \in Nat
  BY <1>7
<1> DEFINE at(j) == IF j < i THEN j ELSE j - 1
<1>12. \A j \in DOMAIN r : j # i => at(j) \in DOMAIN q /\ r[j] = q[at(j)]
  <2> SUFFICES ASSUME NEW j \in DOMAIN r, j # i PROVE at(j) \in DOMAIN q /\ r[j] = q[at(j)]
    OBVIOUS
  <2>1. CASE j < i
    BY <1>8, <1>11, <2>1
  <2>2. CASE ~(j < i)
    <3>1. j - 1 \in i..Len(q) /\ (j - 1) + 1 = j
      BY <1>11, <2>2
    <3> QED BY <1>10, <1>11, <2>2, <3>1
  <2> QED BY <2>1, <2>2
<1>13. \A j, k \in DOMAIN r : j # i /\ k # i /\ at(j) = at(k) => j = k
  BY <1>11
<1> HIDE DEF at
<1>14. ToSet(r) = ToSet(q) \cup {t}
  <2>1. ToSet(r) \subseteq ToSet(q) \cup {t}
    BY <1>9, <1>12 DEF ToSet
  <2>2. t \in ToSet(r)
    BY <1>9, <1>11 DEF ToSet
  <2>3. ToSet(q) \subseteq ToSet(r)
    <3> SUFFICES ASSUME NEW j \in DOMAIN q PROVE q[j] \in ToSet(r)
      BY DEF ToSet
    <3>1. CASE j < i
      BY <1>8, <1>11, <3>1 DEF ToSet
    <3>2. CASE ~(j < i)
      <4>1. j \in i..Len(q) /\ j + 1 \in DOMAIN r
        BY <1>11, <3>2
      <4> QED BY <1>10, <4>1 DEF ToSet
    <3> QED BY <3>1, <3>2
  <2> QED BY <2>1, <2>2, <2>3
<1>15. ASSUME Distinct(q), t \notin ToSet(q) PROVE Distinct(r)
  <2> SUFFICES ASSUME NEW j \in DOMAIN r, NEW k \in DOMAIN r, r[j] = r[k] PROVE j = k
    BY DEF Distinct
  <2>1. \A m \in DOMAIN r : m # i => r[m] # t
    BY <1>12, <1>15 DEF ToSet
  <2>2. CASE j = i \/ k = i
    BY <1>9, <2>1, <2>2
  <2>3. CASE j # i /\ k # i
    BY <1>12, <1>13, <1>15, <2>3 DEF Distinct
  <2> QED BY <2>2, <2>3
<1> QED BY <1>7, <1>8, <1>9, <1>10, <1>14, <1>15 DEF r

(* The position of a thread in a queue, and what stands behind it. *)
LEMMA IndexInDistinct ==
  ASSUME NEW q \in Seq(Thread), Distinct(q), NEW t
  PROVE  /\ IndexIn(q, t) \in 0..Len(q)
         /\ t \in ToSet(q) <=> IndexIn(q, t) # 0
         /\ \A i \in 1..Len(q) : q[i] = t <=> IndexIn(q, t) = i
<1> DEFINE I == {j \in 1..Len(q) : q[j] = t}
<1>1. IndexIn(q, t) \in 0..Len(q) /\ (IndexIn(q, t) # 0 => q[IndexIn(q, t)] = t)
  BY IndexInType
<1>2. I # {} => Min(I) \in I
  <2>1. I \in SUBSET (1..Len(q)) /\ Len(q) \in Nat
    OBVIOUS
  <2> HIDE DEF I
  <2> QED BY <2>1, FirstPosition
<1>3. IndexIn(q, t) = IF I # {} THEN Min(I) ELSE 0
  BY DEF IndexIn, SelectInSeq
<1>4. I # {} => IndexIn(q, t) # 0
  BY <1>2, <1>3
<1>5. \A i \in 1..Len(q) : q[i] = t => IndexIn(q, t) # 0
  BY <1>4
<1>6. DOMAIN q = 1..Len(q)
  OBVIOUS
<1> HIDE DEF I
<1>7. \A i \in 1..Len(q) : q[i] = t <=> IndexIn(q, t) = i
  BY <1>1, <1>5, <1>6 DEF Distinct
<1>8. t \in ToSet(q) <=> IndexIn(q, t) # 0
  BY <1>1, <1>5, <1>6 DEF ToSet
<1> QED BY <1>1, <1>7, <1>8

(* An enumeration of a set has its elements, each once. *)
LEMMA EnumerationDistinct ==
  ASSUME NEW S \in SUBSET Thread, IsFiniteSet(S), NEW q \in SetToSeqs(S)
  PROVE  q \in Seq(Thread) /\ Distinct(q) /\ ToSet(q) = S
<1> DEFINE n == Cardinality(S)
<1>1. n \in Nat
  BY FS_CardinalityType
<1>2. /\ q \in [1..n -> S] /\ \A i, j \in 1..n : i # j => q[i] # q[j]
  BY DEF SetToSeqs
<1>3. q \in Seq(Thread) /\ Distinct(q)
  BY <1>1, <1>2 DEF Distinct
<1>4. q \in Injection(1..n, S)
  BY <1>2 DEF Injection, IsInjective
<1>5. IsFiniteSet(1..n) /\ Cardinality(1..n) = n
  BY <1>1, FS_Interval
<1> HIDE DEF n
<1>6. q \in Surjection(1..n, S)
  BY <1>4, <1>5, FS_Injection DEF n
<1>7. ToSet(q) = S
  BY <1>2, <1>6 DEF ToSet, Surjection
<1> QED BY <1>3, <1>7

-----------------------------------------------------------------------------
(* The live threads *)

(* The structures in front of a, or all of them. *)
InFrontOf(p, a) == IF a = NULL THEN ToSet(p) ELSE ToSet(SubSeq(p, 1, IndexIn(p, a) - 1))

(* They are those at the first positions of the list. *)
LEMMA FrontPositions ==
  ASSUME NEW p \in Seq(Thread), Distinct(p), NEW a, a # NULL => a \in ToSet(p)
  PROVE  \E n \in 0..Len(p) :
           /\ InFrontOf(p, a) = {p[i] : i \in 1..n}
           /\ a = NULL => n = Len(p)
           /\ a # NULL => n < Len(p) /\ a = p[n + 1]
<1>1. DOMAIN p = 1..Len(p) /\ Len(p) \in Nat
  OBVIOUS
<1>2. CASE a = NULL
  <2>1. InFrontOf(p, a) = {p[i] : i \in 1..Len(p)}
    BY <1>1, <1>2 DEF InFrontOf, ToSet
  <2>2. Len(p) \in 0..Len(p)
    BY <1>1
  <2> QED BY <1>2, <2>1, <2>2
<1>3. CASE a # NULL
  <2> DEFINE n == IndexIn(p, a) - 1
  <2>1. n \in 0..Len(p) /\ n < Len(p) /\ p[n + 1] = a
    BY <1>1, <1>3, IndexInDistinct, IndexInType
  <2>2. SubSeq(p, 1, n) \in Seq(Thread) /\ Len(SubSeq(p, 1, n)) = n
    BY <1>1, <2>1, SubSeqProperties
  <2>3. \A i \in 1..n : SubSeq(p, 1, n)[i] = p[i]
    BY <1>1, <2>1, SubSeqProperties
  <2>4. DOMAIN SubSeq(p, 1, n) = 1..n
    BY <2>2
  <2>5. InFrontOf(p, a) = {p[i] : i \in 1..n}
    BY <1>3, <2>3, <2>4 DEF InFrontOf, ToSet
  <2> QED BY <1>3, <2>1, <2>5
<1> QED BY <1>2, <1>3

LEMMA LiveFront ==
  Live = InFrontOf(pool, allNext) /\ Live' = InFrontOf(pool', allNext')
  BY DEF Live, InFrontOf

LEMMA PoolEqual ==
  ASSUME UNCHANGED <<pool, allNext>>
  PROVE  Live' = Live
  BY LiveFront

(* The first free structure is taken. *)
LEMMA FrontGrows ==
  ASSUME NEW p \in Seq(Thread), Distinct(p), NEW a \in Thread, a \in ToSet(p),
         NEW b, b = (IF IndexIn(p, a) < Len(p) THEN p[IndexIn(p, a) + 1] ELSE NULL)
  PROVE  a \notin InFrontOf(p, a) /\ InFrontOf(p, b) = InFrontOf(p, a) \cup {a}
<1>1. DOMAIN p = 1..Len(p) /\ Len(p) \in Nat /\ NULL \notin Thread
  BY DesignAssumption
<1>2. PICK n \in 0..Len(p) :
        InFrontOf(p, a) = {p[i] : i \in 1..n} /\ n < Len(p) /\ a = p[n + 1]
  BY <1>1, FrontPositions
<1>3. IndexIn(p, a) = n + 1
  BY <1>1, <1>2, IndexInDistinct
<1>4. CASE n + 1 < Len(p)
  <2>1. b = p[n + 2] /\ n + 2 \in 1..Len(p) /\ b # NULL /\ b \in ToSet(p)
    BY <1>1, <1>3, <1>4 DEF ToSet
  <2>2. PICK m \in 0..Len(p) :
          InFrontOf(p, b) = {p[i] : i \in 1..m} /\ m < Len(p) /\ b = p[m + 1]
    BY <2>1, FrontPositions
  <2>3. m + 1 \in DOMAIN p /\ n + 2 \in DOMAIN p /\ p[m + 1] = p[n + 2]
    BY <1>1, <2>1, <2>2
  <2>4. m = n + 1
    <3>1. m + 1 = n + 2
      BY <2>3 DEF Distinct
    <3> QED BY <3>1
  <2>5. \A i \in 1..n : p[i] # a
    BY <1>1, <1>2 DEF Distinct
  <2> QED BY <1>2, <2>2, <2>4, <2>5
<1>5. CASE ~(n + 1 < Len(p))
  <2>1. b = NULL /\ n + 1 = Len(p)
    BY <1>2, <1>3, <1>5
  <2>2. InFrontOf(p, b) = {p[i] : i \in 1..(n + 1)}
    BY <1>1, <2>1 DEF InFrontOf, ToSet
  <2>3. \A i \in 1..n : p[i] # a
    BY <1>1, <1>2 DEF Distinct
  <2> QED BY <1>2, <2>2, <2>3
<1> QED BY <1>4, <1>5

(* A thread that is created was free. *)
LEMMA AllocLive ==
  ASSUME TypeOK, PoolOnce, NEW t \in Thread, Alloc(t)
  PROVE  t \notin Live /\ Live' = Live \cup {t}
<1>1. /\ pool \in Seq(Thread) /\ Distinct(pool) /\ (allNext # NULL => allNext \in ToSet(pool))
  BY DEF TypeOK, PoolOnce
<1>2. CASE allNext = NULL
  <2>1. t \notin ToSet(pool) /\ pool' = Append(pool, t) /\ allNext' = NULL
    BY <1>2 DEF Alloc
  <2>2. Live = ToSet(pool) /\ Live' = ToSet(pool')
    BY <1>2, <2>1, LiveFront DEF InFrontOf
  <2> QED BY <1>1, <2>1, <2>2, AppendDistinct
<1>3. CASE allNext # NULL
  <2>1. /\ t = allNext /\ pool' = pool
        /\ allNext' = IF IndexIn(pool, t) < Len(pool) THEN pool[IndexIn(pool, t) + 1] ELSE NULL
    BY <1>3 DEF Alloc
  <2> QED BY <1>1, <1>3, <2>1, LiveFront, FrontGrows
<1> QED BY <1>2, <1>3

(* A thread that is freed leaves the front of the list. *)
LEMMA FrontShrinks ==
  ASSUME NEW p \in Seq(Thread), Distinct(p), NEW a, a # NULL => a \in ToSet(p),
         NEW t \in InFrontOf(p, a)
  PROVE  InFrontOf(Append(RemoveAt(p, IndexIn(p, t)), t), IF a = NULL THEN t ELSE a)
           = InFrontOf(p, a) \ {t}
<1>1. DOMAIN p = 1..Len(p) /\ Len(p) \in Nat
  OBVIOUS
<1>2. PICK n \in 0..Len(p) :
        /\ InFrontOf(p, a) = {p[i] : i \in 1..n}
        /\ a = NULL => n = Len(p)
        /\ a # NULL => n < Len(p) /\ a = p[n + 1]
  BY FrontPositions
<1> DEFINE i == IndexIn(p, t)
           d == RemoveAt(p, i)
           r == Append(d, t)
           b == IF a = NULL THEN t ELSE a
<1>3. i \in 1..n /\ p[i] = t /\ t \in Thread
  <2>1. PICK j \in 1..n : p[j] = t
    BY <1>2
  <2>2. j \in 1..Len(p)
    BY <2>1
  <2>3. i = j
    BY <2>1, <2>2, IndexInDistinct
  <2> QED BY <1>1, <2>1, <2>2, <2>3
<1> HIDE DEF i
<1>4. /\ d \in Seq(Thread) /\ Len(d) = Len(p) - 1
      /\ \A j \in 1..(Len(p) - 1) : d[j] = IF j < i THEN p[j] ELSE p[j + 1]
  <2>1. i \in 1..Len(p)
    BY <1>3
  <2> HIDE DEF d
  <2>2. /\ RemoveAt(p, i) \in Seq(Thread) /\ Len(RemoveAt(p, i)) = Len(p) - 1
        /\ \A j \in 1..(Len(p) - 1) :
             RemoveAt(p, i)[j] = IF j < i THEN p[j] ELSE p[j + 1]
    BY <2>1, RemoveAtElements
  <2> QED BY <2>2 DEF d
<1> HIDE DEF d
<1>5. /\ r \in Seq(Thread) /\ Len(r) = Len(p) /\ r[Len(p)] = t
      /\ \A j \in 1..(Len(p) - 1) : r[j] = IF j < i THEN p[j] ELSE p[j + 1]
  <2>1. Len(d) + 1 = Len(p)
    BY <1>1, <1>4
  <2> QED BY <1>3, <1>4, <2>1, AppendProperties
<1>6. Distinct(r) /\ ToSet(r) = ToSet(p) \cup {t}
  BY <1>3, MoveToEnd DEF r, d, i
<1> HIDE DEF r
<1>7. b # NULL /\ b \in ToSet(r)
  <2>1. CASE a = NULL
    BY <1>3, <1>6, <2>1, DesignAssumption
  <2>2. CASE a # NULL
    BY <1>6, <2>2
  <2> QED BY <2>1, <2>2
<1> HIDE DEF b
<1>8. PICK m \in 0..Len(r) :
        InFrontOf(r, b) = {r[j] : j \in 1..m} /\ m < Len(r) /\ b = r[m + 1]
  <2>1. r \in Seq(Thread) /\ Distinct(r) /\ b \in ToSet(r) /\ b # NULL
    BY <1>5, <1>6, <1>7
  <2> QED BY <2>1, FrontPositions
<1>9. r[n] = b
  <2>1. CASE a = NULL
    BY <1>2, <1>5, <2>1 DEF b
  <2>2. CASE a # NULL
    <3>1. n \in 1..(Len(p) - 1) /\ ~(n < i)
      BY <1>2, <1>3, <2>2
    <3> QED BY <1>2, <1>5, <2>2, <3>1 DEF b
  <2> QED BY <2>1, <2>2
<1>10. n = m + 1
  <2>1. n \in DOMAIN r /\ m + 1 \in DOMAIN r
    BY <1>1, <1>3, <1>5, <1>8
  <2> QED BY <1>6, <1>8, <1>9, <2>1 DEF Distinct
<1>11. {r[j] : j \in 1..m} \subseteq {p[j] : j \in 1..n} \ {t}
  <2> SUFFICES ASSUME NEW j \in 1..m PROVE r[j] \in {p[k] : k \in 1..n} \ {t}
    OBVIOUS
  <2> DEFINE k == IF j < i THEN j ELSE j + 1
  <2>1. j \in 1..(Len(p) - 1) /\ k \in 1..n /\ k # i /\ r[j] = p[k]
    BY <1>3, <1>5, <1>10
  <2> HIDE DEF k
  <2>2. p[k] # t
    <3>1. k \in DOMAIN p /\ i \in DOMAIN p
      BY <1>1, <1>3, <2>1
    <3> QED BY <1>3, <2>1, <3>1 DEF Distinct
  <2> QED BY <2>1, <2>2
<1>12. {p[j] : j \in 1..n} \ {t} \subseteq {r[j] : j \in 1..m}
  <2> SUFFICES ASSUME NEW k \in 1..n, p[k] # t PROVE \E j \in 1..m : r[j] = p[k]
    OBVIOUS
  <2>1. k # i
    BY <1>3
  <2>2. CASE k < i
    <3>1. k \in 1..m /\ k \in 1..(Len(p) - 1)
      BY <1>3, <1>10, <2>2
    <3> QED BY <1>5, <2>2, <3>1
  <2>3. CASE k > i
    <3>1. k - 1 \in 1..m /\ k - 1 \in 1..(Len(p) - 1) /\ ~(k - 1 < i) /\ (k - 1) + 1 = k
      BY <1>3, <1>10, <2>3
    <3> QED BY <1>5, <3>1
  <2> QED BY <1>3, <2>1, <2>2, <2>3
<1>13. InFrontOf(r, b) = InFrontOf(p, a) \ {t}
  BY <1>2, <1>8, <1>11, <1>12
<1> QED BY <1>13 DEF r, d, i, b

LEMMA ParkLive ==
  ASSUME TypeOK, PoolOnce, NEW t \in Live, Park(t)
  PROVE  Live' = Live \ {t}
<1>1. pool \in Seq(Thread) /\ Distinct(pool) /\ (allNext # NULL => allNext \in ToSet(pool))
  BY DEF TypeOK, PoolOnce
<1>2. /\ pool' = Append(RemoveAt(pool, IndexIn(pool, t)), t)
      /\ allNext' = IF allNext = NULL THEN t ELSE allNext
  BY DEF Park
<1> QED BY <1>1, <1>2, LiveFront, FrontShrinks

-----------------------------------------------------------------------------
(* The inductive invariant, in named parts *)

(* The threads that wait for the one that runs, without it. *)
CallersIn(F) == {F[i].thr : i \in 1..(Len(F) - 1)}

(* QueuesMatchStates, thread by thread; a free structure is not delayed. *)
Placed ==
  /\ ToSet(active) \subseteq Live /\ ToSet(delayed) \subseteq Live
  /\ Distinct(active) /\ Distinct(delayed)
  /\ \A t \in Live : thr[t].state = "ACTIVE" <=> t \in ToSet(active) \cup CallersIn(frames)
  /\ \A t \in Live : thr[t].state = "DELAYED" <=> t \in ToSet(delayed)
  /\ \A t \in Thread \ Live : thr[t].state # "DELAYED"

Linked ==
  /\ Running \subseteq Live
  /\ \A t \in Live : thr[t].parent # NULL => thr[t].parent \in Live

(* The calls of sim_thread in progress: each but the first runs a function  *)
(* for the one before it, which has no other child.                         *)
Chained ==
  /\ frames # <<>> => phase = "sim"
  /\ \A i, j \in 1..Len(frames) : frames[i].thr = frames[j].thr => i = j
  /\ \A i \in 1..(Len(frames) - 1) :
       /\ frames[i].stmt # NULL /\ Op[frames[i].stmt] \notin {"FORK", "JOIN"}
       /\ thr[frames[i].thr].state = "ACTIVE" /\ thr[frames[i].thr].children = 1
       /\ thr[frames[i + 1].thr].parent = frames[i].thr
  /\ \A i \in 2..Len(frames) :
       /\ thr[frames[i].thr].curr # NULL /\ FunitOf[thr[frames[i].thr].curr] \in Functions
       /\ frames[i].stmt # NULL => FunitOf[frames[i].stmt] \in Functions

(* The frames from number k on stand at the head of the active queue, those *)
(* before it are in no queue.                                               *)
AtHead(k) ==
  /\ Len(frames) - k + 1 <= Len(active)
  /\ \A i \in k..Len(frames) : active[i - k + 1] = frames[i].thr
  /\ \A i \in 1..(k - 1) : frames[i].thr \notin ToSet(active)

HeadRuns ==
  frames # <<>> => \/ \E k \in 1..Len(frames) : AtHead(k)
                  \/ thr[Top.thr].state = "DELAYED"

(* The running thread is only not active when it has just delayed itself.  *)
DelayedTop ==
  frames # <<>> /\ thr[Top.thr].state # "ACTIVE" =>
    /\ thr[Top.thr].state = "DELAYED" /\ Len(frames) = 1
    /\ Top.stmt = NULL /\ ~Top.chg /\ thr[Top.thr].curr # NULL
    /\ Op[thr[Top.thr].curr] = "DELAY"
    /\ ~thr[Top.thr].kill /\ simulate /\ ~now.final

(* It only has children while it forks, or has just called or joined.      *)
BusyTop ==
  frames # <<>> /\ thr[Top.thr].children > 0 =>
    /\ Len(frames) = 1 /\ thr[Top.thr].state = "ACTIVE"
    /\ ~thr[Top.thr].kill /\ simulate
    /\ \/ Top.stmt # NULL /\ Op[Top.stmt] \in {"FORK", "JOIN"}
       \/ /\ Top.stmt = NULL /\ ~Top.chg /\ thr[Top.thr].curr # NULL
          /\ Op[thr[Top.thr].curr] \in {"CALL", "JOIN"}

(* What the end of a block says of its last statement. *)
EndedTop ==
  frames # <<>> /\ Top.stmt = NULL /\ thr[Top.thr].curr # NULL =>
    LET s == thr[Top.thr].curr IN
    /\ Op[s] \in {"ASSIGN", "DISABLE"} => Top.chg
    /\ Op[s] \notin {"VALUE", "STOP", "FORK"}
    /\ Op[s] = "FINISH" => ~simulate
    /\ (Op[s] = "JOIN" /\ ~Top.chg) \/ Op[s] = "CALL" => thr[Top.thr].children > 0

ThreadsInv ==
  /\ TypeOK /\ PoolOnce /\ Placed /\ Linked /\ ChildrenSound
  /\ Chained /\ HeadRuns /\ DelayedTop /\ BusyTop /\ EndedTop /\ WaitsWhereWoken

(* A delay or a call whose expression is waiting for a function will not    *)
(* find itself killed or the simulation ended when it goes on: what runs    *)
(* meanwhile is calm.  A function is called where one is to be called.      *)
CalmUnits == CHOOSE Q \in SUBSET Funit : Calm(Q)

GoesOn(i) ==
  /\ simulate /\ ~thr[frames[i].thr].kill
  /\ \A j \in 1..Len(frames) :
       j > i /\ frames[j].stmt # NULL => FunitOf[frames[j].stmt] \in CalmUnits

Undisturbed ==
  \A i \in 1..Len(frames) : frames[i].called =>
    /\ frames[i].stmt # NULL /\ Func[frames[i].stmt] # NULL
    /\ Op[frames[i].stmt] \in {"DELAY", "CALL"} => GoesOn(i)

-----------------------------------------------------------------------------
(* What the steps of sim_thread change *)

LEMMA FramesType ==
  ASSUME TypeOK
  PROVE  /\ frames \in Seq(FrameRec) /\ Len(frames) \in Nat /\ DOMAIN frames = 1..Len(frames)
         /\ \A i \in 1..Len(frames) : /\ frames[i] \in FrameRec /\ frames[i].thr \in Thread
                                      /\ thr[frames[i].thr] \in ThreadRec
         /\ frames # <<>> => Len(frames) \in 1..Len(frames) /\ Top = frames[Len(frames)]
<1>1. frames \in Seq(FrameRec) /\ thr \in [Thread -> ThreadRec]
  BY DEF TypeOK
<1>2. Len(frames) \in Nat /\ DOMAIN frames = 1..Len(frames)
  BY <1>1
<1>3. \A i \in 1..Len(frames) : frames[i] \in FrameRec
  BY <1>1
<1>4. \A i \in 1..Len(frames) : frames[i].thr \in Thread
  BY <1>3 DEF FrameRec
<1>5. frames # <<>> => Len(frames) \in 1..Len(frames)
  BY <1>1
<1> QED BY <1>1, <1>2, <1>3, <1>4, <1>5 DEF Top

(* The bookkeeping after each statement keeps all but curr and execFirst.  *)
LEMMA ExecutedEffect ==
  ASSUME TypeOK, NEW ops, Executing(ops), NEW T \in [Thread -> ThreadRec]
  PROVE  /\ Executed(T) \in [Thread -> ThreadRec]
         /\ \A u \in Thread : /\ Executed(T)[u].state = T[u].state
                              /\ Executed(T)[u].parent = T[u].parent
                              /\ Executed(T)[u].children = T[u].children
                              /\ Executed(T)[u].kill = T[u].kill
                              /\ Executed(T)[u].time = T[u].time
                              /\ u # Top.thr => Executed(T)[u].curr = T[u].curr
         /\ Executed(T)[Top.thr].curr = Top.stmt
<1>1. Executed(T) \in [Thread -> ThreadRec]
  BY ExecutedType
<1>2. Top.thr \in Thread /\ Top.stmt \in Stmt
  BY ExecutingType
<1> DEFINE r == [[T[Top.thr] EXCEPT !.curr = Top.stmt] EXCEPT !.execFirst = FALSE]
<1>3. Executed(T) = [T EXCEPT ![Top.thr] = r]
  BY <1>2 DEF Executed
<1>4. \A u \in Thread : T[u] \in ThreadRec
  OBVIOUS
<1>5. /\ r.state = T[Top.thr].state /\ r.parent = T[Top.thr].parent
      /\ r.children = T[Top.thr].children /\ r.kill = T[Top.thr].kill
      /\ r.time = T[Top.thr].time /\ r.curr = Top.stmt
  BY <1>2, <1>4 DEF ThreadRec
<1> HIDE DEF r
<1>6. \A u \in Thread : Executed(T)[u] = IF u = Top.thr THEN r ELSE T[u]
  BY <1>2, <1>3
<1> QED BY <1>1, <1>2, <1>5, <1>6

LEMMA PushedEffect ==
  ASSUME NEW T \in [Thread -> ThreadRec], NEW q, NEW tm \in SimTime
  PROVE  /\ Pushed(T, q, tm) \in [Thread -> ThreadRec]
         /\ \A u \in Thread :
              /\ Pushed(T, q, tm)[u].state = IF u \in ToSet(q) THEN "ACTIVE" ELSE T[u].state
              /\ Pushed(T, q, tm)[u].parent = T[u].parent
              /\ Pushed(T, q, tm)[u].children = T[u].children
              /\ Pushed(T, q, tm)[u].kill = T[u].kill
              /\ Pushed(T, q, tm)[u].curr = T[u].curr
<1>1. Pushed(T, q, tm) \in [Thread -> ThreadRec]
  BY PushedType
<1>2. ASSUME NEW u \in Thread
      PROVE  /\ Pushed(T, q, tm)[u].state = IF u \in ToSet(q) THEN "ACTIVE" ELSE T[u].state
             /\ Pushed(T, q, tm)[u].parent = T[u].parent
             /\ Pushed(T, q, tm)[u].children = T[u].children
             /\ Pushed(T, q, tm)[u].kill = T[u].kill
             /\ Pushed(T, q, tm)[u].curr = T[u].curr
  <2>1. T[u] \in ThreadRec
    OBVIOUS
  <2>2. CASE u \notin ToSet(q)
    BY <2>2 DEF Pushed
  <2>3. CASE u \in ToSet(q)
    <3> DEFINE t2 == IF Op[T[u].curr] \in {"EVENT", "COMB", "WAIT"} THEN tm ELSE T[u].time
    <3>1. Pushed(T, q, tm)[u] = [T[u] EXCEPT !.state = "ACTIVE", !.time = t2]
      BY <2>3 DEF Pushed
    <3> HIDE DEF t2
    <3> QED BY <2>1, <2>3, <3>1 DEF ThreadRec
  <2> QED BY <2>2, <2>3
<1> QED BY <1>1, <1>2

(* Threads that wait are woken and put behind the active ones. *)
Wakes(T) ==
  \E q \in Seq(Thread) :
    /\ Distinct(q) /\ ToSet(q) \subseteq {u \in Live : thr[u].state = "WAITING"}
    /\ active' = active \o q
    /\ thr' \in [Thread -> ThreadRec]
    /\ \A u \in Thread :
         /\ thr'[u].state = IF u \in ToSet(q) THEN "ACTIVE" ELSE T[u].state
         /\ thr'[u].parent = T[u].parent /\ thr'[u].children = T[u].children
         /\ thr'[u].kill = T[u].kill /\ thr'[u].curr = T[u].curr

LEMMA PushWakes ==
  ASSUME TypeOK, NEW T \in [Thread -> ThreadRec], NEW S, NEW q \in SetToSeqs(Woken(S)),
         NEW tm \in SimTime, active' = active \o q, thr' = Pushed(T, q, tm)
  PROVE  Wakes(T)
<1>1. Woken(S) \subseteq {u \in Live : thr[u].state = "WAITING"}
  BY DEF Woken
<1>2. Woken(S) \in SUBSET Thread /\ IsFiniteSet(Woken(S))
  BY <1>1, LiveType, FS_Subset
<1>3. q \in Seq(Thread) /\ Distinct(q) /\ ToSet(q) = Woken(S)
  BY <1>2, EnumerationDistinct
<1>4. /\ Pushed(T, q, tm) \in [Thread -> ThreadRec]
      /\ \A u \in Thread :
           /\ Pushed(T, q, tm)[u].state = IF u \in ToSet(q) THEN "ACTIVE" ELSE T[u].state
           /\ Pushed(T, q, tm)[u].parent = T[u].parent
           /\ Pushed(T, q, tm)[u].children = T[u].children
           /\ Pushed(T, q, tm)[u].kill = T[u].kill
           /\ Pushed(T, q, tm)[u].curr = T[u].curr
  BY PushedEffect
<1> QED BY <1>1, <1>3, <1>4 DEF Wakes

LEMMA AssignWakes ==
  ASSUME TypeOK, NEW ops, Executing(ops), NEW T \in [Thread -> ThreadRec], Assign(T)
  PROVE  Wakes(T)
<1>1. PICK S \in SUBSET Writes[Top.stmt] : \E q \in SetToSeqs(Woken(S)) :
        active' = active \o q /\ thr' = Pushed(T, q, thr[Top.thr].time)
  BY DEF Assign
<1>2. PICK q \in SetToSeqs(Woken(S)) :
        active' = active \o q /\ thr' = Pushed(T, q, thr[Top.thr].time)
  BY <1>1
<1>3. thr[Top.thr].time \in SimTime
  BY ExecutingType DEF ThreadRec
<1> QED BY <1>2, <1>3, PushWakes

LEMMA NothingWakes ==
  ASSUME TypeOK, NEW T \in [Thread -> ThreadRec], thr' = T, active' = active
  PROVE  Wakes(T)
<1>1. active \in Seq(Thread) /\ <<>> \in Seq(Thread)
  BY DEF TypeOK
<1>2. active \o <<>> = active /\ ToSet(<<>>) = {} /\ Distinct(<<>>)
  BY <1>1, ConcatEmptySeq DEF ToSet, Distinct
<1> QED BY <1>1, <1>2 DEF Wakes

LEMMA AdvanceEffect ==
  ASSUME TypeOK, NEW ops, Executing(ops), NEW chg \in BOOLEAN, NEW branch, Advance(chg, branch)
  PROVE  /\ Len(frames') = Len(frames) /\ frames' # <<>>
         /\ \A i \in 1..(Len(frames) - 1) : frames'[i] = frames[i]
         /\ Top' = [Top EXCEPT !.chg = chg, !.called = FALSE,
                      !.stmt = IF Top.stmt \in Cont THEN NULL
                               ELSE IF branch THEN NextTrue[Top.stmt] ELSE NextFalse[Top.stmt]]
         /\ Top'.thr = Top.thr /\ Top'.chg = chg /\ Top'.called = FALSE
         /\ Top'.stmt = IF Top.stmt \in Cont THEN NULL
                        ELSE IF branch THEN NextTrue[Top.stmt] ELSE NextFalse[Top.stmt]
<1>1. /\ frames \in Seq(FrameRec) /\ Len(frames) \in 1..Len(frames) /\ Len(frames) \in Nat
      /\ DOMAIN frames = 1..Len(frames) /\ Top = frames[Len(frames)] /\ Top \in FrameRec
  BY FramesType DEF Executing
<1> DEFINE n == IF Top.stmt \in Cont THEN NULL
                ELSE IF branch THEN NextTrue[Top.stmt] ELSE NextFalse[Top.stmt]
           r == [Top EXCEPT !.chg = chg, !.called = FALSE, !.stmt = n]
<1>2. frames' = [frames EXCEPT ![Len(frames)] = r]
  BY <1>1 DEF Advance
<1>3. n \in Stmt \cup {NULL}
  BY ExecutingType, DesignAssumption
<1> HIDE DEF n
<1>4. r \in FrameRec /\ r.thr = Top.thr /\ r.chg = chg /\ r.stmt = n /\ r.called = FALSE
  BY <1>1, <1>3 DEF FrameRec
<1> HIDE DEF r
<1>5. /\ Len(frames') = Len(frames)
      /\ \A i \in 1..(Len(frames) - 1) : frames'[i] = frames[i]
      /\ frames'[Len(frames)] = r
  BY <1>1, <1>2, <1>4, ExceptSeq
<1>7. Top' = r
  BY <1>5 DEF Top
<1>8. frames' # <<>>
  BY <1>1, <1>5
<1> QED BY <1>4, <1>5, <1>7, <1>8 DEF n, r

-----------------------------------------------------------------------------
(* What the invariant says of the running thread *)

(* A thread has as many children as threads name it as their parent. *)
Kids(p) == {t \in Live : thr[t].parent = p}

LEMMA ChildrenNat ==
  ASSUME TypeOK, ChildCount
  PROVE  \A p \in Live : /\ thr[p].children \in Nat /\ IsFiniteSet(Kids(p))
                         /\ thr[p].children = Cardinality(Kids(p))
                         /\ thr[p].children = 0 <=> Kids(p) = {}
<1> SUFFICES ASSUME NEW p \in Live
             PROVE  /\ thr[p].children \in Nat /\ IsFiniteSet(Kids(p))
                    /\ thr[p].children = Cardinality(Kids(p))
                    /\ thr[p].children = 0 <=> Kids(p) = {}
  OBVIOUS
<1>1. IsFiniteSet(Kids(p))
  BY LiveType, FS_Subset DEF Kids
<1>2. thr[p].children = Cardinality(Kids(p))
  BY DEF ChildCount, Kids
<1> QED BY <1>1, <1>2, FS_CardinalityType, FS_EmptySet

(* While a statement is evaluated its thread is active, at the head of the  *)
(* queue behind threads that called it; it has no child unless it is forking *)
(* or joining; and functions only run the statements functions may have.     *)
LEMMA RunningTop ==
  ASSUME ThreadsInv, NEW ops, Executing(ops)
  PROVE  /\ Top.thr \in Live /\ thr[Top.thr].state = "ACTIVE"
         /\ Top.stmt \in Stmt /\ Op[Top.stmt] \in ops
         /\ frames # <<>> /\ Len(frames) \in Nat /\ Len(frames) >= 1
         /\ \E k \in 1..Len(frames) : AtHead(k)
         /\ Op[Top.stmt] \notin {"FORK", "JOIN"} => thr[Top.thr].children = 0
         /\ Len(frames) # 1 => FunitOf[Top.stmt] \in Functions
<1> USE DEF ThreadsInv
<1>1. /\ frames # <<>> /\ Top.stmt # NULL /\ Op[Top.stmt] \in ops
      /\ Len(frames) \in Nat /\ Len(frames) \in 1..Len(frames) /\ Top = frames[Len(frames)]
      /\ DOMAIN frames = 1..Len(frames)
  BY FramesType DEF Executing
<1>2. Top.thr \in Running
  BY <1>1 DEF Running
<1>3. Top.thr \in Live
  BY <1>2 DEF Linked
<1>4. thr[Top.thr].state = "ACTIVE"
  BY <1>1 DEF DelayedTop
<1>5. \E k \in 1..Len(frames) : AtHead(k)
  BY <1>1, <1>4 DEF HeadRuns
<1>6. Op[Top.stmt] \notin {"FORK", "JOIN"} => thr[Top.thr].children = 0
  BY <1>1, <1>3, ChildrenNat DEF BusyTop, ChildrenSound
<1>7. Len(frames) # 1 => FunitOf[Top.stmt] \in Functions
  <2>1. Len(frames) # 1 => Len(frames) \in 2..Len(frames)
    BY <1>1
  <2> QED BY <1>1, <2>1 DEF Chained
<1> QED BY <1>1, <1>3, <1>4, <1>5, <1>6, <1>7, ExecutingType

(* The operations that move the thread that runs, or give it a child, are   *)
(* only done in a thread that is not killed, in a simulation that goes on.  *)
LEMMA NotStopped ==
  ASSUME StructuredDesign, TypeOK, Undisturbed, NEW ops, Executing(ops),
         Op[Top.stmt] \in {"DELAY", "CALL", "FORK", "JOIN"}
  PROVE  ~thr[Top.thr].kill /\ simulate
<1>1. frames # <<>> /\ (Top.called \/ (~thr[Top.thr].kill /\ simulate))
  BY DEF Executing
<1>2. Len(frames) \in 1..Len(frames) /\ Top = frames[Len(frames)] /\ Top.stmt \in Stmt
  BY <1>1, FramesType, ExecutingType
<1>3. Op[Top.stmt] \in {"FORK", "JOIN"} => Func[Top.stmt] = NULL
  BY <1>2 DEF StructuredDesign
<1> QED BY <1>1, <1>2, <1>3 DEF Undisturbed, GoesOn

(* The calls in progress when only the innermost one moves on. *)
LEMMA FramesKept ==
  ASSUME TypeOK, TypeOK', frames # <<>>, Len(frames') = Len(frames),
         \A i \in 1..(Len(frames) - 1) : frames'[i] = frames[i], Top'.thr = Top.thr
  PROVE  /\ frames' # <<>>
         /\ \A i \in 1..Len(frames) : frames'[i].thr = frames[i].thr
         /\ Running' = Running /\ CallersIn(frames') = CallersIn(frames)
<1>1. /\ Len(frames) \in Nat /\ DOMAIN frames = 1..Len(frames) /\ Top = frames[Len(frames)]
      /\ Len(frames) \in 1..Len(frames)
  BY FramesType
<1>2. frames' \in Seq(FrameRec) /\ DOMAIN frames' = 1..Len(frames)
  BY DEF TypeOK
<1>3. frames' # <<>>
  BY <1>1, <1>2
<1>4. Top' = frames'[Len(frames)]
  BY DEF Top
<1>5. \A i \in 1..Len(frames) : frames'[i].thr = frames[i].thr
  BY <1>1, <1>4
<1>6. Running' = Running
  BY <1>1, <1>2, <1>5 DEF Running
<1>7. CallersIn(frames') = CallersIn(frames)
  BY <1>1, <1>5 DEF CallersIn
<1> QED BY <1>3, <1>5, <1>6, <1>7

-----------------------------------------------------------------------------
(* A statement that moves no thread but those it wakes *)

Moves ==
  /\ TypeOK' /\ UNCHANGED <<pool, allNext, delayed, phase>>
  /\ \A u \in Thread : u # Top.thr => thr'[u].curr = thr[u].curr
  /\ thr'[Top.thr].curr = Top.stmt
  /\ Len(frames') = Len(frames) /\ Top'.thr = Top.thr
  /\ \A i \in 1..(Len(frames) - 1) : frames'[i] = frames[i]

Waking(q) ==
  /\ q \in Seq(Thread) /\ Distinct(q)
  /\ ToSet(q) \subseteq {u \in Live : thr[u].state = "WAITING"}
  /\ active' = active \o q
  /\ \A u \in Thread : /\ thr'[u].state = IF u \in ToSet(q) THEN "ACTIVE" ELSE thr[u].state
                       /\ thr'[u].parent = thr[u].parent
                       /\ thr'[u].children = thr[u].children

(* The queues, whatever the calls in progress. *)
LEMMA WakingQueues ==
  ASSUME TypeOK, PoolOnce, Placed, UNCHANGED <<pool, allNext, delayed>>, NEW q, Waking(q),
         CallersIn(frames') = CallersIn(frames)
  PROVE  Placed' /\ PoolOnce'
<1>1. Live' = Live
  BY PoolEqual
<1>2. Live \subseteq Thread /\ active \in Seq(Thread)
  BY LiveType DEF TypeOK
<1>3. \A u \in ToSet(q) : u \in Live /\ thr[u].state = "WAITING"
  BY DEF Waking
<1>4. ToSet(q) \cap ToSet(active) = {}
  BY <1>3 DEF Placed
<1>5. ToSet(active') = ToSet(active) \cup ToSet(q) /\ Distinct(active')
  BY <1>2, <1>4, ConcatDistinct DEF Waking, Placed
<1>6. ToSet(active') \subseteq Live /\ ToSet(delayed) \subseteq Live
  BY <1>3, <1>5 DEF Placed
<1>7. \A t \in Live : thr'[t].state = "ACTIVE" <=> t \in ToSet(active') \cup CallersIn(frames)
  BY <1>2, <1>5 DEF Placed, Waking
<1>8. \A t \in Live : thr'[t].state = "DELAYED" <=> t \in ToSet(delayed)
  BY <1>2, <1>3 DEF Placed, Waking
<1>9. \A t \in Thread \ Live : thr'[t].state # "DELAYED"
  BY <1>3 DEF Placed, Waking
<1>10. PoolOnce'
  BY DEF PoolOnce
<1> QED BY <1>1, <1>5, <1>6, <1>7, <1>8, <1>9, <1>10 DEF Placed

(* Parents and children, when none is born or dies. *)
LEMMA FamiliesKept ==
  ASSUME TypeOK, Linked, ChildrenSound, UNCHANGED <<pool, allNext>>, Running' = Running,
         \A u \in Thread : /\ thr'[u].parent = thr[u].parent
                           /\ thr'[u].children = thr[u].children
                           /\ thr'[u].state = "NONE" <=> thr[u].state = "NONE"
  PROVE  Linked' /\ ChildrenSound'
<1>1. Live' = Live /\ Live \subseteq Thread
  BY PoolEqual, LiveType
<1>2. Linked'
  BY <1>1 DEF Linked
<1>3. ChildCount'
  <2> SUFFICES ASSUME NEW p \in Live
               PROVE  thr'[p].children = Cardinality({t \in Live : thr'[t].parent = p})
    BY <1>1 DEF ChildCount
  <2>1. {t \in Live : thr'[t].parent = p} = {t \in Live : thr[t].parent = p}
    BY <1>1
  <2> QED BY <1>1, <2>1 DEF ChildrenSound, ChildCount
<1>4. BlockedHaveChildren'
  BY <1>1 DEF ChildrenSound, BlockedHaveChildren
<1> QED BY <1>2, <1>3, <1>4 DEF ChildrenSound

LEMMA MovesKeep ==
  ASSUME ThreadsInv, NEW ops, Executing(ops), Moves, NEW q, Waking(q),
         Len(frames) # 1 /\ Top'.stmt # NULL => FunitOf[Top'.stmt] \in Functions,
         BusyTop', EndedTop'
  PROVE  ThreadsInv'
<1> USE DEF ThreadsInv
<1>1. /\ Top.thr \in Live /\ thr[Top.thr].state = "ACTIVE" /\ Top.stmt \in Stmt
      /\ frames # <<>> /\ Len(frames) \in Nat /\ Len(frames) >= 1
      /\ \E k \in 1..Len(frames) : AtHead(k)
      /\ Len(frames) # 1 => FunitOf[Top.stmt] \in Functions
  BY RunningTop
<1>2. /\ TypeOK' /\ Live' = Live /\ Live \subseteq Thread
      /\ Len(frames') = Len(frames) /\ \A i \in 1..(Len(frames) - 1) : frames'[i] = frames[i]
  BY PoolEqual, LiveType DEF Moves
<1>3. /\ frames' # <<>> /\ Running' = Running /\ CallersIn(frames') = CallersIn(frames)
      /\ \A i \in 1..Len(frames) : frames'[i].thr = frames[i].thr
  BY <1>1, <1>2, FramesKept DEF Moves
<1>4. \A u \in Thread : /\ thr'[u].state = IF u \in ToSet(q) THEN "ACTIVE" ELSE thr[u].state
                        /\ thr'[u].parent = thr[u].parent
                        /\ thr'[u].children = thr[u].children
                        /\ u # Top.thr => thr'[u].curr = thr[u].curr
  BY DEF Waking, Moves
<1>5. \A u \in ToSet(q) : u \in Live /\ thr[u].state = "WAITING"
  BY DEF Waking
<1>6. Placed' /\ PoolOnce'
  BY <1>3, WakingQueues DEF Moves
<1>7. Linked' /\ ChildrenSound'
  <2>1. \A u \in Thread : /\ thr'[u].parent = thr[u].parent
                          /\ thr'[u].children = thr[u].children
                          /\ thr'[u].state = "NONE" <=> thr[u].state = "NONE"
    BY <1>4, <1>5
  <2> QED BY <1>3, <2>1, FamiliesKept DEF Moves
<1>8. \A i \in 1..Len(frames) : frames[i].thr \in Live /\ frames[i].thr \in Thread
  BY <1>2, FramesType DEF Linked, Running
<1>9. Top = frames[Len(frames)] /\ Len(frames) \in 1..Len(frames)
  BY <1>1, FramesType
<1>10. Chained'
  <2>1. \A i, j \in 1..Len(frames) : frames'[i].thr = frames'[j].thr => i = j
    BY <1>3 DEF Chained
  <2>2. ASSUME NEW i \in 1..(Len(frames) - 1)
        PROVE  /\ frames'[i].stmt # NULL /\ Op[frames'[i].stmt] \notin {"FORK", "JOIN"}
               /\ thr'[frames'[i].thr].state = "ACTIVE" /\ thr'[frames'[i].thr].children = 1
               /\ thr'[frames'[i + 1].thr].parent = frames'[i].thr
    <3>1. i \in 1..Len(frames) /\ i + 1 \in 1..Len(frames)
      BY <1>1
    <3>2. frames'[i] = frames[i] /\ frames'[i + 1].thr = frames[i + 1].thr
      BY <1>2, <1>3, <3>1
    <3>3. /\ thr[frames[i].thr].state = "ACTIVE" /\ thr[frames[i].thr].children = 1
          /\ thr[frames[i + 1].thr].parent = frames[i].thr
          /\ frames[i].stmt # NULL /\ Op[frames[i].stmt] \notin {"FORK", "JOIN"}
      BY DEF Chained
    <3> QED BY <1>4, <1>5, <1>8, <3>1, <3>2, <3>3
  <2>3. ASSUME NEW i \in 2..Len(frames)
        PROVE  /\ thr'[frames'[i].thr].curr # NULL
               /\ FunitOf[thr'[frames'[i].thr].curr] \in Functions
               /\ frames'[i].stmt # NULL => FunitOf[frames'[i].stmt] \in Functions
    <3>1. i \in 1..Len(frames) /\ Len(frames) # 1
      <4> DEFINE n == Len(frames)
      <4>1. n \in Nat /\ i \in 2..n
        BY <1>1
      <4> HIDE DEF n, ThreadsInv
      <4>2. i \in 1..n /\ n # 1
        BY <4>1
      <4> QED BY <4>2 DEF n
    <3>2. CASE i = Len(frames)
      <4>1. frames'[i] = Top' /\ thr'[Top.thr].curr = Top.stmt /\ Top'.thr = Top.thr
        BY <1>2, <3>2 DEF Top, Moves
      <4>2. Top.stmt # NULL
        BY <1>1, DesignAssumption
      <4>3. FunitOf[Top.stmt] \in Functions
            /\ (Top'.stmt # NULL => FunitOf[Top'.stmt] \in Functions)
        BY <1>1, <3>1
      <4> QED BY <4>1, <4>2, <4>3
    <3>3. CASE i # Len(frames)
      <4>1. i \in 1..(Len(frames) - 1)
        BY <1>1, <3>3
      <4>2. frames'[i] = frames[i] /\ frames[i].thr # Top.thr
        BY <1>2, <1>9, <3>1, <3>3, <4>1 DEF Chained
      <4>3. /\ thr[frames[i].thr].curr # NULL
            /\ FunitOf[thr[frames[i].thr].curr] \in Functions
            /\ frames[i].stmt # NULL => FunitOf[frames[i].stmt] \in Functions
        BY DEF Chained
      <4> QED BY <1>4, <1>8, <3>1, <4>2, <4>3
    <3> QED BY <3>2, <3>3
  <2>4. phase' = "sim"
    BY <1>1 DEF Chained, Moves
  <2> QED BY <1>2, <2>1, <2>2, <2>3, <2>4 DEF Chained
<1>11. HeadRuns'
  <2>1. PICK k \in 1..Len(frames) : AtHead(k)
    BY <1>1
  <2>2. /\ active \in Seq(Thread) /\ q \in Seq(Thread)
    BY DEF TypeOK, Waking
  <2>3. /\ active' = active \o q /\ Len(active') = Len(active) + Len(q)
        /\ \A i \in 1..Len(active) : active'[i] = active[i]
        /\ ToSet(active') = ToSet(active) \cup ToSet(q)
    BY <2>2, ConcatDistinct DEF Waking
  <2>4. Len(frames) - k + 1 <= Len(active') /\ Len(active) \in Nat /\ Len(q) \in Nat
    BY <1>1, <2>1, <2>2, <2>3 DEF AtHead
  <2>5. \A i \in k..Len(frames) : active'[i - k + 1] = frames'[i].thr
    <3> SUFFICES ASSUME NEW i \in k..Len(frames) PROVE active'[i - k + 1] = frames'[i].thr
      OBVIOUS
    <3>1. i \in 1..Len(frames) /\ i - k + 1 \in 1..Len(active)
      BY <1>1, <2>1, <2>4 DEF AtHead
    <3> QED BY <1>3, <2>1, <2>3, <3>1 DEF AtHead
  <2>6. \A i \in 1..(k - 1) : frames'[i].thr \notin ToSet(active')
    <3> SUFFICES ASSUME NEW i \in 1..(k - 1) PROVE frames'[i].thr \notin ToSet(active')
      OBVIOUS
    <3>1. i \in 1..Len(frames) /\ i \in 1..(Len(frames) - 1)
      BY <1>1
    <3>2. frames[i].thr \notin ToSet(active) /\ thr[frames[i].thr].state = "ACTIVE"
      BY <2>1, <3>1 DEF AtHead, Chained
    <3> QED BY <1>3, <1>5, <2>3, <3>1, <3>2
  <2>7. AtHead(k)'
    BY <1>2, <2>4, <2>5, <2>6 DEF AtHead
  <2> QED BY <1>2, <2>7 DEF HeadRuns
<1>12. DelayedTop'
  <2>1. Top'.thr = Top.thr /\ Top.thr \in Thread
    BY <1>1, <1>2 DEF Moves
  <2>2. thr'[Top'.thr].state = "ACTIVE"
    BY <1>1, <1>4, <2>1
  <2> QED BY <2>2 DEF DelayedTop
<1>13. WaitsWhereWoken'
  BY <1>1, <1>2, <1>4 DEF WaitsWhereWoken
<1> QED BY <1>2, <1>6, <1>7, <1>10, <1>11, <1>12, <1>13

LEMMA StatementMoves ==
  ASSUME TypeOK, TypeOK', NEW ops, Executing(ops), UNCHANGED <<pool, allNext, delayed, phase>>,
         NEW chg \in BOOLEAN, NEW branch \in BOOLEAN, Advance(chg, branch),
         NEW T \in [Thread -> ThreadRec], Wakes(Executed(T)),
         \A u \in Thread : /\ T[u].state = thr[u].state /\ T[u].parent = thr[u].parent
                           /\ T[u].children = thr[u].children /\ T[u].curr = thr[u].curr
  PROVE  Moves /\ \E q : Waking(q)
<1>1. Top.thr \in Thread
  BY ExecutingType
<1> DEFINE E == Executed(T)
<1>2. /\ \A u \in Thread : /\ E[u].state = thr[u].state /\ E[u].parent = thr[u].parent
                           /\ E[u].children = thr[u].children
                           /\ u # Top.thr => E[u].curr = thr[u].curr
      /\ E[Top.thr].curr = Top.stmt
  BY ExecutedEffect
<1> HIDE DEF E
<1>3. Wakes(E)
  BY DEF E
<1>4. PICK q \in Seq(Thread) :
        /\ Distinct(q) /\ ToSet(q) \subseteq {u \in Live : thr[u].state = "WAITING"}
        /\ active' = active \o q
        /\ \A u \in Thread :
             /\ thr'[u].state = IF u \in ToSet(q) THEN "ACTIVE" ELSE E[u].state
             /\ thr'[u].parent = E[u].parent /\ thr'[u].children = E[u].children
             /\ thr'[u].kill = E[u].kill /\ thr'[u].curr = E[u].curr
  BY <1>3 DEF Wakes
<1>5. Waking(q)
  BY <1>2, <1>4 DEF Waking
<1>6. /\ Len(frames') = Len(frames) /\ Top'.thr = Top.thr
      /\ \A i \in 1..(Len(frames) - 1) : frames'[i] = frames[i]
  BY AdvanceEffect
<1>7. Moves
  BY <1>1, <1>2, <1>4, <1>6 DEF Moves
<1> QED BY <1>5, <1>7

(* The successor of a statement, and where it leads. *)
LEMMA Successor ==
  ASSUME StructuredDesign, TypeOK, NEW ops, Executing(ops),
         NEW chg \in BOOLEAN, NEW branch \in BOOLEAN, Advance(chg, branch)
  PROVE  /\ FunitOf[Top.stmt] \in Functions /\ Top'.stmt # NULL
              => FunitOf[Top'.stmt] \in Functions
         /\ Op[Top.stmt] \in {"VALUE", "STOP"} => Top'.stmt # NULL
         /\ Op[Top.stmt] = "FORK" => Top'.stmt # NULL /\ Op[Top'.stmt] \in {"FORK", "JOIN"}
         /\ Op[Top.stmt] = "JOIN" => Top'.stmt = NULL
         /\ Op[Top.stmt] \in ContextSwitch /\ ~branch => Top'.stmt = NULL
<1>1. Top.stmt \in Stmt
  BY ExecutingType
<1>2. Top'.stmt = IF Top.stmt \in Cont THEN NULL
                  ELSE IF branch THEN NextTrue[Top.stmt] ELSE NextFalse[Top.stmt]
  BY AdvanceEffect
<1>3. Top.stmt \in Cont => Op[Top.stmt] = "ASSIGN"
  BY DEF StructuredDesign
<1>4. Top.stmt \notin Cont => Top'.stmt \in {NextTrue[Top.stmt], NextFalse[Top.stmt]}
  BY <1>2
<1>5. FunitOf[Top.stmt] \in Functions /\ Top'.stmt # NULL => FunitOf[Top'.stmt] \in Functions
  BY <1>1, <1>2, <1>4 DEF StructuredDesign
<1>6. Op[Top.stmt] \in {"VALUE", "STOP"} => Top'.stmt # NULL
  BY <1>1, <1>3, <1>4 DEF StructuredDesign
<1>7. Op[Top.stmt] = "FORK" => Top'.stmt # NULL /\ Op[Top'.stmt] \in {"FORK", "JOIN"}
  BY <1>1, <1>3, <1>4 DEF StructuredDesign
<1>8. Op[Top.stmt] = "JOIN" => Top'.stmt = NULL
  BY <1>1, <1>2, <1>4 DEF StructuredDesign
<1>9. Op[Top.stmt] \in ContextSwitch /\ ~branch => Top'.stmt = NULL
  BY <1>1, <1>2, DesignAssumption
<1> QED BY <1>5, <1>6, <1>7, <1>8, <1>9

(* A statement that neither starts nor joins threads. *)
LEMMA PlainStatement ==
  ASSUME StructuredDesign, ThreadsInv, TypeOK', NEW ops, Executing(ops),
         UNCHANGED <<pool, allNext, delayed, phase>>,
         NEW chg \in BOOLEAN, NEW branch \in BOOLEAN, Advance(chg, branch),
         NEW T \in [Thread -> ThreadRec], Wakes(Executed(T)),
         \A u \in Thread : /\ T[u].state = thr[u].state /\ T[u].parent = thr[u].parent
                           /\ T[u].children = thr[u].children /\ T[u].curr = thr[u].curr,
         Op[Top.stmt] \notin {"FORK", "JOIN", "CALL"},
         Op[Top.stmt] \in {"ASSIGN", "DISABLE"} => chg,
         Op[Top.stmt] = "FINISH" => ~simulate'
  PROVE  ThreadsInv'
<1>1. TypeOK
  BY DEF ThreadsInv
<1>2. PICK q : Moves /\ Waking(q)
  BY <1>1, StatementMoves
<1>3. /\ Top.thr \in Live /\ thr[Top.thr].children = 0 /\ Top.stmt \in Stmt /\ Top.stmt # NULL
      /\ Len(frames) # 1 => FunitOf[Top.stmt] \in Functions
      /\ Top.thr \in Thread
  BY <1>1, RunningTop, LiveType DEF Executing
<1>4. Top'.thr = Top.thr /\ Top'.chg = chg
  BY <1>1, AdvanceEffect
<1>5. BusyTop'
  <2>1. thr'[Top'.thr].children = 0
    BY <1>2, <1>3, <1>4 DEF Waking
  <2> QED BY <2>1 DEF BusyTop
<1>6. EndedTop'
  <2>1. thr'[Top'.thr].curr = Top.stmt
    BY <1>2, <1>4 DEF Moves
  <2>2. Op[Top.stmt] \in {"VALUE", "STOP"} => Top'.stmt # NULL
    BY <1>1, Successor
  <2> QED BY <1>4, <2>1, <2>2 DEF EndedTop
<1>7. Len(frames) # 1 /\ Top'.stmt # NULL => FunitOf[Top'.stmt] \in Functions
  BY <1>1, <1>3, Successor
<1> QED BY <1>2, <1>5, <1>6, <1>7, MovesKeep

LEMMA PlainKeeps ==
  ASSUME StructuredDesign, ThreadsInv,
         ExecAssign \/ ExecEvent \/ ExecDelayEnd \/ ExecDisable \/ ExecFinish
  PROVE  ThreadsInv'
<1>1. TypeOK /\ thr \in [Thread -> ThreadRec] /\ now \in SimTime
  BY DEF ThreadsInv, TypeOK
<1>2. \A u \in Thread : /\ thr[u].state = thr[u].state /\ thr[u].parent = thr[u].parent
                        /\ thr[u].children = thr[u].children /\ thr[u].curr = thr[u].curr
  OBVIOUS
<1>3. CASE ExecAssign
  <2> DEFINE ops == {"ASSIGN", "CASE", "VALUE"}
  <2>1. Executing(ops)
    BY <1>3 DEF ExecAssign, Evaluating
  <2>2. Executed(thr) \in [Thread -> ThreadRec] /\ TypeOK'
    BY <1>1, <1>3, <2>1, ExecutedType, SimpleOpType
  <2>3. Wakes(Executed(thr))
    BY <1>1, <1>3, <2>1, <2>2, AssignWakes DEF ExecAssign
  <2>4. PICK chg \in BOOLEAN, branch \in BOOLEAN :
          (Op[Top.stmt] = "ASSIGN" => chg) /\ Advance(chg, branch)
    BY <1>3 DEF ExecAssign
  <2>5. Op[Top.stmt] \in ops /\ UNCHANGED <<pool, allNext, delayed, phase>>
    BY <1>3, <2>1 DEF Executing, ExecAssign
  <2> QED BY <1>1, <1>2, <2>1, <2>2, <2>3, <2>4, <2>5, PlainStatement
<1>4. CASE ExecEvent
  <2> DEFINE ops == {"EVENT", "WAIT", "COMB"}
  <2>1. Executing(ops)
    BY <1>4 DEF ExecEvent, Evaluating
  <2>2. Executed(thr) \in [Thread -> ThreadRec] /\ TypeOK'
    BY <1>1, <1>4, <2>1, ExecutedType, SimpleOpType
  <2>3. Wakes(Executed(thr))
    BY <1>1, <1>4, <2>1, <2>2, NothingWakes DEF ExecEvent
  <2>4. MayFire(Top.stmt) \in BOOLEAN
    BY <1>1, <2>1, ExecutingType DEF MayFire, ThreadRec
  <2>5. PICK fires \in BOOLEAN : Advance(fires, fires)
    BY <1>4, <2>4 DEF ExecEvent
  <2>6. Op[Top.stmt] \in ops /\ UNCHANGED <<pool, allNext, delayed, phase>>
    BY <1>4, <2>1 DEF Executing, ExecEvent
  <2> QED BY <1>1, <1>2, <2>1, <2>2, <2>3, <2>5, <2>6, PlainStatement
<1>5. CASE ExecDelayEnd
  <2> DEFINE ops == {"DELAY"}
  <2>1. Executing(ops)
    BY <1>5 DEF ExecDelayEnd, Evaluating
  <2>2. Executed(thr) \in [Thread -> ThreadRec] /\ TypeOK'
    BY <1>1, <1>5, <2>1, ExecutedType, DelayType
  <2>3. Wakes(Executed(thr))
    BY <1>1, <1>5, <2>1, <2>2, NothingWakes, AssignWakes DEF ExecDelayEnd
  <2>4. DelayOver \in BOOLEAN
    BY <1>1 DEF DelayOver, TimeCmpLE, SimTime
  <2>5. PICK over \in BOOLEAN : Advance(over, over)
    BY <1>5, <2>4 DEF ExecDelayEnd
  <2>6. Op[Top.stmt] \in ops /\ UNCHANGED <<pool, allNext, delayed, phase>>
    BY <1>5, <2>1 DEF Executing, ExecDelayEnd
  <2> QED BY <1>1, <1>2, <2>1, <2>2, <2>3, <2>5, <2>6, PlainStatement
<1>6. CASE ExecDisable
  <2> DEFINE ops == {"DISABLE"}
             D == Disabled(thr, Target[Top.stmt])
  <2>1. Executing(ops)
    BY <1>6 DEF ExecDisable, Evaluating
  <2>2. D \in [Thread -> ThreadRec]
    BY <1>1, DisabledType
  <2>3. \A u \in Thread : /\ D[u].state = thr[u].state /\ D[u].parent = thr[u].parent
                          /\ D[u].children = thr[u].children /\ D[u].curr = thr[u].curr
    BY <1>1 DEF Disabled, ThreadRec
  <2>4. thr' = Executed(D)
    BY <1>6 DEF ExecDisable
  <2> HIDE DEF D
  <2>5. Executed(D) \in [Thread -> ThreadRec] /\ TypeOK'
    BY <1>1, <1>6, <2>1, <2>2, ExecutedType, SimpleOpType
  <2>6. Wakes(Executed(D))
    BY <1>1, <1>6, <2>4, <2>5, NothingWakes DEF ExecDisable
  <2>7. PICK branch \in BOOLEAN : Advance(TRUE, branch)
    BY <1>6 DEF ExecDisable
  <2>8. Op[Top.stmt] \in ops /\ UNCHANGED <<pool, allNext, delayed, phase>>
    BY <1>6, <2>1 DEF Executing, ExecDisable
  <2> QED BY <1>1, <2>1, <2>2, <2>3, <2>5, <2>6, <2>7, <2>8, PlainStatement
<1>7. CASE ExecFinish
  <2> DEFINE ops == {"FINISH", "STOP"}
  <2>1. Executing(ops)
    BY <1>7 DEF ExecFinish, Evaluating
  <2>2. Executed(thr) \in [Thread -> ThreadRec] /\ TypeOK'
    BY <1>1, <1>7, <2>1, ExecutedType, SimpleOpType
  <2>3. Wakes(Executed(thr))
    BY <1>1, <1>7, <2>1, <2>2, NothingWakes DEF ExecFinish
  <2>4. Advance(FALSE, FALSE) /\ (Op[Top.stmt] = "FINISH" => ~simulate')
    BY <1>7 DEF ExecFinish
  <2>5. Op[Top.stmt] \in ops /\ UNCHANGED <<pool, allNext, delayed, phase>>
    BY <1>7, <2>1 DEF Executing, ExecFinish
  <2> QED BY <1>1, <1>2, <2>1, <2>2, <2>3, <2>4, <2>5, PlainStatement
<1> QED BY <1>3, <1>4, <1>5, <1>6, <1>7

(* A join ends the loop; its thread goes on only if no child is left. *)
LEMMA JoinKeeps ==
  ASSUME StructuredDesign, ThreadsInv, Undisturbed, ExecJoin
  PROVE  ThreadsInv'
<1>1. TypeOK /\ thr \in [Thread -> ThreadRec]
  BY DEF ThreadsInv, TypeOK
<1> DEFINE ops == {"JOIN"}
           none == thr[Top.thr].children = 0
<1>2. Executing(ops) /\ Op[Top.stmt] = "JOIN"
  BY DEF ExecJoin, Evaluating, Executing
<1>3. /\ UNCHANGED <<pool, allNext, delayed, phase>> /\ thr' = Executed(thr)
      /\ active' = active /\ simulate' = simulate
  BY DEF ExecJoin
<1>4. Executed(thr) \in [Thread -> ThreadRec] /\ TypeOK'
  BY <1>1, <1>2, ExecutedType, SimpleOpType
<1>5. Wakes(Executed(thr))
  BY <1>1, <1>3, <1>4, NothingWakes
<1>6. PICK branch \in BOOLEAN : Advance(none, branch)
  BY DEF ExecJoin
<1>7. none \in BOOLEAN
  OBVIOUS
<1>8. PICK q : Moves /\ Waking(q)
  BY <1>1, <1>2, <1>3, <1>4, <1>5, <1>6, <1>7, StatementMoves
<1>9. /\ Top.thr \in Live /\ Top.stmt \in Stmt /\ Top.stmt # NULL /\ Top.thr \in Thread
      /\ Len(frames) # 1 => FunitOf[Top.stmt] \in Functions
      /\ thr[Top.thr].state = "ACTIVE"
      /\ ~thr[Top.thr].kill /\ simulate
  BY <1>1, <1>2, RunningTop, LiveType, NotStopped DEF Executing
<1>10. Len(frames) = 1
  BY <1>2, <1>9 DEF StructuredDesign
<1>11. Top'.thr = Top.thr /\ Top'.chg = none /\ Top'.stmt = NULL /\ Len(frames') = Len(frames)
  BY <1>1, <1>2, <1>6, <1>7, Successor, AdvanceEffect
<1>12. /\ thr'[Top.thr].state = thr[Top.thr].state /\ thr'[Top.thr].kill = thr[Top.thr].kill
       /\ thr'[Top.thr].children = thr[Top.thr].children /\ thr'[Top.thr].curr = Top.stmt
  BY <1>1, <1>2, <1>3, <1>9, ExecutedEffect
<1>13. thr[Top.thr].children \in Nat
  BY <1>1, <1>9, ChildrenNat DEF ThreadsInv, ChildrenSound
<1>14. /\ Len(frames') = 1 /\ Top'.stmt = NULL /\ Op[Top.stmt] = "JOIN" /\ Top.stmt # NULL
       /\ thr'[Top'.thr].children = thr[Top.thr].children /\ thr'[Top'.thr].curr = Top.stmt
       /\ thr'[Top'.thr].state = "ACTIVE" /\ ~thr'[Top'.thr].kill /\ simulate'
  BY <1>2, <1>3, <1>9, <1>10, <1>11, <1>12
<1>15. thr[Top.thr].children > 0 <=> ~Top'.chg
  <2>1. none => Top'.chg = TRUE
    BY <1>11
  <2>2. ~none => Top'.chg = FALSE
    BY <1>11
  <2> QED BY <1>13, <2>1, <2>2
<1>16. BusyTop' /\ EndedTop'
  BY <1>14, <1>15 DEF BusyTop, EndedTop
<1> QED BY <1>2, <1>8, <1>10, <1>16, MovesKeep

-----------------------------------------------------------------------------
(* A delay: the running thread moves to the delayed queue *)

LEMMA SingleCall ==
  ASSUME ThreadsInv, frames # <<>>, Len(frames) = 1
  PROVE  /\ CallersIn(frames) = {} /\ Running = {Top.thr} /\ Top.thr \in Live
         /\ thr[Top.thr].state = "ACTIVE" => active # <<>> /\ Head(active) = Top.thr
<1> USE DEF ThreadsInv
<1>1. DOMAIN frames = 1..1 /\ Top = frames[1]
  BY FramesType
<1>2. CallersIn(frames) = {} /\ Running = {Top.thr}
  BY <1>1 DEF CallersIn, Running
<1>3. Top.thr \in Live
  BY <1>2 DEF Linked
<1>4. ASSUME thr[Top.thr].state = "ACTIVE" PROVE active # <<>> /\ Head(active) = Top.thr
  <2>1. AtHead(1)
    BY <1>4 DEF HeadRuns
  <2>2. Len(active) >= 1 /\ active[1] = Top.thr /\ active \in Seq(Thread)
    BY <1>1, <2>1 DEF AtHead, TypeOK
  <2> QED BY <2>2
<1> QED BY <1>2, <1>3, <1>4

LEMMA DelayStartKeeps ==
  ASSUME StructuredDesign, ThreadsInv, Undisturbed, ExecDelayStart
  PROVE  ThreadsInv'
<1>1. TypeOK /\ thr \in [Thread -> ThreadRec] /\ TypeOK'
  BY DelayType DEF ThreadsInv, TypeOK
<1> DEFINE ops == {"DELAY"}
<1>2. Executing(ops) /\ Op[Top.stmt] = "DELAY"
  BY DEF ExecDelayStart, Evaluating, Executing
<1>3. Advance(FALSE, FALSE) /\ UNCHANGED <<pool, allNext, simulate, now, phase>>
  BY DEF ExecDelayStart
<1>4. CASE now.final
  <2>1. thr' = Executed(thr) /\ active' = active /\ delayed' = delayed
    BY <1>4 DEF ExecDelayStart
  <2>2. Executed(thr) \in [Thread -> ThreadRec]
    BY <1>1, <1>2, ExecutedType
  <2>3. Wakes(Executed(thr))
    BY <1>1, <2>1, <2>2, NothingWakes
  <2>4. \A u \in Thread : /\ thr[u].state = thr[u].state /\ thr[u].parent = thr[u].parent
                          /\ thr[u].children = thr[u].children /\ thr[u].curr = thr[u].curr
    OBVIOUS
  <2> QED BY <1>1, <1>2, <1>3, <2>1, <2>3, <2>4, PlainStatement
<1>5. CASE ~now.final
  <2>1. /\ Top.thr \in Live /\ thr[Top.thr].state = "ACTIVE" /\ Top.stmt \in Stmt
        /\ Top.stmt # NULL /\ frames # <<>> /\ thr[Top.thr].children = 0
        /\ Len(frames) # 1 => FunitOf[Top.stmt] \in Functions
        /\ ~thr[Top.thr].kill /\ simulate /\ Top.thr \in Thread
    BY <1>1, <1>2, RunningTop, LiveType, NotStopped DEF Executing
  <2>2. Len(frames) = 1
    BY <1>2, <2>1 DEF StructuredDesign
  <2>3. CallersIn(frames) = {} /\ Running = {Top.thr} /\ active # <<>> /\ Head(active) = Top.thr
    BY <2>1, <2>2, SingleCall
  <2>4. /\ Len(frames') = Len(frames) /\ Top'.thr = Top.thr /\ Top'.chg = FALSE /\ Top'.stmt = NULL
        /\ \A i \in 1..(Len(frames) - 1) : frames'[i] = frames[i]
    <3>1. /\ Len(frames') = Len(frames) /\ Top'.thr = Top.thr /\ Top'.chg = FALSE
          /\ \A i \in 1..(Len(frames) - 1) : frames'[i] = frames[i]
      BY <1>1, <1>2, <1>3, AdvanceEffect
    <3>2. Op[Top.stmt] \in ContextSwitch
      BY <1>2 DEF ContextSwitch
    <3>3. Top'.stmt = NULL
      BY <1>1, <1>2, <1>3, <3>2, Successor
    <3> QED BY <3>1, <3>3
  <2>5. /\ frames' # <<>> /\ Running' = Running /\ CallersIn(frames') = {}
        /\ \A i \in 1..Len(frames) : frames'[i].thr = frames[i].thr
    BY <1>1, <2>1, <2>3, <2>4, FramesKept
  <2> DEFINE T == [thr EXCEPT ![Top.thr].state = "DELAYED", ![Top.thr].time = WakeTime]
             r == [[thr[Top.thr] EXCEPT !.state = "DELAYED"] EXCEPT !.time = WakeTime]
  <2>6. /\ T \in [Thread -> ThreadRec]
        /\ \A u \in Thread :
             /\ T[u].state = IF u = Top.thr THEN "DELAYED" ELSE thr[u].state
             /\ T[u].parent = thr[u].parent /\ T[u].children = thr[u].children
             /\ T[u].kill = thr[u].kill /\ T[u].curr = thr[u].curr
    <3>1. WakeTime \in SimTime
      <4>1. Delay[Top.stmt] \in Nat
        BY <2>1, DesignAssumption
      <4>2. thr[Top.thr].time \in SimTime
        BY <1>1, <2>1 DEF ThreadRec
      <4> QED BY <4>1, <4>2, TimeOfType, TimeIncType DEF WakeTime
    <3>2. thr[Top.thr] \in ThreadRec
      BY <1>1, <2>1
    <3>3. /\ r \in ThreadRec /\ r.state = "DELAYED" /\ r.parent = thr[Top.thr].parent
          /\ r.children = thr[Top.thr].children /\ r.kill = thr[Top.thr].kill
          /\ r.curr = thr[Top.thr].curr
      BY <3>1, <3>2 DEF ThreadRec, ThreadState
    <3>4. T = [thr EXCEPT ![Top.thr] = r]
      BY <1>1, <2>1
    <3> HIDE DEF r, T
    <3>5. \A u \in Thread : T[u] = IF u = Top.thr THEN r ELSE thr[u]
      BY <1>1, <2>1, <3>4
    <3> QED BY <1>1, <2>1, <3>3, <3>4, <3>5
  <2>7. /\ active' = Tail(active) /\ delayed' = Insert(delayed, Top.thr, WakeTime)
        /\ thr' = Executed(T)
    BY <1>5 DEF ExecDelayStart
  <2> HIDE DEF T
  <2>8. /\ \A u \in Thread :
             /\ thr'[u].state = IF u = Top.thr THEN "DELAYED" ELSE thr[u].state
             /\ thr'[u].parent = thr[u].parent /\ thr'[u].children = thr[u].children
             /\ thr'[u].kill = thr[u].kill
             /\ u # Top.thr => thr'[u].curr = thr[u].curr
        /\ thr'[Top.thr].curr = Top.stmt
    BY <1>1, <1>2, <2>6, <2>7, ExecutedEffect
  <2>9. Live' = Live /\ Live \subseteq Thread
    BY <1>1, <1>3, PoolEqual, LiveType
  <2>10. active \in Seq(Thread) /\ delayed \in Seq(Thread) /\ Distinct(active) /\ Distinct(delayed)
    BY <1>1 DEF ThreadsInv, Placed, TypeOK
  <2>11. Distinct(active') /\ ToSet(active') = ToSet(active) \ {Top.thr} /\ Top.thr \in ToSet(active)
    BY <2>3, <2>7, <2>10, TailDistinct
  <2>12. Top.thr \notin ToSet(delayed)
    BY <2>1 DEF ThreadsInv, Placed
  <2>13. Distinct(delayed') /\ ToSet(delayed') = ToSet(delayed) \cup {Top.thr}
    <3>1. InsertPos(delayed, WakeTime) + 1 \in 1..(Len(delayed) + 1)
      BY <2>10, InsertPosType
    <3> QED BY <2>1, <2>7, <2>10, <2>12, <3>1, InsertDistinct DEF Insert
  <2>14. Placed'
    <3>1. ToSet(active') \subseteq Live /\ ToSet(delayed') \subseteq Live
      BY <2>1, <2>11, <2>13 DEF ThreadsInv, Placed
    <3>2. \A t \in Live : thr'[t].state = "ACTIVE" <=> t \in ToSet(active') \cup CallersIn(frames')
      BY <2>1, <2>3, <2>5, <2>8, <2>9, <2>11 DEF ThreadsInv, Placed
    <3>3. \A t \in Live : thr'[t].state = "DELAYED" <=> t \in ToSet(delayed')
      BY <2>1, <2>8, <2>9, <2>13 DEF ThreadsInv, Placed
    <3>4. \A t \in Thread \ Live : thr'[t].state # "DELAYED"
      BY <2>1, <2>8 DEF ThreadsInv, Placed
    <3> QED BY <2>9, <2>11, <2>13, <3>1, <3>2, <3>3, <3>4 DEF Placed
  <2>15. PoolOnce'
    BY <1>3 DEF ThreadsInv, PoolOnce
  <2>16. Linked' /\ ChildrenSound'
    <3>1. \A u \in Thread : /\ thr'[u].parent = thr[u].parent
                            /\ thr'[u].children = thr[u].children
                            /\ thr'[u].state = "NONE" <=> thr[u].state = "NONE"
      BY <2>1, <2>8
    <3> QED BY <1>1, <1>3, <2>5, <3>1, FamiliesKept DEF ThreadsInv
  <2>17. Chained'
    <3>1. phase' = "sim"
      BY <1>3, <2>1 DEF ThreadsInv, Chained
    <3>2. Len(frames') = 1
      BY <2>2, <2>4
    <3> QED BY <3>1, <3>2 DEF Chained
  <2>18. HeadRuns' /\ DelayedTop'
    BY <1>2, <1>3, <1>5, <2>1, <2>2, <2>4, <2>8 DEF HeadRuns, DelayedTop
  <2>19. BusyTop'
    BY <2>1, <2>4, <2>8 DEF BusyTop
  <2>20. EndedTop'
    BY <1>2, <2>4, <2>8 DEF EndedTop
  <2>21. WaitsWhereWoken'
    BY <2>1, <2>8, <2>9 DEF ThreadsInv, WaitsWhereWoken
  <2> QED BY <1>1, <2>14, <2>15, <2>16, <2>17, <2>18, <2>19, <2>20, <2>21 DEF ThreadsInv
<1> QED BY <1>4, <1>5

-----------------------------------------------------------------------------
(* A thread is born *)

(* The new thread has no child, since no live thread named it, and one      *)
(* parent at most, which counts it.                                         *)
LEMMA BirthFamilies ==
  ASSUME TypeOK, Linked, ChildCount, NEW t \in Thread, t \notin Live, Live' = Live \cup {t},
         NEW p \in Live \cup {NULL}, thr'[t].parent = p, thr'[t].children = 0,
         \A u \in Live : /\ thr'[u].parent = thr[u].parent
                         /\ thr'[u].children = thr[u].children + (IF u = p THEN 1 ELSE 0)
  PROVE  /\ ChildCount'
         /\ \A u \in Live' : thr'[u].parent # NULL => thr'[u].parent \in Live'
<1>1. Live \subseteq Thread /\ NULL \notin Thread
  BY LiveType, DesignAssumption
<1>2. \A u \in Live : thr[u].parent # t
  BY <1>1 DEF Linked
<1>3. \A u \in Live' : thr'[u].parent # NULL => thr'[u].parent \in Live'
  BY DEF Linked
<1>4. ASSUME NEW u \in Live'
      PROVE  thr'[u].children = Cardinality({v \in Live' : thr'[v].parent = u})
  <2> DEFINE K == {v \in Live' : thr'[v].parent = u}
  <2>1. CASE u = t
    <3>1. K = {}
      BY <1>1, <1>2, <2>1
    <3> QED BY <2>1, <3>1, FS_EmptySet
  <2>2. CASE u # t /\ u = p
    <3>1. u \in Live /\ K = Kids(u) \cup {t} /\ t \notin Kids(u)
      BY <2>2 DEF Kids
    <3>2. IsFiniteSet(Kids(u)) /\ thr[u].children = Cardinality(Kids(u))
      BY <3>1, ChildrenNat
    <3>3. Cardinality(K) = Cardinality(Kids(u)) + 1
      <4>1. IsFiniteSet(Kids(u)) /\ Cardinality(Kids(u) \cup {t}) = Cardinality(Kids(u)) + 1
        BY <3>1, <3>2, FS_AddElement
      <4> QED BY <3>1, <4>1
    <3>4. thr'[u].children = thr[u].children + 1
      BY <2>2, <3>1
    <3>5. thr'[u].children = Cardinality(K)
      <4> HIDE DEF K
      <4> QED BY <3>2, <3>3, <3>4
    <3> QED BY <3>5
  <2>3. CASE u # t /\ u # p
    <3>1. u \in Live /\ K = Kids(u)
      BY <1>1, <2>3 DEF Kids
    <3>2. thr[u].children = Cardinality(Kids(u)) /\ thr[u].children \in Nat
      BY <3>1, ChildrenNat
    <3>3. thr'[u].children = thr[u].children
      BY <2>3, <3>1, <3>2
    <3> QED BY <3>1, <3>2, <3>3
  <2> HIDE DEF K
  <2> QED BY <2>1, <2>2, <2>3 DEF K
<1> QED BY <1>3, <1>4 DEF ChildCount

(* A thread is born behind the thread that runs. *)
LEMMA ChildBorn ==
  ASSUME ThreadsInv, NEW ops, Executing(ops), NEW t \in Thread, NEW s \in Stmt,
         NEW T \in [Thread -> ThreadRec], AddChild(t, Top.thr, s, T),
         \A u \in Thread : /\ T[u].state = thr[u].state /\ T[u].parent = thr[u].parent
                           /\ T[u].children = thr[u].children
  PROVE  /\ t \notin Live /\ Live' = Live \cup {t} /\ PoolOnce'
         /\ thr'[t].state = "ACTIVE" /\ thr'[t].curr = s /\ thr'[t].children = 0
         /\ thr'[t].parent = Top.thr /\ ~thr'[t].kill
         /\ \A u \in Thread : u # t =>
              /\ thr'[u].state = thr[u].state /\ thr'[u].parent = thr[u].parent
              /\ thr'[u].children = thr[u].children + (IF u = Top.thr THEN 1 ELSE 0)
              /\ thr'[u].kill = T[u].kill /\ thr'[u].curr = T[u].curr
         /\ active' \in Seq(Thread) /\ Distinct(active')
         /\ ToSet(active') = ToSet(active) \cup {t} /\ Len(active') = Len(active) + 1
         /\ \A k \in 1..Len(frames) : AtHead(k) =>
              /\ \A j \in 1..(Len(frames) - k + 1) : active'[j] = active[j]
              /\ active'[Len(frames) - k + 2] = t
         /\ ChildCount' /\ \A u \in Live' : thr'[u].parent # NULL => thr'[u].parent \in Live'
<1> USE DEF ThreadsInv
<1>1. Top.thr \in Live /\ Top.thr \in Thread /\ Live \subseteq Thread
  BY RunningTop, LiveType
<1>2. t \notin Live /\ Live' = Live \cup {t}
  BY AllocLive DEF AddChild
<1>3. PoolOnce'
  BY AllocPoolOnce DEF AddChild
<1>4. t # Top.thr
  BY <1>1, <1>2
<1> DEFINE n == NewThread(Top.thr, s, "ACTIVE", T[Top.thr].time)
           r == [T[Top.thr] EXCEPT !.children = @ + 1]
<1>5. \A u \in Thread : thr'[u] = IF u = t THEN n ELSE IF u = Top.thr THEN r ELSE T[u]
  BY <1>1, <1>4 DEF AddChild
<1>6. /\ n.state = "ACTIVE" /\ n.curr = s /\ n.children = 0 /\ n.parent = Top.thr
      /\ n.kill = FALSE
  BY DEF NewThread
<1>7. T[Top.thr] \in ThreadRec
  BY <1>1
<1>8. /\ r.state = T[Top.thr].state /\ r.parent = T[Top.thr].parent
      /\ r.children = T[Top.thr].children + 1 /\ r.kill = T[Top.thr].kill
      /\ r.curr = T[Top.thr].curr
  BY <1>7 DEF ThreadRec
<1> HIDE DEF n, r
<1>9. \A u \in Thread : T[u].children + 0 = T[u].children
  BY DEF ThreadRec
<1>10. \A u \in Thread : u # t =>
         /\ thr'[u].state = thr[u].state /\ thr'[u].parent = thr[u].parent
         /\ thr'[u].children = thr[u].children + (IF u = Top.thr THEN 1 ELSE 0)
         /\ thr'[u].kill = T[u].kill /\ thr'[u].curr = T[u].curr
  BY <1>5, <1>8, <1>9
<1>11. active \in Seq(Thread) /\ Distinct(active) /\ ToSet(active) \subseteq Live
  BY DEF TypeOK, Placed
<1> DEFINE i == IndexIn(active, Top.thr)
<1>12. i + 1 \in 1..(Len(active) + 1) /\ active' = InsertAt(active, i + 1, t) /\ i \in Nat
  BY <1>11, IndexInType DEF AddChild
<1>13. \A k \in 1..Len(frames) : AtHead(k) => i = Len(frames) - k + 1
  <2> SUFFICES ASSUME NEW k \in 1..Len(frames), AtHead(k) PROVE i = Len(frames) - k + 1
    OBVIOUS
  <2>1. Len(frames) \in k..Len(frames) /\ Top = frames[Len(frames)]
    BY RunningTop DEF Top
  <2>2. active[Len(frames) - k + 1] = Top.thr /\ Len(frames) - k + 1 \in 1..Len(active)
    BY <1>11, <2>1 DEF AtHead
  <2> QED BY <1>11, <2>2, IndexInDistinct
<1> HIDE DEF i
<1>14. /\ active' \in Seq(Thread) /\ Len(active') = Len(active) + 1
       /\ \A j \in 1..i : active'[j] = active[j]
       /\ active'[i + 1] = t
       /\ ToSet(active') = ToSet(active) \cup {t}
       /\ Distinct(active')
  <2> DEFINE m == i + 1
  <2>1. m \in 1..(Len(active) + 1) /\ active' = InsertAt(active, m, t) /\ m - 1 = i
    BY <1>12
  <2> HIDE DEF m
  <2>2. t \notin ToSet(active)
    BY <1>2, <1>11
  <2>3. /\ active' \in Seq(Thread) /\ Len(active') = Len(active) + 1
        /\ \A j \in 1..(m - 1) : active'[j] = active[j]
        /\ active'[m] = t
        /\ ToSet(active') = ToSet(active) \cup {t}
        /\ Distinct(active')
    <3> DEFINE q == InsertAt(active, m, t)
    <3>1. /\ q \in Seq(Thread) /\ Len(q) = Len(active) + 1
          /\ \A j \in 1..(m - 1) : q[j] = active[j]
          /\ q[m] = t
          /\ ToSet(q) = ToSet(active) \cup {t}
          /\ Distinct(q)
      <4>1. active \in Seq(Thread) /\ Distinct(active) /\ m \in 1..(Len(active) + 1)
        BY <1>11, <2>1
      <4> QED BY <2>2, <4>1, InsertDistinct
    <3> QED BY <2>1, <3>1
  <2> QED BY <2>1, <2>3 DEF m
<1>15. \A k \in 1..Len(frames) : AtHead(k) =>
         /\ \A j \in 1..(Len(frames) - k + 1) : active'[j] = active[j]
         /\ active'[Len(frames) - k + 2] = t
  BY <1>13, <1>14, RunningTop
<1>16. /\ ChildCount'
       /\ \A u \in Live' : thr'[u].parent # NULL => thr'[u].parent \in Live'
  <2> DEFINE p == Top.thr
  <2>1. p \in Live \cup {NULL} /\ thr'[t].parent = p /\ thr'[t].children = 0
    BY <1>1, <1>5, <1>6
  <2>2. \A u \in Live : /\ thr'[u].parent = thr[u].parent
                        /\ thr'[u].children = thr[u].children + (IF u = p THEN 1 ELSE 0)
    BY <1>1, <1>2, <1>10
  <2> HIDE DEF p
  <2> QED BY <1>2, <2>1, <2>2, BirthFamilies DEF ChildrenSound
<1> QED BY <1>2, <1>3, <1>5, <1>6, <1>10, <1>14, <1>15, <1>16

(* A call or a fork: no function is running, and the caller has a child. *)
LEMMA SpawnKeeps ==
  ASSUME StructuredDesign, ThreadsInv, Undisturbed, ExecCall \/ ExecFork
  PROVE  ThreadsInv'
<1>1. TypeOK /\ thr \in [Thread -> ThreadRec] /\ TypeOK'
  BY SpawnType DEF ThreadsInv, TypeOK
<1> DEFINE ops == {"CALL", "FORK"}
<1>2. /\ Executing(ops) /\ Top.stmt \in Stmt /\ Op[Top.stmt] \in ops
      /\ UNCHANGED <<delayed, simulate, now, phase>>
  <2>1. Executing(ops) /\ UNCHANGED <<delayed, simulate, now, phase>>
    BY DEF ExecCall, ExecFork, Evaluating, Executing
  <2> QED BY <1>1, <2>1, RunningTop
<1>3. PICK t \in Thread : AddChild(t, Top.thr, First[Target[Top.stmt]], Executed(thr))
  BY DEF ExecCall, ExecFork
<1>4. PICK chg \in BOOLEAN, branch \in BOOLEAN :
        /\ Advance(chg, branch)
        /\ Op[Top.stmt] = "CALL" => ~chg /\ ~branch
  BY <1>2 DEF ExecCall, ExecFork, Evaluating, Executing
<1>5. /\ Top.thr \in Live /\ thr[Top.thr].state = "ACTIVE" /\ Top.stmt # NULL
      /\ frames # <<>> /\ ~thr[Top.thr].kill /\ simulate /\ Top.thr \in Thread
      /\ Len(frames) # 1 => FunitOf[Top.stmt] \in Functions
  BY <1>1, <1>2, RunningTop, LiveType, NotStopped DEF Executing
<1>6. Len(frames) = 1
  BY <1>2, <1>5 DEF StructuredDesign
<1>7. /\ CallersIn(frames) = {} /\ Running = {Top.thr} /\ active # <<>> /\ Head(active) = Top.thr
  BY <1>5, <1>6, SingleCall
<1>8. /\ Len(frames') = Len(frames) /\ Top'.thr = Top.thr /\ Top'.chg = chg
      /\ \A i \in 1..(Len(frames) - 1) : frames'[i] = frames[i]
      /\ Op[Top.stmt] = "CALL" => Top'.stmt = NULL
      /\ Op[Top.stmt] = "FORK" => Top'.stmt # NULL /\ Op[Top'.stmt] \in {"FORK", "JOIN"}
  BY <1>1, <1>2, <1>4, AdvanceEffect, Successor DEF ContextSwitch
<1>9. /\ frames' # <<>> /\ Running' = {Top.thr} /\ CallersIn(frames') = {}
      /\ \A i \in 1..Len(frames) : frames'[i].thr = frames[i].thr
  BY <1>1, <1>5, <1>7, <1>8, FramesKept
<1> DEFINE E == Executed(thr)
           s == First[Target[Top.stmt]]
<1>10. /\ E \in [Thread -> ThreadRec]
       /\ \A u \in Thread : /\ E[u].state = thr[u].state /\ E[u].parent = thr[u].parent
                            /\ E[u].children = thr[u].children /\ E[u].kill = thr[u].kill
                            /\ u # Top.thr => E[u].curr = thr[u].curr
       /\ E[Top.thr].curr = Top.stmt
  BY <1>1, <1>2, ExecutedEffect
<1>11. s \in Stmt
  BY <1>2, DesignAssumption
<1>12. AddChild(t, Top.thr, s, E)
  BY <1>3
<1> HIDE DEF E, s
<1>13. /\ t \notin Live /\ Live' = Live \cup {t} /\ PoolOnce'
       /\ thr'[t].state = "ACTIVE" /\ thr'[t].children = 0
       /\ \A u \in Thread : u # t =>
            /\ thr'[u].state = thr[u].state /\ thr'[u].parent = thr[u].parent
            /\ thr'[u].children = thr[u].children + (IF u = Top.thr THEN 1 ELSE 0)
            /\ thr'[u].kill = E[u].kill /\ thr'[u].curr = E[u].curr
       /\ active' \in Seq(Thread) /\ Distinct(active')
       /\ ToSet(active') = ToSet(active) \cup {t} /\ Len(active') = Len(active) + 1
       /\ \A k \in 1..Len(frames) : AtHead(k) =>
            /\ \A j \in 1..(Len(frames) - k + 1) : active'[j] = active[j]
            /\ active'[Len(frames) - k + 2] = t
       /\ ChildCount' /\ \A u \in Live' : thr'[u].parent # NULL => thr'[u].parent \in Live'
  BY <1>2, <1>10, <1>11, <1>12, ChildBorn
<1>14. Live \subseteq Thread /\ t # Top.thr /\ \A u \in Live : u # t
  BY <1>1, <1>5, <1>13, LiveType
<1>15. /\ thr'[Top.thr].state = "ACTIVE" /\ thr'[Top.thr].curr = Top.stmt
       /\ ~thr'[Top.thr].kill /\ thr'[Top.thr].children = thr[Top.thr].children + 1
  BY <1>5, <1>10, <1>13, <1>14
<1>16. \A u \in Live : thr[u].children \in Nat
  BY <1>1, ChildrenNat DEF ThreadsInv, ChildrenSound
<1>17. Placed'
  <2>1. ToSet(active') \subseteq Live' /\ ToSet(delayed') \subseteq Live'
    BY <1>2, <1>13 DEF ThreadsInv, Placed
  <2>2. \A u \in Live' : thr'[u].state = "ACTIVE" <=> u \in ToSet(active') \cup CallersIn(frames')
    BY <1>7, <1>9, <1>13, <1>14 DEF ThreadsInv, Placed
  <2>3. \A u \in Live' : thr'[u].state = "DELAYED" <=> u \in ToSet(delayed')
    <3>1. t \notin ToSet(delayed) /\ delayed' = delayed
      BY <1>2, <1>13 DEF ThreadsInv, Placed
    <3> QED BY <1>13, <1>14, <3>1 DEF ThreadsInv, Placed
  <2>4. \A u \in Thread \ Live' : thr'[u].state # "DELAYED"
    BY <1>13 DEF ThreadsInv, Placed
  <2>5. Distinct(delayed')
    BY <1>2 DEF ThreadsInv, Placed
  <2> QED BY <1>13, <2>1, <2>2, <2>3, <2>4, <2>5 DEF Placed
<1>18. Linked'
  BY <1>5, <1>9, <1>13 DEF Linked
<1>19. ChildrenSound'
  <2>1. ASSUME NEW u \in Live'
        PROVE  /\ thr'[u].state = "NONE" => thr'[u].children > 0
               /\ thr'[u].children > 0 => thr'[u].state = "NONE" \/ u \in Running'
    <3>1. CASE u = t
      BY <1>13, <3>1
    <3>2. CASE u = Top.thr
      BY <1>9, <1>15, <3>2
    <3>3. CASE u # t /\ u # Top.thr
      <4>1. u \in Live /\ u \in Thread /\ thr[u].children \in Nat
        BY <1>13, <1>14, <1>16, <3>3
      <4>2. thr'[u].state = thr[u].state /\ thr'[u].children = thr[u].children
        BY <1>13, <3>3, <4>1
      <4> QED BY <1>7, <3>3, <4>1, <4>2 DEF ThreadsInv, ChildrenSound, BlockedHaveChildren
    <3> QED BY <3>1, <3>2, <3>3
  <2> QED BY <1>13, <2>1 DEF ChildrenSound, BlockedHaveChildren
<1>20. Chained'
  <2>1. phase' = "sim" /\ Len(frames') = 1
    BY <1>2, <1>5, <1>6, <1>8 DEF ThreadsInv, Chained
  <2> QED BY <2>1 DEF Chained
<1>21. HeadRuns'
  <2>1. AtHead(1)
    BY <1>2, <1>6, RunningTop
  <2>2. active'[1] = active[1] /\ active[1] = frames[1].thr /\ Len(active) >= 1
    BY <1>6, <1>13, <2>1 DEF AtHead
  <2>3. active \in Seq(Thread) /\ Len(active') >= 1
    BY <1>1, <1>13, <2>2 DEF TypeOK
  <2>4. Len(frames') = 1 /\ frames'[1].thr = frames[1].thr
    BY <1>6, <1>8, <1>9
  <2>5. AtHead(1)'
    BY <2>2, <2>3, <2>4 DEF AtHead
  <2> QED BY <2>4, <2>5 DEF HeadRuns
<1>22. DelayedTop'
  BY <1>8, <1>15 DEF DelayedTop
<1>23. BusyTop'
  BY <1>2, <1>4, <1>5, <1>6, <1>8, <1>15 DEF BusyTop
<1>24. EndedTop'
  <2>1. thr'[Top.thr].children > 0
    BY <1>5, <1>15, <1>16
  <2> QED BY <1>2, <1>8, <1>15, <2>1 DEF EndedTop
<1>25. WaitsWhereWoken'
  <2> SUFFICES ASSUME NEW u \in Live', thr'[u].state = "WAITING"
               PROVE  thr'[u].curr # NULL /\ (Op[thr'[u].curr] \in ContextSwitch \/ thr'[u].curr \in Cont)
    BY DEF WaitsWhereWoken
  <2>1. u \in Live /\ u # Top.thr /\ u # t /\ u \in Thread
    BY <1>13, <1>14, <1>15
  <2>2. thr[u].state = "WAITING" /\ thr'[u].curr = thr[u].curr
    BY <1>10, <1>13, <2>1
  <2> QED BY <2>1, <2>2 DEF ThreadsInv, WaitsWhereWoken
<1> QED BY <1>1, <1>13, <1>17, <1>18, <1>19, <1>20, <1>21, <1>22, <1>23, <1>24, <1>25 DEF ThreadsInv

(* A function is called: the thread that runs becomes a caller. *)
(* A call of a function puts a frame on top of the calls in progress. *)
LEMMA CalledFrames ==
  ASSUME TypeOK, NEW ops, Executing(ops), NEW t \in Thread, NEW s \in Stmt,
         frames' = Append([frames EXCEPT ![Len(frames)].called = TRUE],
                          [thr |-> t, stmt |-> s, chg |-> FALSE, called |-> FALSE])
  PROVE  /\ Len(frames') = Len(frames) + 1
         /\ \A i \in 1..Len(frames) : frames'[i].thr = frames[i].thr /\ frames'[i].stmt = frames[i].stmt
         /\ \A i \in 1..(Len(frames) - 1) : frames'[i] = frames[i]
         /\ frames'[Len(frames) + 1].thr = t /\ frames'[Len(frames) + 1].stmt = s
         /\ frames'[Len(frames) + 1].called = FALSE
         /\ Top' = frames'[Len(frames) + 1]
<1> DEFINE c == [Top EXCEPT !.called = TRUE]
           n == Len(frames)
           new == [thr |-> t, stmt |-> s, chg |-> FALSE, called |-> FALSE]
           base == [frames EXCEPT ![n] = c]
<1>1. /\ Top.thr \in Thread /\ n \in Nat /\ n \in 1..n
      /\ Top = frames[n] /\ Top \in FrameRec /\ DOMAIN frames = 1..n
  BY ExecutingType, FramesType DEF Executing
<1>2. /\ Len(frames') = n + 1 /\ frames'[n + 1] = new
      /\ \A i \in 1..(n - 1) : frames'[i] = frames[i]
      /\ frames'[n] = c
  <2>1. c \in FrameRec /\ new \in FrameRec
    BY <1>1 DEF FrameRec
  <2>2. frames' = Append(base, new)
    BY <1>1
  <2>3. frames \in Seq(FrameRec)
    BY DEF TypeOK
  <2> HIDE DEF c, new
  <2>4. /\ base \in Seq(FrameRec) /\ Len(base) = n
        /\ \A i \in 1..n : base[i] = IF i = n THEN c ELSE frames[i]
    BY <1>1, <2>1, <2>3, ExceptSeq
  <2> HIDE DEF base
  <2>5. /\ Len(Append(base, new)) = Len(base) + 1 /\ Append(base, new)[Len(base) + 1] = new
        /\ \A i \in 1..Len(base) : Append(base, new)[i] = base[i]
    BY <2>1, <2>4, AppendProperties
  <2>6. n \in Nat /\ n \in 1..n
    BY <1>1
  <2> HIDE DEF n
  <2>7. \A i \in 1..(n - 1) : i \in 1..n /\ i # n
    BY <2>6
  <2> QED BY <2>2, <2>4, <2>5, <2>6, <2>7
<1>3. c.thr = Top.thr /\ c.stmt = Top.stmt /\ new.thr = t /\ new.stmt = s /\ new.called = FALSE
  BY <1>1 DEF FrameRec
<1> HIDE DEF c, new, base
<1>4. Top' = frames'[n + 1]
  BY <1>2 DEF Top
<1>5. n \in Nat
  BY <1>1
<1>6. \A i \in 1..n : i = n \/ i \in 1..(n - 1)
  BY <1>5
<1> QED BY <1>1, <1>2, <1>3, <1>4, <1>6

LEMMA CallFunctionKeeps ==
  ASSUME StructuredDesign, ThreadsInv, CallFunction
  PROVE  ThreadsInv'
<1>1. TypeOK /\ thr \in [Thread -> ThreadRec] /\ TypeOK'
  BY CallFunctionType DEF ThreadsInv, TypeOK
<1>2. /\ Executing(OpKind) /\ Func[Top.stmt] # NULL
      /\ UNCHANGED <<delayed, simulate, now, phase>>
  BY DEF CallFunction
<1> DEFINE s == First[Func[Top.stmt]]
           n == Len(frames)
<1>3. PICK t \in Thread :
        /\ AddChild(t, Top.thr, First[Func[Top.stmt]], thr)
        /\ frames' = Append([frames EXCEPT ![Len(frames)].called = TRUE],
                            [thr |-> t, stmt |-> First[Func[Top.stmt]], chg |-> FALSE,
                             called |-> FALSE])
  BY DEF CallFunction
<1>4. /\ Top.thr \in Live /\ thr[Top.thr].state = "ACTIVE" /\ Top.stmt # NULL /\ Top.stmt \in Stmt
      /\ frames # <<>> /\ Top.thr \in Thread /\ n \in Nat /\ n \in 1..n
      /\ Top = frames[n] /\ Top \in FrameRec /\ DOMAIN frames = 1..n
      /\ Op[Top.stmt] \notin {"FORK", "JOIN"} => thr[Top.thr].children = 0
      /\ n # 1 => FunitOf[Top.stmt] \in Functions
      /\ \E k \in 1..n : AtHead(k)
  BY <1>1, <1>2, RunningTop, LiveType, ExecutingType, FramesType DEF Executing
<1>5. Op[Top.stmt] \notin {"FORK", "JOIN"} /\ thr[Top.thr].children = 0
  BY <1>2, <1>4 DEF StructuredDesign
<1>6. s \in Stmt /\ s # NULL /\ FunitOf[s] \in Functions
  <2>1. Func[Top.stmt] \in Functions /\ Func[Top.stmt] \in Funit
    BY <1>2, <1>4, DesignAssumption DEF Functions
  <2> QED BY <2>1, DesignAssumption DEF StructuredDesign
<1>7. Len(frames') = n + 1
  BY <1>1, <1>2, <1>3, <1>6, CalledFrames
<1>9. /\ \A i \in 1..n : frames'[i].thr = frames[i].thr /\ frames'[i].stmt = frames[i].stmt
      /\ frames'[n + 1].thr = t /\ frames'[n + 1].stmt = s
      /\ Top' = frames'[n + 1]
  BY <1>1, <1>2, <1>3, <1>6, CalledFrames
<1>10. DOMAIN frames' = 1..(n + 1) /\ frames' # <<>>
  BY <1>1, <1>4, <1>7 DEF TypeOK
<1>11. /\ t \notin Live /\ Live' = Live \cup {t} /\ PoolOnce'
       /\ thr'[t].state = "ACTIVE" /\ thr'[t].curr = s /\ thr'[t].children = 0
       /\ thr'[t].parent = Top.thr /\ ~thr'[t].kill
       /\ \A u \in Thread : u # t =>
            /\ thr'[u].state = thr[u].state /\ thr'[u].parent = thr[u].parent
            /\ thr'[u].children = thr[u].children + (IF u = Top.thr THEN 1 ELSE 0)
            /\ thr'[u].kill = thr[u].kill /\ thr'[u].curr = thr[u].curr
       /\ active' \in Seq(Thread) /\ Distinct(active')
       /\ ToSet(active') = ToSet(active) \cup {t} /\ Len(active') = Len(active) + 1
       /\ \A k \in 1..Len(frames) : AtHead(k) =>
            /\ \A j \in 1..(Len(frames) - k + 1) : active'[j] = active[j]
            /\ active'[Len(frames) - k + 2] = t
       /\ ChildCount' /\ \A u \in Live' : thr'[u].parent # NULL => thr'[u].parent \in Live'
  <2>1. AddChild(t, Top.thr, s, thr)
    BY <1>3
  <2>2. \A u \in Thread : /\ thr[u].state = thr[u].state /\ thr[u].parent = thr[u].parent
                          /\ thr[u].children = thr[u].children
    OBVIOUS
  <2> HIDE DEF s, n
  <2> QED BY <1>1, <1>2, <1>6, <2>1, <2>2, ChildBorn
<1> HIDE DEF s
<1>12. Live \subseteq Thread /\ t # Top.thr /\ \A u \in Live : u # t
  BY <1>1, <1>4, <1>11, LiveType
<1>13. \A i \in 1..n : frames[i].thr \in Live /\ frames[i].thr \in Thread /\ frames[i].thr # t
  <2>1. \A i \in 1..n : frames[i].thr \in Running
    BY <1>4 DEF Running
  <2> QED BY <1>12, <2>1 DEF ThreadsInv, Linked
<1>14. \A u \in Live : thr[u].children \in Nat
  BY <1>1, ChildrenNat DEF ThreadsInv, ChildrenSound
<1>15. Running' = Running \cup {t} /\ CallersIn(frames') = CallersIn(frames) \cup {Top.thr}
  <2>0. n \in Nat /\ n >= 1 /\ Len(frames') = n + 1
    BY <1>4, <1>7
  <2> HIDE DEF n
  <2>1. Len(frames') - 1 = n
    BY <2>0
  <2>2. \A i \in 1..(n + 1) : i \in 1..n \/ i = n + 1
    BY <2>0
  <2>3. \A i \in 1..n : i \in 1..(n + 1) /\ (i \in 1..(n - 1) \/ i = n)
    BY <2>0
  <2>4. Running' = Running \cup {t}
    <3>1. n + 1 \in 1..(n + 1)
      BY <2>0
    <3>2. Running = {frames[i].thr : i \in 1..n}
      BY <1>4 DEF Running
    <3>3. Running' = {frames'[i].thr : i \in 1..(n + 1)}
      BY <1>10 DEF Running
    <3> QED BY <1>9, <2>2, <2>3, <3>1, <3>2, <3>3
  <2>5. \A i \in 1..(n - 1) : i \in 1..n
    BY <2>0
  <2>6. CallersIn(frames') = CallersIn(frames) \cup {Top.thr}
    <3>1. n \in 1..n /\ frames[n].thr = Top.thr
      BY <1>4
    <3>2. CallersIn(frames) = {frames[i].thr : i \in 1..(n - 1)}
      BY DEF CallersIn, n
    <3>3. CallersIn(frames') = {frames'[i].thr : i \in 1..n}
      BY <2>1 DEF CallersIn
    <3> QED BY <1>9, <2>3, <2>5, <3>1, <3>2, <3>3
  <2> QED BY <2>4, <2>6
<1>16. Placed'
  <2>1. ToSet(active') \subseteq Live' /\ ToSet(delayed') \subseteq Live'
    BY <1>2, <1>11 DEF ThreadsInv, Placed
  <2>2. \A u \in Live' : thr'[u].state = "ACTIVE" <=> u \in ToSet(active') \cup CallersIn(frames')
    BY <1>4, <1>11, <1>12, <1>15 DEF ThreadsInv, Placed
  <2>3. \A u \in Live' : thr'[u].state = "DELAYED" <=> u \in ToSet(delayed')
    <3>1. t \notin ToSet(delayed) /\ delayed' = delayed
      BY <1>2, <1>11 DEF ThreadsInv, Placed
    <3> QED BY <1>11, <1>12, <3>1 DEF ThreadsInv, Placed
  <2>4. \A u \in Thread \ Live' : thr'[u].state # "DELAYED"
    BY <1>11 DEF ThreadsInv, Placed
  <2>5. Distinct(delayed')
    BY <1>2 DEF ThreadsInv, Placed
  <2> QED BY <1>11, <2>1, <2>2, <2>3, <2>4, <2>5 DEF Placed
<1>17. Linked'
  BY <1>11, <1>15 DEF ThreadsInv, Linked
<1>18. ChildrenSound'
  <2>1. ASSUME NEW u \in Live'
        PROVE  /\ thr'[u].state = "NONE" => thr'[u].children > 0
               /\ thr'[u].children > 0 => thr'[u].state = "NONE" \/ u \in Running'
    <3>1. CASE u = t
      BY <1>11, <3>1
    <3>2. CASE u = Top.thr
      <4>1. u \in Running
        BY <1>4, <3>2 DEF Running
      <4>2. thr'[u].state = "ACTIVE"
        BY <1>4, <1>11, <1>12, <3>2
      <4> QED BY <1>15, <4>1, <4>2
    <3>3. CASE u # t /\ u # Top.thr
      <4>1. u \in Live /\ u \in Thread /\ thr[u].children \in Nat
        BY <1>11, <1>12, <1>14, <3>3
      <4>2. thr'[u].state = thr[u].state /\ thr'[u].children = thr[u].children
        BY <1>11, <3>3, <4>1
      <4> QED BY <1>15, <4>1, <4>2 DEF ThreadsInv, ChildrenSound, BlockedHaveChildren
    <3> QED BY <3>1, <3>2, <3>3
  <2> QED BY <1>11, <2>1 DEF ChildrenSound, BlockedHaveChildren
<1>19. Chained'
  <2>1. phase' = "sim"
    BY <1>2, <1>4 DEF ThreadsInv, Chained
  <2>2. ASSUME NEW i \in 1..(n + 1), NEW j \in 1..(n + 1), frames'[i].thr = frames'[j].thr
        PROVE  i = j
    <3>1. CASE i \in 1..n /\ j \in 1..n
      BY <1>9, <2>2, <3>1 DEF ThreadsInv, Chained
    <3>2. CASE i \in 1..n /\ j \notin 1..n
      <4>1. j = n + 1
        BY <1>4, <3>2
      <4> QED BY <1>9, <1>13, <2>2, <3>2, <4>1
    <3>3. CASE i \notin 1..n /\ j \in 1..n
      <4>1. i = n + 1
        BY <1>4, <3>3
      <4> QED BY <1>9, <1>13, <2>2, <3>3, <4>1
    <3>4. CASE i \notin 1..n /\ j \notin 1..n
      BY <1>4, <3>4
    <3> QED BY <3>1, <3>2, <3>3, <3>4
  <2>3. ASSUME NEW i \in 1..n
        PROVE  /\ frames'[i].stmt # NULL /\ Op[frames'[i].stmt] \notin {"FORK", "JOIN"}
               /\ thr'[frames'[i].thr].state = "ACTIVE" /\ thr'[frames'[i].thr].children = 1
               /\ thr'[frames'[i + 1].thr].parent = frames'[i].thr
    <3>1. CASE i = n
      <4>1. frames'[i].thr = Top.thr /\ frames'[i].stmt = Top.stmt /\ frames'[i + 1].thr = t
        BY <1>4, <1>9, <3>1
      <4>2. thr'[Top.thr].state = "ACTIVE" /\ thr'[Top.thr].children = 0 + 1
        BY <1>4, <1>5, <1>11, <1>12
      <4> QED BY <1>4, <1>5, <1>11, <4>1, <4>2
    <3>2. CASE i # n
      <4>1. i \in 1..(n - 1) /\ i + 1 \in 1..n
        BY <1>4, <3>2
      <4>2. /\ frames'[i].thr = frames[i].thr /\ frames'[i].stmt = frames[i].stmt
            /\ frames'[i + 1].thr = frames[i + 1].thr /\ frames[i].thr # Top.thr
        BY <1>4, <1>9, <3>2, <4>1 DEF ThreadsInv, Chained
      <4>3. /\ frames[i].stmt # NULL /\ Op[frames[i].stmt] \notin {"FORK", "JOIN"}
            /\ thr[frames[i].thr].state = "ACTIVE" /\ thr[frames[i].thr].children = 1
            /\ thr[frames[i + 1].thr].parent = frames[i].thr
        BY <4>1 DEF ThreadsInv, Chained
      <4>4. /\ thr'[frames[i].thr].state = thr[frames[i].thr].state
            /\ thr'[frames[i].thr].children = thr[frames[i].thr].children + 0
            /\ thr'[frames[i + 1].thr].parent = thr[frames[i + 1].thr].parent
        BY <1>11, <1>13, <4>1, <4>2
      <4> QED BY <4>2, <4>3, <4>4
    <3> QED BY <3>1, <3>2
  <2>4. ASSUME NEW i \in 2..(n + 1)
        PROVE  /\ thr'[frames'[i].thr].curr # NULL
               /\ FunitOf[thr'[frames'[i].thr].curr] \in Functions
               /\ frames'[i].stmt # NULL => FunitOf[frames'[i].stmt] \in Functions
    <3>1. CASE i = n + 1
      BY <1>6, <1>9, <1>11, <3>1
    <3>2. CASE i # n + 1
      <4>1. i \in 2..n /\ i \in 1..n
        BY <1>4, <3>2
      <4>2. /\ thr[frames[i].thr].curr # NULL
            /\ FunitOf[thr[frames[i].thr].curr] \in Functions
            /\ frames[i].stmt # NULL => FunitOf[frames[i].stmt] \in Functions
        BY <4>1 DEF ThreadsInv, Chained
      <4> QED BY <1>9, <1>11, <1>13, <4>1, <4>2
    <3> QED BY <3>1, <3>2
  <2>5. Len(frames') = n + 1 /\ Len(frames') - 1 = n
    BY <1>4, <1>7
  <2> HIDE DEF n
  <2> QED BY <2>1, <2>2, <2>3, <2>4, <2>5 DEF Chained
<1>20. HeadRuns'
  <2>1. PICK k \in 1..n : AtHead(k)
    BY <1>4
  <2>2. active \in Seq(Thread) /\ Len(active) \in Nat /\ Len(active') = Len(active) + 1
    BY <1>1, <1>11 DEF TypeOK
  <2>3. Len(frames') = n + 1 /\ n - k + 1 <= Len(active)
    BY <1>7, <2>1 DEF AtHead
  <2>4. \A i \in k..(n + 1) : active'[i - k + 1] = frames'[i].thr
    <3> SUFFICES ASSUME NEW i \in k..(n + 1) PROVE active'[i - k + 1] = frames'[i].thr
      OBVIOUS
    <3>1. CASE i = n + 1
      <4>1. i - k + 1 = n - k + 2
        BY <1>4, <3>1
      <4> QED BY <1>9, <1>11, <2>1, <3>1, <4>1
    <3>2. CASE i # n + 1
      <4>1. i \in 1..n /\ i \in k..n /\ i - k + 1 \in 1..(n - k + 1)
        BY <1>4, <3>2
      <4>2. active'[i - k + 1] = active[i - k + 1]
        BY <1>11, <2>1, <4>1
      <4> QED BY <1>9, <2>1, <4>1, <4>2 DEF AtHead
    <3> QED BY <3>1, <3>2
  <2>5. \A i \in 1..(k - 1) : frames'[i].thr \notin ToSet(active')
    <3> SUFFICES ASSUME NEW i \in 1..(k - 1) PROVE frames'[i].thr \notin ToSet(active')
      OBVIOUS
    <3>1. i \in 1..n
      BY <1>4
    <3> QED BY <1>9, <1>11, <1>13, <2>1, <3>1 DEF AtHead
  <2>6. AtHead(k)'
    <3>1. (n + 1) - k + 1 <= Len(active')
      BY <1>4, <2>2, <2>3
    <3> QED BY <2>3, <2>4, <2>5, <3>1 DEF AtHead
  <2>7. k \in 1..(n + 1)
    BY <1>4
  <2> QED BY <2>3, <2>6, <2>7 DEF HeadRuns
<1>21. Top'.thr = t /\ Top'.stmt # NULL
  BY <1>6, <1>9
<1>22. DelayedTop' /\ BusyTop' /\ EndedTop'
  BY <1>11, <1>21 DEF DelayedTop, BusyTop, EndedTop
<1>23. WaitsWhereWoken'
  BY <1>11, <1>12 DEF ThreadsInv, WaitsWhereWoken
<1> QED BY <1>1, <1>11, <1>16, <1>17, <1>18, <1>19, <1>20, <1>22, <1>23 DEF ThreadsInv

-----------------------------------------------------------------------------
(* A thread dies *)

(* It has no child, and its parent counts one less. *)
LEMMA DeathFamilies ==
  ASSUME TypeOK, Linked, ChildCount, NEW t \in Live, thr[t].children = 0, Live' = Live \ {t},
         \A u \in Live \ {t} :
           /\ thr'[u].parent = thr[u].parent
           /\ thr'[u].children = thr[u].children - (IF u = thr[t].parent THEN 1 ELSE 0)
  PROVE  /\ ChildCount'
         /\ \A u \in Live' : thr'[u].parent # NULL => thr'[u].parent \in Live'
<1>1. Live \subseteq Thread
  BY LiveType
<1>2. \A u \in Live : thr[u].parent # t
  <2>1. Kids(t) = {}
    BY ChildrenNat
  <2> QED BY <2>1 DEF Kids
<1>3. \A u \in Live' : thr'[u].parent # NULL => thr'[u].parent \in Live'
  BY <1>2 DEF Linked
<1>4. ASSUME NEW u \in Live'
      PROVE  thr'[u].children = Cardinality({v \in Live' : thr'[v].parent = u})
  <2> DEFINE K == {v \in Live' : thr'[v].parent = u}
  <2>1. u \in Live /\ IsFiniteSet(Kids(u)) /\ thr[u].children = Cardinality(Kids(u))
        /\ thr[u].children \in Nat
    BY ChildrenNat
  <2>2. K = Kids(u) \ {t}
    BY DEF Kids
  <2>3. Cardinality(K) = IF t \in Kids(u) THEN Cardinality(Kids(u)) - 1 ELSE Cardinality(Kids(u))
    <3> HIDE DEF K
    <3>1. Cardinality(Kids(u)) \in Nat
      BY <2>1
    <3>2. t \in Kids(u) => Cardinality(Kids(u) \ {t}) = Cardinality(Kids(u)) - 1
      BY <2>1, FS_RemoveElement
    <3>3. t \notin Kids(u) => Kids(u) \ {t} = Kids(u)
      OBVIOUS
    <3> QED BY <2>2, <3>2, <3>3
  <2>4. t \in Kids(u) <=> u = thr[t].parent
    BY DEF Kids
  <2>5. thr'[u].children = thr[u].children - (IF u = thr[t].parent THEN 1 ELSE 0)
    OBVIOUS
  <2> HIDE DEF K
  <2> QED BY <2>1, <2>3, <2>4, <2>5 DEF K
<1> QED BY <1>3, <1>4 DEF ChildCount

(* What the end of sim_thread finds. *)
LEMMA EndingTop ==
  ASSUME ThreadsInv, LoopEnds
  PROVE  /\ frames # <<>> /\ Top.thr \in Live /\ Top.thr \in Thread /\ Top.thr \in Running
         /\ Len(frames) \in Nat /\ Len(frames) >= 1 /\ Top = frames[Len(frames)]
         /\ DOMAIN frames = 1..Len(frames)
         /\ thr[Top.thr].children \in Nat
         /\ thr[Top.thr].parent # NULL =>
              /\ thr[Top.thr].parent \in Live /\ thr[thr[Top.thr].parent].children \in Nat \ {0}
              /\ thr[Top.thr].parent = Top.thr => thr[Top.thr].children # 0
<1> USE DEF ThreadsInv
<1>1. /\ frames # <<>> /\ Len(frames) \in Nat /\ Len(frames) \in 1..Len(frames)
      /\ Top = frames[Len(frames)] /\ DOMAIN frames = 1..Len(frames)
  BY FramesType DEF LoopEnds
<1>2. Top.thr \in Running
  BY <1>1 DEF Running
<1>3. Top.thr \in Live /\ Top.thr \in Thread
  BY <1>2, LiveType DEF Linked
<1>4. \A u \in Live : thr[u].children \in Nat /\ (thr[u].children = 0 <=> Kids(u) = {})
  BY ChildrenNat DEF ChildrenSound
<1>5. thr[Top.thr].parent # NULL =>
        /\ thr[Top.thr].parent \in Live /\ thr[thr[Top.thr].parent].children \in Nat \ {0}
        /\ thr[Top.thr].parent = Top.thr => thr[Top.thr].children # 0
  <2> SUFFICES ASSUME thr[Top.thr].parent # NULL
               PROVE  /\ thr[Top.thr].parent \in Live
                      /\ thr[thr[Top.thr].parent].children \in Nat \ {0}
    OBVIOUS
  <2>1. thr[Top.thr].parent \in Live
    BY <1>3 DEF Linked
  <2>2. Top.thr \in Kids(thr[Top.thr].parent)
    BY <1>3 DEF Kids
  <2> QED BY <1>4, <2>1, <2>2
<1> QED BY <1>1, <1>2, <1>3, <1>4, <1>5

(* A thread that is killed has no child and did not delay itself. *)
LEMMA KilledTop ==
  ASSUME ThreadsInv, LoopEnds, Killed(Top)
  PROVE  /\ thr[Top.thr].children = 0 /\ thr[Top.thr].state = "ACTIVE"
         /\ \E k \in 1..Len(frames) : AtHead(k)
<1>1. frames # <<>> /\ thr[Top.thr].children \in Nat
  BY EndingTop
<1>2. thr[Top.thr].children = 0
  <2> SUFFICES ASSUME thr[Top.thr].children > 0 PROVE FALSE
    BY <1>1
  <2>1. ~thr[Top.thr].kill /\ simulate
    BY <1>1 DEF ThreadsInv, BusyTop
  <2>2. Top.stmt = NULL
    BY <2>1 DEF LoopEnds
  <2>3. ~Top.chg /\ thr[Top.thr].curr # NULL /\ Op[thr[Top.thr].curr] \in {"CALL", "JOIN"}
    BY <1>1, <2>2 DEF ThreadsInv, BusyTop
  <2> QED BY <2>1, <2>3 DEF Killed, BlockEnded
<1>3. thr[Top.thr].state = "ACTIVE"
  <2> SUFFICES ASSUME thr[Top.thr].state # "ACTIVE" PROVE FALSE
    OBVIOUS
  <2>1. /\ ~Top.chg /\ thr[Top.thr].curr # NULL /\ Op[thr[Top.thr].curr] = "DELAY"
        /\ ~thr[Top.thr].kill /\ simulate
    BY <1>1 DEF ThreadsInv, DelayedTop
  <2> QED BY <2>1 DEF Killed, BlockEnded
<1> QED BY <1>1, <1>2, <1>3 DEF ThreadsInv, HeadRuns

(* The thread table after sim_kill_thread. *)
LEMMA KillEffect ==
  ASSUME TypeOK, NEW t \in Thread, KillThread(t)
  PROVE  \A u \in Thread :
           /\ thr'[u].parent = thr[u].parent /\ thr'[u].curr = thr[u].curr
           /\ thr'[u].kill = thr[u].kill
           /\ thr'[u].children = thr[u].children - (IF u = thr[t].parent THEN 1 ELSE 0)
           /\ thr'[u].state = IF LastChild(t) /\ u = thr[t].parent THEN "ACTIVE"
                              ELSE thr[u].state
<1>1. thr \in [Thread -> ThreadRec] /\ thr[t].parent \in Thread \cup {NULL} /\ NULL \notin Thread
  BY DesignAssumption DEF TypeOK, ThreadRec
<1>2. \A u \in Thread : thr[u].children \in Int /\ thr[u].children - 0 = thr[u].children
  BY <1>1 DEF ThreadRec
<1>3. CASE thr[t].parent = NULL
  <2>1. thr' = thr /\ \A u \in Thread : u # thr[t].parent
    BY <1>1, <1>3 DEF KillThread
  <2> QED BY <1>2, <2>1
<1>4. CASE thr[t].parent # NULL
  <2> DEFINE p == thr[t].parent
             r == thr[thr[t].parent]
  <2>1. p \in Thread /\ thr' = [thr EXCEPT ![p] = ParentAfterKill(t)]
    BY <1>1, <1>4 DEF KillThread
  <2>2. \A u \in Thread : thr'[u] = IF u = p THEN ParentAfterKill(t) ELSE thr[u]
    BY <1>1, <2>1
  <2>3. ParentAfterKill(t) = IF LastChild(t)
          THEN [r EXCEPT !.children = r.children - 1, !.time = thr[t].time, !.state = "ACTIVE"]
          ELSE [r EXCEPT !.children = r.children - 1]
    BY DEF ParentAfterKill
  <2>4. r \in ThreadRec
    BY <1>1, <2>1
  <2>5. r = thr[p]
    OBVIOUS
  <2> HIDE DEF r
  <2> DEFINE P == ParentAfterKill(t)
  <2>6. /\ P.parent = r.parent /\ P.curr = r.curr /\ P.kill = r.kill
        /\ P.children = r.children - 1
        /\ P.state = IF LastChild(t) THEN "ACTIVE" ELSE r.state
    BY <2>3, <2>4 DEF ThreadRec
  <2> HIDE DEF P
  <2>7. \A u \in Thread : thr'[u] = IF u = p THEN P ELSE thr[u]
    BY <2>2 DEF P
  <2> HIDE DEF p
  <2>8. p = thr[t].parent
    BY DEF p
  <2> QED BY <1>2, <2>5, <2>6, <2>7, <2>8
<1> QED BY <1>3, <1>4

(* What stands behind a position of a queue. *)
LEMMA RestDistinct ==
  ASSUME NEW q \in Seq(Thread), Distinct(q), NEW m \in 0..Len(q)
  PROVE  LET r == SubSeq(q, m + 1, Len(q))
         IN  /\ r \in Seq(Thread) /\ Distinct(r)
             /\ ToSet(r) = {q[j] : j \in (m + 1)..Len(q)}
             /\ \A j \in 1..m : q[j] \notin ToSet(r)
<1> DEFINE r == SubSeq(q, m + 1, Len(q))
<1>1. /\ r \in Seq(Thread) /\ Len(r) = Len(q) - m
      /\ \A i \in 1..(Len(q) - m) : r[i] = q[m + i]
  <2>1. /\ SubSeq(q, m + 1, Len(q)) \in Seq(Thread)
        /\ Len(SubSeq(q, m + 1, Len(q)))
             = IF m + 1 <= Len(q) THEN Len(q) - (m + 1) + 1 ELSE 0
        /\ \A i \in 1..(Len(q) - (m + 1) + 1) :
             SubSeq(q, m + 1, Len(q))[i] = q[(m + 1) + i - 1]
    BY SubSeqProperties
  <2>2. \A i \in 1..(Len(q) - m) : (m + 1) + i - 1 = m + i /\ i \in 1..(Len(q) - (m + 1) + 1)
    OBVIOUS
  <2> QED BY <2>1, <2>2
<1> HIDE DEF r
<1>2. /\ Len(q) \in Nat /\ DOMAIN q = 1..Len(q) /\ DOMAIN r = 1..(Len(q) - m)
  BY <1>1
<1>3. \A i \in DOMAIN r : m + i \in DOMAIN q /\ m + i \in (m + 1)..Len(q) /\ r[i] = q[m + i]
  BY <1>1, <1>2
<1>4. Distinct(r)
  <2> SUFFICES ASSUME NEW i \in DOMAIN r, NEW j \in DOMAIN r, r[i] = r[j] PROVE i = j
    BY DEF Distinct
  <2>1. m + i = m + j
    BY <1>3 DEF Distinct
  <2> QED BY <1>2, <2>1
<1>5. ToSet(r) = {q[j] : j \in (m + 1)..Len(q)}
  <2>1. ToSet(r) \subseteq {q[j] : j \in (m + 1)..Len(q)}
    BY <1>3 DEF ToSet
  <2>2. \A j \in (m + 1)..Len(q) : j - m \in DOMAIN r /\ m + (j - m) = j
    BY <1>2
  <2>3. \A j \in (m + 1)..Len(q) : q[j] \in ToSet(r)
    BY <1>3, <2>2 DEF ToSet
  <2> QED BY <2>1, <2>3
<1>6. \A j \in 1..m : q[j] \notin ToSet(r)
  <2> SUFFICES ASSUME NEW j \in 1..m, NEW i \in (m + 1)..Len(q), q[j] = q[i] PROVE FALSE
    BY <1>5
  <2>1. j \in DOMAIN q /\ i \in DOMAIN q /\ j # i
    BY <1>2
  <2> QED BY <2>1 DEF Distinct
<1> QED BY <1>1, <1>4, <1>5, <1>6 DEF r

(* The calls that are left when the innermost one returns. *)
LEMMA FramesReturn ==
  ASSUME TypeOK, frames # <<>>, frames' = Front(frames)
  PROVE  /\ frames' \in Seq(FrameRec) /\ Len(frames') = Len(frames) - 1
         /\ DOMAIN frames' = 1..(Len(frames) - 1)
         /\ \A i \in 1..(Len(frames) - 1) : frames'[i] = frames[i]
<1>1. frames \in Seq(FrameRec) /\ Len(frames) \in Nat /\ Len(frames) >= 1
  BY DEF TypeOK
<1>2. /\ Front(frames) \in Seq(FrameRec) /\ Len(Front(frames)) = Len(frames) - 1
      /\ \A i \in 1..(Len(frames) - 1) : Front(frames)[i] = frames[i]
  <2> DEFINE n == Len(frames) - 1
  <2>1. /\ SubSeq(frames, 1, n) \in Seq(FrameRec)
        /\ Len(SubSeq(frames, 1, n)) = IF 1 <= n THEN n - 1 + 1 ELSE 0
        /\ \A i \in 1..(n - 1 + 1) : SubSeq(frames, 1, n)[i] = frames[1 + i - 1]
    BY <1>1, SubSeqProperties
  <2>2. Front(frames) = SubSeq(frames, 1, n)
    BY DEF Front
  <2>3. n \in Nat /\ \A i \in 1..n : 1 + i - 1 = i /\ i \in 1..(n - 1 + 1)
    BY <1>1
  <2> HIDE DEF n
  <2>4. Len(Front(frames)) = n /\ \A i \in 1..n : Front(frames)[i] = frames[i]
    BY <2>1, <2>2, <2>3
  <2> QED BY <2>1, <2>2, <2>4 DEF n
<1> QED BY <1>2

(* The parent of the last child takes the place of the child and of all that *)
(* stands in front of it.                                                    *)
LEMMA ParentInFront ==
  ASSUME TypeOK, Distinct(active), NEW t \in Thread, KillThread(t), LastChild(t),
         NEW m \in 1..Len(active), active[m] = t,
         \A j \in (m + 1)..Len(active) : active[j] # thr[t].parent
  PROVE  /\ active' \in Seq(Thread) /\ Distinct(active') /\ Len(active') >= 1
         /\ active'[1] = thr[t].parent
         /\ ToSet(active') = {thr[t].parent} \cup {active[j] : j \in (m + 1)..Len(active)}
         /\ \A j \in 1..m : active[j] # thr[t].parent => active[j] \notin ToSet(active')
<1> DEFINE p == thr[t].parent
           r == SubSeq(active, m + 1, Len(active))
<1>1. active \in Seq(Thread) /\ p \in Thread
  BY DEF TypeOK, ThreadRec, LastChild
<1>2. IndexIn(active, t) = m
  BY <1>1, IndexInDistinct
<1>3. active' = <<p>> \o r
  BY <1>2 DEF KillThread, ActiveAfterKill
<1>4. /\ r \in Seq(Thread) /\ Distinct(r)
      /\ ToSet(r) = {active[j] : j \in (m + 1)..Len(active)}
      /\ \A j \in 1..m : active[j] \notin ToSet(r)
  <2>1. m \in 0..Len(active)
    OBVIOUS
  <2> QED BY <1>1, <2>1, RestDistinct
<1>5. p \notin ToSet(r)
  BY <1>4
<1> HIDE DEF p, r
<1>6. /\ <<p>> \in Seq(Thread) /\ Len(<<p>>) = 1 /\ <<p>>[1] = p /\ ToSet(<<p>>) = {p}
      /\ Distinct(<<p>>)
  BY <1>1 DEF ToSet, Distinct
<1>7. /\ active' \in Seq(Thread) /\ Len(active') = 1 + Len(r)
      /\ \A i \in 1..1 : active'[i] = <<p>>[i]
      /\ ToSet(active') = {p} \cup ToSet(r) /\ Distinct(active')
  <2> DEFINE q == <<p>>
  <2>1. /\ q \in Seq(Thread) /\ Len(q) = 1 /\ ToSet(q) = {p} /\ Distinct(q)
        /\ ToSet(q) \cap ToSet(r) = {} /\ active' = q \o r
    BY <1>3, <1>5, <1>6
  <2> HIDE DEF q
  <2>2. r \in Seq(Thread) /\ Distinct(r)
    BY <1>4
  <2>3. /\ q \o r \in Seq(Thread) /\ Len(q \o r) = Len(q) + Len(r)
        /\ \A i \in 1..Len(q) : (q \o r)[i] = q[i]
        /\ ToSet(q \o r) = ToSet(q) \cup ToSet(r) /\ Distinct(q \o r)
    BY <2>1, <2>2, ConcatDistinct
  <2> QED BY <2>1, <2>3 DEF q
<1>8. Len(active') >= 1 /\ active'[1] = p
  BY <1>4, <1>6, <1>7
<1> QED BY <1>4, <1>7, <1>8 DEF p

(* The last call of sim_thread ends with the death of its thread. *)
LEMMA KillAlone ==
  ASSUME ThreadsInv, LoopEnds, Killed(Top), KillThread(Top.thr), Len(frames) = 1
  PROVE  /\ Distinct(active') /\ ToSet(active') \subseteq Live \ {Top.thr}
         /\ \A u \in Live \ {Top.thr} : thr'[u].state = "ACTIVE" <=> u \in ToSet(active')
<1> DEFINE t == Top.thr
           p == thr[t].parent
<1>1. /\ TypeOK /\ t \in Live /\ t \in Thread /\ frames # <<>> /\ thr[t].children = 0
      /\ thr[t].state = "ACTIVE"
      /\ p # NULL => p \in Live /\ thr[p].children \in Nat \ {0} /\ p # t
  BY EndingTop, KilledTop DEF ThreadsInv
<1>2. CallersIn(frames) = {} /\ Running = {t} /\ active # <<>> /\ Head(active) = t
  BY <1>1, SingleCall
<1>3. /\ active \in Seq(Thread) /\ Distinct(active) /\ ToSet(active) \subseteq Live
      /\ Live \subseteq Thread
      /\ \A u \in Live : thr[u].state = "ACTIVE" <=> u \in ToSet(active)
  BY <1>1, <1>2, LiveType DEF ThreadsInv, Placed, TypeOK
<1>4. /\ Len(active) \in Nat /\ Len(active) >= 1 /\ active[1] = t /\ DOMAIN active = 1..Len(active)
      /\ Distinct(Tail(active)) /\ ToSet(Tail(active)) = ToSet(active) \ {t}
  BY <1>2, <1>3, TailDistinct
<1>5. \A u \in Thread :
        thr'[u].state = IF LastChild(t) /\ u = p THEN "ACTIVE" ELSE thr[u].state
  BY <1>1, KillEffect
<1>6. CASE LastChild(t)
  <2>1. p # NULL /\ p \in Live /\ p # t
    BY <1>1, <1>6 DEF LastChild
  <2>2. thr[p].state = "NONE"
    <3>1. thr[p].children > 0
      BY <1>1, <2>1
    <3> QED BY <1>2, <2>1, <3>1 DEF ThreadsInv, ChildrenSound, BlockedHaveChildren
  <2>3. p \notin ToSet(active)
    BY <1>3, <2>1, <2>2
  <2>4. \A j \in (1 + 1)..Len(active) : active[j] # p
    BY <1>4, <2>3 DEF ToSet
  <2>5. 1 \in 1..Len(active)
    BY <1>4
  <2>6. Distinct(active') /\ ToSet(active') = {p} \cup {active[j] : j \in (1 + 1)..Len(active)}
    <3> HIDE DEF t
    <3>1. KillThread(t)
      BY DEF t
    <3> QED BY <1>1, <1>3, <1>4, <1>6, <2>4, <2>5, <3>1, ParentInFront
  <2>7. {active[j] : j \in (1 + 1)..Len(active)} = ToSet(active) \ {t}
    <3>1. ToSet(active) = {active[j] : j \in 1..Len(active)}
      BY <1>4 DEF ToSet
    <3>2. \A j \in 1..Len(active) : j = 1 \/ j \in (1 + 1)..Len(active)
      BY <1>4
    <3>3. \A j \in (1 + 1)..Len(active) : j \in 1..Len(active) /\ j # 1
      BY <1>4
    <3>4. \A j \in (1 + 1)..Len(active) : active[j] # t
      BY <1>3, <1>4, <3>3 DEF Distinct
    <3> QED BY <1>4, <3>1, <3>2, <3>3, <3>4
  <2> QED BY <1>3, <1>5, <1>6, <2>1, <2>6, <2>7
<1>7. CASE ~LastChild(t)
  <2>1. active' = Tail(active)
    BY <1>7 DEF KillThread, ActiveAfterKill
  <2> QED BY <1>3, <1>4, <1>5, <1>7, <2>1
<1> QED BY <1>6, <1>7

(* A function returns: its caller is the head of the queue again, wherever  *)
(* it had been.                                                             *)
LEMMA KillCalled ==
  ASSUME ThreadsInv, LoopEnds, Killed(Top), KillThread(Top.thr), frames' = Front(frames),
         Len(frames) # 1
  PROVE  /\ LastChild(Top.thr) /\ thr[Top.thr].parent = frames[Len(frames) - 1].thr
         /\ thr[thr[Top.thr].parent].children = 1
         /\ Distinct(active') /\ ToSet(active') \subseteq Live \ {Top.thr}
         /\ \A u \in Live \ {Top.thr} :
              thr'[u].state = "ACTIVE" <=> u \in ToSet(active') \cup CallersIn(frames')
         /\ \A h : h = Len(frames) - 1 => AtHead(h)'
<1> DEFINE t == Top.thr
           p == thr[t].parent
           n == Len(frames)
<1>1. /\ TypeOK /\ t \in Live /\ t \in Thread /\ frames # <<>>
      /\ thr[t].state = "ACTIVE" /\ n \in Nat /\ n >= 2 /\ Top = frames[n]
      /\ DOMAIN frames = 1..n
      /\ \E k \in 1..n : AtHead(k)
  BY EndingTop, KilledTop DEF ThreadsInv
<1>0. n \in Nat /\ n >= 2
  BY <1>1
<1>2. /\ n - 1 \in 1..(n - 1) /\ n - 1 \in 1..n /\ n \in 1..n /\ (n - 1) + 1 = n /\ n - 1 # n
  BY <1>0
<1>3. /\ p = frames[n - 1].thr /\ thr[p].children = 1 /\ thr[p].state = "ACTIVE"
      /\ \A i, j \in 1..n : frames[i].thr = frames[j].thr => i = j
      /\ \A i \in 1..(n - 1) : thr[frames[i].thr].state = "ACTIVE"
  <2>1. /\ \A i, j \in 1..n : frames[i].thr = frames[j].thr => i = j
        /\ \A i \in 1..(n - 1) : /\ thr[frames[i].thr].state = "ACTIVE"
                                /\ thr[frames[i].thr].children = 1
                                /\ thr[frames[i + 1].thr].parent = frames[i].thr
    BY DEF ThreadsInv, Chained
  <2>2. frames[(n - 1) + 1].thr = t
    BY <1>1, <1>2
  <2> QED BY <1>2, <2>1, <2>2
<1>4. \A i \in 1..n : frames[i].thr \in Live
  BY <1>1 DEF ThreadsInv, Linked, Running
<1>5. p \in Live /\ p # t /\ p # NULL /\ Live \subseteq Thread
  <2>1. p \in Live
    BY <1>2, <1>3, <1>4
  <2>2. p # t
    BY <1>1, <1>2, <1>3
  <2>3. p \in Thread /\ Live \subseteq Thread
    BY <1>1, <2>1, LiveType
  <2>4. NULL \notin Thread
    BY DesignAssumption
  <2> QED BY <2>1, <2>2, <2>3, <2>4
<1>6. LastChild(t)
  BY <1>3, <1>5 DEF LastChild
<1>7. PICK k \in 1..n : AtHead(k)
  BY <1>1
<1>8. /\ active \in Seq(Thread) /\ Distinct(active) /\ ToSet(active) \subseteq Live
      /\ DOMAIN active = 1..Len(active) /\ Len(active) \in Nat
      /\ \A u \in Live : thr[u].state = "ACTIVE" <=> u \in ToSet(active) \cup CallersIn(frames)
  BY <1>1 DEF ThreadsInv, Placed, TypeOK
<1> DEFINE m == n - k + 1
<1>9. /\ m \in 1..Len(active) /\ active[m] = t
      /\ \A i \in k..n : active[i - k + 1] = frames[i].thr
      /\ \A i \in 1..(k - 1) : frames[i].thr \notin ToSet(active)
  <2>1. n \in k..n /\ n - k + 1 >= 1
    BY <1>1
  <2> QED BY <1>1, <1>7, <1>8, <2>1 DEF AtHead
<1>10. \A j \in 1..m : j + k - 1 \in k..n /\ (j + k - 1) - k + 1 = j /\ active[j] = frames[j + k - 1].thr
  <2>1. \A j \in 1..m : j + k - 1 \in k..n /\ (j + k - 1) - k + 1 = j
    BY <1>1
  <2> QED BY <1>9, <2>1
<1>11. \A i \in 1..n : \A j \in (m + 1)..Len(active) : active[j] # frames[i].thr
  <2> SUFFICES ASSUME NEW i \in 1..n, NEW j \in (m + 1)..Len(active), active[j] = frames[i].thr
               PROVE FALSE
    OBVIOUS
  <2>1. j \in DOMAIN active /\ active[j] \in ToSet(active)
    <3>1. m \in Nat /\ Len(active) \in Nat /\ DOMAIN active = 1..Len(active)
      BY <1>8, <1>9
    <3> HIDE DEF m
    <3>2. j \in DOMAIN active
      BY <3>1
    <3> QED BY <3>2 DEF ToSet
  <2>2. CASE i < k
    <3>1. i \in 1..(k - 1)
      BY <2>2
    <3> QED BY <1>9, <2>1, <3>1
  <2>3. CASE ~(i < k)
    <3>1. i \in k..n /\ i - k + 1 \in 1..m
      BY <1>1, <2>3
    <3>2. i - k + 1 \in DOMAIN active /\ i - k + 1 # j
      BY <1>8, <1>9, <3>1
    <3> QED BY <1>8, <1>9, <2>1, <3>1, <3>2 DEF Distinct
  <2> QED BY <2>2, <2>3
<1>12. /\ active' \in Seq(Thread) /\ Distinct(active') /\ Len(active') >= 1 /\ active'[1] = p
       /\ ToSet(active') = {p} \cup {active[j] : j \in (m + 1)..Len(active)}
  <2>1. \A j \in (m + 1)..Len(active) : active[j] # p
    BY <1>2, <1>3, <1>11
  <2>2. KillThread(t)
    OBVIOUS
  <2> HIDE DEF t, m
  <2>3. \A j \in (m + 1)..Len(active) : active[j] # thr[t].parent
    BY <2>1
  <2>4. /\ active' \in Seq(Thread) /\ Distinct(active') /\ Len(active') >= 1
        /\ active'[1] = thr[t].parent
        /\ ToSet(active') = {thr[t].parent} \cup {active[j] : j \in (m + 1)..Len(active)}
    BY <1>1, <1>6, <1>8, <1>9, <2>2, <2>3, ParentInFront
  <2> QED BY <2>4
<1>13. /\ Len(frames') = n - 1 /\ \A i \in 1..(n - 1) : frames'[i] = frames[i]
  BY <1>1, FramesReturn
<1>14. CallersIn(frames') = {frames[i].thr : i \in 1..(n - 2)}
  <2>1. n \in Nat /\ n >= 2 /\ Len(frames') = n - 1
    BY <1>0, <1>13
  <2> HIDE DEF n
  <2>2. Len(frames') - 1 = n - 2 /\ \A i \in 1..(n - 2) : i \in 1..(n - 1)
    BY <2>1
  <2>3. \A i \in 1..(n - 2) : frames'[i] = frames[i]
    BY <1>13, <2>2
  <2> QED BY <2>2, <2>3 DEF CallersIn
<1>15. CallersIn(frames) = CallersIn(frames') \cup {p}
  <2>1. n \in Nat /\ n >= 2
    BY <1>0
  <2>2. CallersIn(frames) = {frames[i].thr : i \in 1..(n - 1)}
    BY DEF CallersIn
  <2> HIDE DEF n
  <2>3. n - 1 \in 1..(n - 1) /\ \A i \in 1..(n - 1) : i \in 1..(n - 2) \/ i = n - 1
    BY <2>1
  <2>4. \A i \in 1..(n - 2) : i \in 1..(n - 1)
    BY <2>1
  <2>5. p = frames[n - 1].thr
    BY <1>3
  <2> HIDE DEF p
  <2> QED BY <1>14, <2>2, <2>3, <2>4, <2>5
<1>16. ToSet(active') \subseteq Live \ {t}
  <2>1. \A j \in (m + 1)..Len(active) : active[j] # t
    BY <1>1, <1>2, <1>11
  <2>2. \A j \in (m + 1)..Len(active) : j \in DOMAIN active
    BY <1>8, <1>9
  <2>3. \A j \in (m + 1)..Len(active) : active[j] \in ToSet(active)
    BY <2>2 DEF ToSet
  <2> QED BY <1>5, <1>8, <1>12, <2>1, <2>3
<1>17. \A u \in Thread : thr'[u].state = IF u = p THEN "ACTIVE" ELSE thr[u].state
  BY <1>1, <1>6, KillEffect
<1>18. ASSUME NEW u \in Live \ {t}
       PROVE  thr'[u].state = "ACTIVE" <=> u \in ToSet(active') \cup CallersIn(frames')
  <2>1. CASE u = p
    BY <1>5, <1>12, <1>17, <2>1
  <2>2. CASE u # p
    <3>1. thr'[u].state = "ACTIVE" <=> u \in ToSet(active) \cup CallersIn(frames')
      BY <1>5, <1>8, <1>15, <1>17, <2>2
    <3>2. ASSUME u \in ToSet(active) PROVE u \in ToSet(active') \cup CallersIn(frames')
      <4>1. PICK j \in 1..Len(active) : active[j] = u
        BY <1>8, <3>2 DEF ToSet
      <4>2. CASE j \in 1..m
        <5>1. j + k - 1 \in 1..n /\ u = frames[j + k - 1].thr
          BY <1>1, <1>10, <4>1, <4>2
        <5>2. j + k - 1 # n /\ j + k - 1 # n - 1
          BY <1>1, <1>3, <2>2, <5>1
        <5>3. j + k - 1 \in 1..(n - 2)
          <6>1. n \in Nat /\ j \in Nat /\ k \in Nat
            BY <1>0, <4>1
          <6> HIDE DEF n
          <6> QED BY <5>1, <5>2, <6>1
        <5> QED BY <1>14, <5>1, <5>3
      <4>3. CASE j \notin 1..m
        <5>1. j \in (m + 1)..Len(active)
          BY <1>9, <4>3
        <5> QED BY <1>12, <4>1, <5>1
      <4> QED BY <4>2, <4>3
    <3>3. ASSUME u \in ToSet(active') PROVE u \in ToSet(active)
      <4>1. PICK j \in (m + 1)..Len(active) : active[j] = u
        BY <1>12, <2>2, <3>3
      <4> QED BY <1>8, <1>9, <4>1 DEF ToSet
    <3> QED BY <3>1, <3>2, <3>3
  <2> QED BY <2>1, <2>2
<1>19. ASSUME NEW h, h = n - 1 PROVE AtHead(h)'
  <2>1. n \in Nat /\ n >= 2 /\ h \in Nat
    BY <1>0, <1>19
  <2>2. Len(frames') = h /\ Len(active') \in Nat /\ Len(active') >= 1
    BY <1>12, <1>13, <1>19
  <2>3. h \in 1..(n - 1) /\ frames'[h] = frames[h] /\ frames'[h].thr = p
    BY <1>2, <1>3, <1>13, <1>19
  <2> HIDE DEF n
  <2>4. \A i \in h..h : i = h /\ i - h + 1 = 1
    BY <2>1
  <2>5. \A i \in h..h : active'[i - h + 1] = frames'[i].thr
    BY <1>12, <2>3, <2>4
  <2>6. \A i \in 1..(h - 1) : frames'[i].thr \notin ToSet(active')
    <3> SUFFICES ASSUME NEW i \in 1..(h - 1) PROVE frames'[i].thr \notin ToSet(active')
      OBVIOUS
    <3>1. i \in 1..n /\ i \in 1..(n - 1) /\ h \in 1..n /\ i # h
      BY <1>19, <2>1
    <3>2. frames'[i].thr = frames[i].thr
      BY <1>13, <3>1
    <3>3. frames[i].thr # p
      BY <1>3, <2>3, <3>1
    <3> QED BY <1>11, <1>12, <3>1, <3>2, <3>3
  <2>7. h - h + 1 <= Len(active')
    BY <2>1, <2>2
  <2> QED BY <2>2, <2>5, <2>6, <2>7 DEF AtHead
<1> QED BY <1>3, <1>6, <1>12, <1>16, <1>18, <1>19

LEMMA EndThreadKeeps ==
  ASSUME ThreadsInv, EndThread
  PROVE  ThreadsInv'
<1> DEFINE t == Top.thr
           p == thr[t].parent
           n == Len(frames)
<1>1. /\ LoopEnds /\ Killed(Top) /\ KillThread(t) /\ frames' = Front(frames) /\ Park(t)
      /\ UNCHANGED <<delayed, simulate, phase>>
  BY DEF EndThread, KillThread
<1>2. /\ TypeOK /\ TypeOK' /\ PoolOnce
  BY EndThreadType DEF ThreadsInv
<1>3. /\ t \in Live /\ t \in Thread /\ frames # <<>> /\ thr[t].children = 0
      /\ thr[t].state = "ACTIVE" /\ t \in Running
      /\ n \in Nat /\ n >= 1 /\ Top = frames[n] /\ DOMAIN frames = 1..n
      /\ p # NULL => p \in Live /\ thr[p].children \in Nat \ {0} /\ p # t
  BY <1>1, EndingTop, KilledTop
<1>4. Live' = Live \ {t} /\ Live \subseteq Thread
  BY <1>1, <1>2, <1>3, ParkLive, LiveType
<1>5. PoolOnce'
  BY <1>1, <1>2, <1>3, ParkPoolOnce
<1>6. \A u \in Thread :
        /\ thr'[u].parent = thr[u].parent /\ thr'[u].curr = thr[u].curr
        /\ thr'[u].kill = thr[u].kill
        /\ thr'[u].children = thr[u].children - (IF u = p THEN 1 ELSE 0)
        /\ thr'[u].state = IF LastChild(t) /\ u = p THEN "ACTIVE" ELSE thr[u].state
  BY <1>1, <1>2, <1>3, KillEffect
<1>7. /\ frames' \in Seq(FrameRec) /\ Len(frames') = n - 1
      /\ DOMAIN frames' = 1..(n - 1)
      /\ \A i \in 1..(n - 1) : frames'[i] = frames[i]
  BY <1>1, <1>2, <1>3, FramesReturn
<1>8. \A i, j \in 1..n : frames[i].thr = frames[j].thr => i = j
  BY DEF ThreadsInv, Chained
<1>9. Running' = Running \ {t}
  <2>1. n \in Nat /\ n >= 1 /\ frames[n].thr = t
    BY <1>3
  <2> HIDE DEF n
  <2>2. \A i \in 1..n : i # n <=> i \in 1..(n - 1)
    BY <2>1
  <2>3. n \in 1..n /\ \A i \in 1..(n - 1) : i \in 1..n /\ i # n
    BY <2>1
  <2>4. \A i \in 1..(n - 1) : frames[i].thr # t
    BY <1>8, <2>1, <2>3
  <2>5. Running' = {frames[i].thr : i \in 1..(n - 1)}
    BY <1>7 DEF Running
  <2>6. Running = {frames[i].thr : i \in 1..n}
    BY <1>3 DEF Running
  <2> QED BY <2>1, <2>2, <2>3, <2>4, <2>5, <2>6
<1>10. /\ Distinct(active') /\ ToSet(active') \subseteq Live'
       /\ \A u \in Live' : thr'[u].state = "ACTIVE" <=> u \in ToSet(active') \cup CallersIn(frames')
       /\ HeadRuns'
       /\ n # 1 => LastChild(t) /\ p = frames[n - 1].thr /\ thr[p].children = 1
  <2>1. CASE n = 1
    <3>1. CallersIn(frames') = {} /\ frames' = <<>>
      BY <1>7, <2>1 DEF CallersIn
    <3>2. /\ Distinct(active') /\ ToSet(active') \subseteq Live \ {Top.thr}
          /\ \A u \in Live \ {Top.thr} : thr'[u].state = "ACTIVE" <=> u \in ToSet(active')
      BY <1>1, <2>1, KillAlone
    <3> QED BY <1>4, <2>1, <3>1, <3>2 DEF HeadRuns
  <2>2. CASE n # 1
    <3>1. /\ LastChild(Top.thr) /\ thr[Top.thr].parent = frames[n - 1].thr
          /\ thr[thr[Top.thr].parent].children = 1
          /\ Distinct(active') /\ ToSet(active') \subseteq Live \ {Top.thr}
          /\ \A u \in Live \ {Top.thr} :
               thr'[u].state = "ACTIVE" <=> u \in ToSet(active') \cup CallersIn(frames')
          /\ \A j : j = n - 1 => AtHead(j)'
      BY <1>1, <2>2, KillCalled
    <3>2. n - 1 \in 1..(n - 1)
      BY <1>3, <2>2
    <3>3. HeadRuns'
      <4>1. \A j : j = n - 1 => j \in 1..Len(frames') /\ AtHead(j)'
        BY <1>7, <3>1, <3>2
      <4>2. \E j : j = n - 1
        OBVIOUS
      <4>3. PICK j : j \in 1..Len(frames') /\ AtHead(j)'
        BY <4>1, <4>2
      <4> QED BY <4>3 DEF HeadRuns
    <3> QED BY <1>4, <3>1, <3>3
  <2> QED BY <2>1, <2>2
<1>11. Placed'
  <2>1. ToSet(delayed) \subseteq Live \ {t}
    BY <1>3 DEF ThreadsInv, Placed
  <2>2. ASSUME NEW u \in Live' PROVE thr'[u].state = "DELAYED" <=> u \in ToSet(delayed)
    <3>1. CASE LastChild(t) /\ u = p
      <4>1. thr[u].state = "NONE" \/ u \in Running
        <5>1. thr[u].children > 0
          BY <1>3, <3>1 DEF LastChild
        <5> QED BY <1>4, <5>1 DEF ThreadsInv, ChildrenSound, BlockedHaveChildren
      <4>2. thr[u].state # "DELAYED"
        <5>1. CASE u \in Running
          <6>1. PICK i \in 1..n : u = frames[i].thr
            BY <1>3, <5>1 DEF Running
          <6>2. i \in 1..(n - 1)
            BY <1>3, <1>4, <6>1
          <6> QED BY <6>1, <6>2 DEF ThreadsInv, Chained
        <5> QED BY <4>1, <5>1
      <4> QED BY <1>4, <1>6, <3>1, <4>2 DEF ThreadsInv, Placed
    <3>2. CASE ~(LastChild(t) /\ u = p)
      BY <1>4, <1>6, <3>2 DEF ThreadsInv, Placed
    <3> QED BY <3>1, <3>2
  <2>3. ASSUME NEW u \in Thread \ Live' PROVE thr'[u].state # "DELAYED"
    <3>1. u = t \/ u \in Thread \ Live
      BY <1>4
    <3> QED BY <1>3, <1>6, <3>1 DEF ThreadsInv, Placed
  <2> QED BY <1>1, <1>4, <1>10, <2>1, <2>2, <2>3 DEF ThreadsInv, Placed
<1>12. ChildCount' /\ \A u \in Live' : thr'[u].parent # NULL => thr'[u].parent \in Live'
  <2>1. \A u \in Live \ {t} :
          /\ thr'[u].parent = thr[u].parent
          /\ thr'[u].children = thr[u].children - (IF u = thr[t].parent THEN 1 ELSE 0)
    BY <1>4, <1>6
  <2> HIDE DEF t
  <2> QED BY <1>2, <1>3, <1>4, <2>1, DeathFamilies DEF ThreadsInv, ChildrenSound
<1>13. Linked'
  BY <1>4, <1>9, <1>12 DEF ThreadsInv, Linked
<1>14. \A u \in Live : thr[u].children \in Nat
  BY <1>2, ChildrenNat DEF ThreadsInv, ChildrenSound
<1>15. BlockedHaveChildren'
  <2> SUFFICES ASSUME NEW u \in Live'
               PROVE  /\ thr'[u].state = "NONE" => thr'[u].children > 0
                      /\ thr'[u].children > 0 => thr'[u].state = "NONE" \/ u \in Running'
    BY DEF BlockedHaveChildren
  <2>1. u \in Live /\ u # t /\ u \in Thread /\ thr[u].children \in Nat
    BY <1>4, <1>14
  <2>2. /\ thr[u].state = "NONE" => thr[u].children > 0
        /\ thr[u].children > 0 => thr[u].state = "NONE" \/ u \in Running
    BY <2>1 DEF ThreadsInv, ChildrenSound, BlockedHaveChildren
  <2>3. CASE u # p
    <3>1. thr'[u].state = thr[u].state /\ thr'[u].children = thr[u].children
      BY <1>6, <2>1, <2>3
    <3> QED BY <1>9, <2>1, <2>2, <3>1
  <2>4. CASE u = p /\ LastChild(t)
    <3>1. thr'[u].state = "ACTIVE" /\ thr'[u].children = 0
      BY <1>6, <2>1, <2>4 DEF LastChild
    <3> QED BY <3>1
  <2>5. CASE u = p /\ ~LastChild(t)
    <3>1. thr'[u].state = thr[u].state /\ thr'[u].children = thr[u].children - 1
      BY <1>6, <2>1, <2>5
    <3>2. p # NULL /\ thr[u].children # 1 /\ thr[u].children # 0
      BY <1>3, <1>4, <2>1, <2>5, DesignAssumption DEF LastChild
    <3> QED BY <1>9, <2>1, <2>2, <3>1, <3>2
  <2> QED BY <2>3, <2>4, <2>5
<1>16. Chained'
  <2>1. frames' # <<>> => phase' = "sim"
    BY <1>1, <1>3 DEF ThreadsInv, Chained
  <2>2. \A i, j \in 1..(n - 1) : frames'[i].thr = frames'[j].thr => i = j
    <3>1. \A i \in 1..(n - 1) : i \in 1..n
      BY <1>3
    <3> QED BY <1>7, <1>8, <3>1
  <2>3. ASSUME NEW i \in 1..((n - 1) - 1)
        PROVE  /\ frames'[i].stmt # NULL /\ Op[frames'[i].stmt] \notin {"FORK", "JOIN"}
               /\ thr'[frames'[i].thr].state = "ACTIVE" /\ thr'[frames'[i].thr].children = 1
               /\ thr'[frames'[i + 1].thr].parent = frames'[i].thr
    <3>1. i \in 1..(n - 1) /\ i + 1 \in 1..(n - 1) /\ i \in 1..n /\ i + 1 \in 1..n /\ i # n - 1
          /\ n - 1 \in 1..n /\ n # 1
      <4>1. n \in Nat /\ n >= 1
        BY <1>3
      <4> HIDE DEF n
      <4> QED BY <4>1
    <3>2. /\ frames[i].stmt # NULL /\ Op[frames[i].stmt] \notin {"FORK", "JOIN"}
          /\ thr[frames[i].thr].state = "ACTIVE" /\ thr[frames[i].thr].children = 1
          /\ thr[frames[i + 1].thr].parent = frames[i].thr
      BY <3>1 DEF ThreadsInv, Chained
    <3>3. frames[i].thr # p
      BY <1>8, <1>10, <3>1
    <3>4. frames[i].thr \in Thread /\ frames[i + 1].thr \in Thread
      BY <1>2, <3>1, FramesType
    <3>5. /\ thr'[frames[i].thr].state = thr[frames[i].thr].state
          /\ thr'[frames[i].thr].children = thr[frames[i].thr].children - 0
          /\ thr'[frames[i + 1].thr].parent = thr[frames[i + 1].thr].parent
      BY <1>6, <3>3, <3>4
    <3> QED BY <1>7, <3>1, <3>2, <3>5
  <2>4. ASSUME NEW i \in 2..(n - 1)
        PROVE  /\ thr'[frames'[i].thr].curr # NULL
               /\ FunitOf[thr'[frames'[i].thr].curr] \in Functions
               /\ frames'[i].stmt # NULL => FunitOf[frames'[i].stmt] \in Functions
    <3>1. i \in 1..(n - 1) /\ i \in 1..n /\ i \in 2..n
      BY <1>3
    <3>2. /\ thr[frames[i].thr].curr # NULL
          /\ FunitOf[thr[frames[i].thr].curr] \in Functions
          /\ frames[i].stmt # NULL => FunitOf[frames[i].stmt] \in Functions
      BY <3>1 DEF ThreadsInv, Chained
    <3>3. frames[i].thr \in Thread
      BY <1>2, <3>1, FramesType
    <3> QED BY <1>6, <1>7, <3>1, <3>2, <3>3
  <2> HIDE DEF n
  <2> QED BY <1>7, <2>1, <2>2, <2>3, <2>4 DEF Chained
<1>17. ASSUME frames' # <<>>
       PROVE  /\ Top'.stmt # NULL /\ thr'[Top'.thr].state = "ACTIVE"
              /\ thr'[Top'.thr].children = 0
  <2>1. n # 1 /\ n - 1 \in 1..(n - 1)
    BY <1>3, <1>7, <1>17
  <2>2. Top' = frames[n - 1]
    BY <1>7, <2>1 DEF Top
  <2>3. frames[n - 1].stmt # NULL
    BY <2>1 DEF ThreadsInv, Chained
  <2>4. LastChild(t) /\ p = frames[n - 1].thr /\ thr[p].children = 1
    BY <1>10, <2>1
  <2>5. p \in Thread
    BY <1>3, <1>4, <2>4 DEF LastChild
  <2> QED BY <1>6, <2>2, <2>3, <2>4, <2>5
<1>18. DelayedTop' /\ BusyTop' /\ EndedTop'
  BY <1>17 DEF DelayedTop, BusyTop, EndedTop
<1>19. WaitsWhereWoken'
  <2> SUFFICES ASSUME NEW u \in Live', thr'[u].state = "WAITING"
               PROVE  thr'[u].curr # NULL /\ (Op[thr'[u].curr] \in ContextSwitch \/ thr'[u].curr \in Cont)
    BY DEF WaitsWhereWoken
  <2>1. u \in Live /\ u \in Thread
    BY <1>4
  <2>2. thr[u].state = "WAITING" /\ thr'[u].curr = thr[u].curr
    BY <1>6, <2>1
  <2> QED BY <2>1, <2>2 DEF ThreadsInv, WaitsWhereWoken
<1> QED BY <1>2, <1>5, <1>10, <1>11, <1>12, <1>13, <1>15, <1>16, <1>18, <1>19 DEF ThreadsInv, ChildrenSound

-----------------------------------------------------------------------------
(* A thread leaves the active queue *)

(* The thread that gives up the processor is not in a function, has a child  *)
(* if and only if it called or joined, and stopped at an operation that       *)
(* switches context or at a continuous assignment.                            *)
LEMMA SwitchedTop ==
  ASSUME StructuredDesign, ThreadsInv, LoopEnds, ~Killed(Top)
  PROVE  LET s == thr[Top.thr].curr
         IN  /\ Len(frames) = 1 /\ s \in Stmt
             /\ Op[s] \notin {"FORK"}
             /\ Op[s] \in {"CALL", "JOIN"} <=> thr[Top.thr].children # 0
             /\ Op[s] = "JOIN" \/ Op[s] \in ContextSwitch \/ s \in Cont
             /\ thr[Top.thr].state # "ACTIVE" =>
                  thr[Top.thr].state = "DELAYED" /\ Op[s] = "DELAY" /\ ~now.final
<1> DEFINE s == thr[Top.thr].curr
<1>1. /\ frames # <<>> /\ Top.thr \in Live /\ Top.thr \in Thread
      /\ Len(frames) \in Nat /\ Len(frames) >= 1 /\ Top = frames[Len(frames)]
      /\ thr[Top.thr].children \in Nat
  BY EndingTop
<1>2. ~thr[Top.thr].kill /\ simulate /\ Top.stmt = NULL
  BY DEF Killed, LoopEnds
<1>3. s # NULL /\ s \in Stmt
  <2>1. thr[Top.thr] \in ThreadRec
    BY <1>1 DEF ThreadsInv, TypeOK
  <2>2. s # NULL
    BY DEF Killed, BlockEnded
  <2> QED BY <2>1, <2>2 DEF ThreadRec
<1>4. /\ Top.chg => ~(NextTrue[s] = NULL /\ NextFalse[s] = NULL)
                    /\ (Op[s] \in ContextSwitch \/ s \in Cont)
      /\ ~Top.chg => Op[s] # "CASE"
  BY <1>2, <1>3 DEF Killed, BlockEnded
<1>5. /\ Op[s] \in {"ASSIGN", "DISABLE"} => Top.chg
      /\ Op[s] \notin {"VALUE", "STOP", "FORK"}
      /\ Op[s] # "FINISH"
      /\ (Op[s] = "JOIN" /\ ~Top.chg) \/ Op[s] = "CALL" => thr[Top.thr].children > 0
  BY <1>1, <1>2, <1>3 DEF ThreadsInv, EndedTop
<1>6. Op[s] \in OpKind /\ s \in Cont => Op[s] = "ASSIGN"
  BY <1>3 DEF StructuredDesign
<1>7. Op[s] \in OpKind
  BY <1>3, DesignAssumption
<1>8. Op[s] = "JOIN" => ~Top.chg
  BY <1>3, <1>4 DEF StructuredDesign
<1>9. thr[Top.thr].children > 0 => Op[s] \in {"CALL", "JOIN"}
  BY <1>1, <1>2, <1>3 DEF ThreadsInv, BusyTop
<1>10. Op[s] \in {"CALL", "JOIN"} <=> thr[Top.thr].children # 0
  BY <1>1, <1>5, <1>8, <1>9
<1>11. Op[s] = "JOIN" \/ Op[s] \in ContextSwitch \/ s \in Cont
  <2>1. CASE Top.chg
    BY <1>4, <2>1
  <2>2. CASE ~Top.chg
    BY <1>4, <1>5, <1>7, <2>2 DEF OpKind
  <2> QED BY <2>1, <2>2
<1>12. Len(frames) = 1
  <2> SUFFICES ASSUME Len(frames) # 1 PROVE FALSE
    OBVIOUS
  <2> DEFINE n == Len(frames)
  <2>1. n \in 2..n
    <3>1. n \in Nat /\ n >= 1 /\ n # 1
      BY <1>1
    <3> HIDE DEF n
    <3> QED BY <3>1
  <2>2. FunitOf[s] \in Functions
    BY <1>1, <2>1 DEF ThreadsInv, Chained
  <2>3. Op[s] \in {"ASSIGN", "CASE", "VALUE", "DISABLE", "FINISH", "STOP"} /\ s \notin Cont
    BY <1>3, <2>2 DEF StructuredDesign
  <2> QED BY <1>11, <2>3 DEF ContextSwitch
<1>13. thr[Top.thr].state # "ACTIVE" =>
         thr[Top.thr].state = "DELAYED" /\ Op[s] = "DELAY" /\ ~now.final
  BY <1>1 DEF ThreadsInv, DelayedTop
<1> QED BY <1>3, <1>5, <1>10, <1>11, <1>12, <1>13

(* The last call of sim_thread returns and its thread lives on: what has to  *)
(* be said of the queues and of that thread.                                 *)
LEMMA ReturnKeeps ==
  ASSUME ThreadsInv, LoopEnds, Len(frames) = 1, TypeOK', frames' = Front(frames),
         UNCHANGED <<pool, allNext, delayed, phase>>,
         Distinct(active'), ToSet(active') \subseteq Live,
         \A u \in Live : thr'[u].state = "ACTIVE" <=> u \in ToSet(active'),
         \A u \in Thread : /\ u # Top.thr => thr'[u].state = thr[u].state /\ thr'[u].curr = thr[u].curr
                           /\ thr'[u].parent = thr[u].parent
                           /\ thr'[u].children = thr[u].children,
         thr'[Top.thr].state = "DELAYED" <=> thr[Top.thr].state = "DELAYED",
         thr'[Top.thr].state = "NONE" <=> thr[Top.thr].children > 0,
         thr'[Top.thr].state = "WAITING" =>
           /\ thr'[Top.thr].curr # NULL
           /\ Op[thr'[Top.thr].curr] \in ContextSwitch \/ thr'[Top.thr].curr \in Cont
  PROVE  ThreadsInv'
<1>1. TypeOK /\ frames # <<>> /\ Top.thr \in Live /\ Top.thr \in Thread
  BY EndingTop DEF ThreadsInv
<1>2. Live' = Live /\ Live \subseteq Thread
  BY <1>1, PoolEqual, LiveType
<1>3. Running = {Top.thr}
  BY <1>1, SingleCall
<1>4. frames' = <<>>
  BY <1>1, FramesReturn
<1>5. Running' = {} /\ CallersIn(frames') = {}
  BY <1>4 DEF Running, CallersIn
<1>6. Placed'
  <2>1. \A u \in Live : thr'[u].state = "DELAYED" <=> u \in ToSet(delayed)
    BY <1>1, <1>2 DEF ThreadsInv, Placed
  <2>2. \A u \in Thread \ Live : thr'[u].state # "DELAYED"
    BY <1>1 DEF ThreadsInv, Placed
  <2>3. Distinct(delayed) /\ ToSet(delayed) \subseteq Live
    BY DEF ThreadsInv, Placed
  <2> QED BY <1>2, <1>5, <2>1, <2>2, <2>3 DEF Placed
<1>7. PoolOnce'
  BY DEF ThreadsInv, PoolOnce
<1>8. Linked'
  BY <1>2, <1>5 DEF ThreadsInv, Linked
<1>9. ChildCount'
  <2> SUFFICES ASSUME NEW p \in Live
               PROVE  thr'[p].children = Cardinality({t \in Live : thr'[t].parent = p})
    BY <1>2 DEF ChildCount
  <2>1. {t \in Live : thr'[t].parent = p} = {t \in Live : thr[t].parent = p}
    BY <1>2
  <2>2. thr[p].children = Cardinality({t \in Live : thr[t].parent = p})
    BY DEF ThreadsInv, ChildrenSound, ChildCount
  <2>3. thr'[p].children = thr[p].children
    BY <1>2
  <2> QED BY <2>1, <2>2, <2>3
<1>10. BlockedHaveChildren'
  <2> SUFFICES ASSUME NEW u \in Live
               PROVE  /\ thr'[u].state = "NONE" => thr'[u].children > 0
                      /\ thr'[u].children > 0 => thr'[u].state = "NONE"
    BY <1>2 DEF BlockedHaveChildren
  <2>1. CASE u = Top.thr
    BY <1>1, <2>1
  <2>2. CASE u # Top.thr
    BY <1>2, <1>3, <2>2 DEF ThreadsInv, ChildrenSound, BlockedHaveChildren
  <2> QED BY <2>1, <2>2
<1>11. Chained'
  <2>1. Len(frames') = 0
    BY <1>4
  <2> QED BY <1>4, <2>1 DEF Chained
<1>12. HeadRuns' /\ DelayedTop' /\ BusyTop' /\ EndedTop'
  BY <1>4 DEF HeadRuns, DelayedTop, BusyTop, EndedTop
<1>13. WaitsWhereWoken'
  <2> SUFFICES ASSUME NEW u \in Live, thr'[u].state = "WAITING"
               PROVE  thr'[u].curr # NULL /\ (Op[thr'[u].curr] \in ContextSwitch \/ thr'[u].curr \in Cont)
    BY <1>2 DEF WaitsWhereWoken
  <2> QED BY <1>2 DEF ThreadsInv, WaitsWhereWoken
<1> QED BY <1>6, <1>7, <1>8, <1>9, <1>10, <1>11, <1>12, <1>13 DEF ThreadsInv, ChildrenSound

LEMMA SwitchThreadKeeps ==
  ASSUME StructuredDesign, ThreadsInv, SwitchThread
  PROVE  ThreadsInv'
<1> DEFINE t == Top.thr
           s == thr[t].curr
<1>1. /\ LoopEnds /\ ~Killed(Top) /\ frames' = Front(frames)
      /\ UNCHANGED <<pool, allNext, delayed, phase>>
  BY DEF SwitchThread
<1>2. TypeOK /\ TypeOK' /\ thr \in [Thread -> ThreadRec] /\ active \in Seq(Thread)
  BY EndThreadType DEF ThreadsInv, TypeOK
<1>3. /\ frames # <<>> /\ t \in Live /\ t \in Thread /\ thr[t].children \in Nat
      /\ thr[t] \in ThreadRec
  BY <1>1, <1>2, EndingTop
<1>4. /\ Len(frames) = 1 /\ s \in Stmt /\ Op[s] # "FORK"
      /\ Op[s] \in {"CALL", "JOIN"} <=> thr[t].children # 0
      /\ Op[s] = "JOIN" \/ Op[s] \in ContextSwitch \/ s \in Cont
      /\ thr[t].state # "ACTIVE" => thr[t].state = "DELAYED" /\ Op[s] = "DELAY" /\ ~now.final
  BY <1>1, SwitchedTop
<1>5. /\ CallersIn(frames) = {}
      /\ thr[t].state = "ACTIVE" => active # <<>> /\ Head(active) = t
  BY <1>3, <1>4, SingleCall
<1>6. /\ Distinct(active) /\ ToSet(active) \subseteq Live /\ Live \subseteq Thread
      /\ \A u \in Live : thr[u].state = "ACTIVE" <=> u \in ToSet(active)
  BY <1>2, <1>5, LiveType DEF ThreadsInv, Placed
<1>7. CASE Op[s] # "DELAY" \/ now.final
  <2>1. thr[t].state = "ACTIVE" /\ active # <<>> /\ Head(active) = t
    BY <1>4, <1>5, <1>7
  <2> DEFINE r == Switched(thr[t])
  <2>2. active' = Tail(active) /\ thr' = [thr EXCEPT ![t] = r]
    BY <1>7, <2>1 DEF SwitchThread
  <2>3. Distinct(active') /\ ToSet(active') = ToSet(active) \ {t}
    BY <1>2, <1>6, <2>1, <2>2, TailDistinct
  <2>4. /\ r.parent = thr[t].parent /\ r.children = thr[t].children
        /\ Op[s] \in {"CALL", "JOIN"} => r.state = "NONE"
        /\ Op[s] \notin {"CALL", "JOIN"} => r.state = "WAITING" /\ r.curr = s
    BY <1>3, <1>4 DEF Switched, ThreadRec
  <2> HIDE DEF r
  <2>5. \A u \in Thread : thr'[u] = IF u = t THEN r ELSE thr[u]
    BY <1>2, <1>3, <2>2
  <2>6. \A u \in Live : thr'[u].state = "ACTIVE" <=> u \in ToSet(active')
    BY <1>6, <2>3, <2>4, <2>5
  <2>7. \A u \in Thread : /\ u # t => thr'[u].state = thr[u].state /\ thr'[u].curr = thr[u].curr
                          /\ thr'[u].parent = thr[u].parent
                          /\ thr'[u].children = thr[u].children
    BY <2>4, <2>5
  <2>8. thr'[t] = r
    BY <1>3, <2>5
  <2>9. /\ thr'[t].state = "DELAYED" <=> thr[t].state = "DELAYED"
        /\ thr'[t].state = "NONE" <=> thr[t].children > 0
        /\ thr'[t].state = "WAITING" =>
             /\ thr'[t].curr # NULL
             /\ Op[thr'[t].curr] \in ContextSwitch \/ thr'[t].curr \in Cont
    <3>1. s # NULL
      BY <1>4, DesignAssumption
    <3> QED BY <1>3, <1>4, <2>1, <2>4, <2>8, <3>1
  <2>10. ToSet(active') \subseteq Live
    BY <1>6, <2>3
  <2> HIDE DEF s
  <2> QED BY <1>1, <1>2, <1>4, <2>3, <2>6, <2>7, <2>9, <2>10, ReturnKeeps
<1>8. CASE ~(Op[s] # "DELAY" \/ now.final)
  <2>1. active' = active /\ thr' = [thr EXCEPT ![t].execFirst = TRUE]
    BY <1>8 DEF SwitchThread
  <2> DEFINE r == [thr[t] EXCEPT !.execFirst = TRUE]
  <2>2. /\ r.state = thr[t].state /\ r.parent = thr[t].parent /\ r.children = thr[t].children
        /\ r.curr = thr[t].curr
    BY <1>3 DEF ThreadRec
  <2>3. thr' = [thr EXCEPT ![t] = r]
    BY <1>2, <1>3, <2>1
  <2> HIDE DEF r
  <2>4. \A u \in Thread : thr'[u] = IF u = t THEN r ELSE thr[u]
    BY <1>2, <1>3, <2>3
  <2>5. \A u \in Thread : /\ thr'[u].state = thr[u].state /\ thr'[u].curr = thr[u].curr
                          /\ thr'[u].parent = thr[u].parent
                          /\ thr'[u].children = thr[u].children
    BY <2>2, <2>4
  <2>6. \A u \in Live : thr'[u].state = "ACTIVE" <=> u \in ToSet(active')
    BY <1>6, <2>1, <2>5
  <2>7. /\ thr'[t].state = "DELAYED" <=> thr[t].state = "DELAYED"
        /\ thr'[t].state = "NONE" <=> thr[t].children > 0
        /\ thr'[t].state # "WAITING"
    <3>1. thr[t].state \in {"ACTIVE", "DELAYED"} /\ thr[t].children = 0
      BY <1>4, <1>8
    <3> QED BY <1>3, <2>5, <3>1
  <2>8. Distinct(active') /\ ToSet(active') \subseteq Live
    BY <1>6, <2>1
  <2> HIDE DEF s
  <2> QED BY <1>1, <1>2, <1>4, <2>5, <2>6, <2>7, <2>8, ReturnKeeps
<1> QED BY <1>7, <1>8

-----------------------------------------------------------------------------
(* Between the calls of sim_thread *)

LEMMA NoCalls ==
  ASSUME TypeOK
  PROVE  frames = <<>> => Running = {} /\ CallersIn(frames) = {} /\ Len(frames) = 0
  BY DEF Running, CallersIn

(* Steps that only change where db_do_timestep is. *)
LEMMA PhaseKeeps ==
  ASSUME ThreadsInv, TypeOK', UNCHANGED <<pool, allNext, active, delayed, thr, frames>>,
         frames = <<>>
  PROVE  ThreadsInv'
<1>1. Live' = Live /\ Running' = Running
  BY PoolEqual DEF Running
<1>2. PoolOnce' /\ Placed' /\ Linked'
  BY <1>1 DEF ThreadsInv, PoolOnce, Placed, Linked
<1>3. ChildrenSound'
  BY <1>1 DEF ThreadsInv, ChildrenSound, ChildCount, BlockedHaveChildren
<1>4. Chained'
  <2>1. frames' = <<>> /\ Len(frames') = 0
    OBVIOUS
  <2> QED BY <2>1 DEF Chained
<1>5. HeadRuns' /\ DelayedTop' /\ BusyTop' /\ EndedTop' /\ WaitsWhereWoken'
  BY <1>1 DEF ThreadsInv, HeadRuns, DelayedTop, BusyTop, EndedTop, WaitsWhereWoken
<1> QED BY <1>2, <1>3, <1>4, <1>5 DEF ThreadsInv

LEMMA NoFrames ==
  ASSUME frames' = <<>>
  PROVE  /\ Running' = {} /\ CallersIn(frames') = {}
         /\ Chained' /\ HeadRuns' /\ DelayedTop' /\ BusyTop' /\ EndedTop'
<1>1. Len(frames') = 0 /\ DOMAIN frames' = {}
  OBVIOUS
<1>2. Running' = {} /\ CallersIn(frames') = {}
  BY <1>1 DEF Running, CallersIn
<1>3. Chained'
  BY <1>1 DEF Chained
<1> QED BY <1>2, <1>3 DEF HeadRuns, DelayedTop, BusyTop, EndedTop

LEMMA StartBlockKeeps ==
  ASSUME ThreadsInv, StartBlock
  PROVE  ThreadsInv'
<1>1. /\ TypeOK /\ TypeOK' /\ PoolOnce /\ thr \in [Thread -> ThreadRec]
      /\ active \in Seq(Thread) /\ delayed \in Seq(Thread)
  BY StartBlockType DEF ThreadsInv, TypeOK
<1>2. frames = <<>> /\ frames' = <<>>
  BY DEF StartBlock, ThreadsInv, Chained
<1> DEFINE s == Head(toAdd)
<1>3. PICK t \in Thread :
        /\ Alloc(t)
        /\ \/ \E tm \in SimTime : StartDelayed(t, s, tm)
           \/ StartActive(t, s)
  <2>1. TimeOf(0, FALSE) \in SimTime /\ FinalTime \in SimTime
    BY TimeOfType, FinalTimeType
  <2> QED BY <2>1 DEF StartBlock
<1>4. t \notin Live /\ Live' = Live \cup {t} /\ PoolOnce'
  BY <1>1, <1>3, AllocLive, AllocPoolOnce
<1>5. Live \subseteq Thread /\ NULL \notin Live /\ \A u \in Live : u # t
  BY <1>1, <1>4, LiveType, DesignAssumption
<1>6. PICK st \in {"ACTIVE", "DELAYED"}, tm \in SimTime :
        /\ thr' = [thr EXCEPT ![t] = NewThread(NULL, s, st, tm)]
        /\ st = "ACTIVE" => active' = Append(active, t) /\ delayed' = delayed
        /\ st = "DELAYED" => active' = active /\ delayed' = Insert(delayed, t, tm)
  <2>1. TimeOf(0, FALSE) \in SimTime
    BY TimeOfType
  <2> QED BY <1>3, <2>1 DEF StartActive, StartDelayed
<1> DEFINE n == NewThread(NULL, s, st, tm)
<1>7. n.parent = NULL /\ n.children = 0 /\ n.state = st
  BY DEF NewThread
<1> HIDE DEF n
<1>8. \A u \in Thread : thr'[u] = IF u = t THEN n ELSE thr[u]
  BY <1>1, <1>6 DEF n
<1>9. /\ Distinct(active) /\ Distinct(delayed) /\ ToSet(active) \subseteq Live
      /\ ToSet(delayed) \subseteq Live
      /\ \A u \in Live : thr[u].state = "ACTIVE" <=> u \in ToSet(active)
      /\ \A u \in Live : thr[u].state = "DELAYED" <=> u \in ToSet(delayed)
      /\ \A u \in Thread \ Live : thr[u].state # "DELAYED"
  BY <1>1, <1>2, NoCalls DEF ThreadsInv, Placed
<1>10. t \notin ToSet(active) /\ t \notin ToSet(delayed)
  BY <1>4, <1>9
<1>11. /\ Distinct(active') /\ Distinct(delayed')
       /\ ToSet(active') = ToSet(active) \cup (IF st = "ACTIVE" THEN {t} ELSE {})
       /\ ToSet(delayed') = ToSet(delayed) \cup (IF st = "DELAYED" THEN {t} ELSE {})
  <2>1. CASE st = "ACTIVE"
    BY <1>1, <1>6, <1>9, <1>10, <2>1, AppendDistinct
  <2>2. CASE st = "DELAYED"
    <3>1. InsertPos(delayed, tm) + 1 \in 1..(Len(delayed) + 1)
      BY <1>1, InsertPosType
    <3>2. Distinct(delayed') /\ ToSet(delayed') = ToSet(delayed) \cup {t}
      BY <1>1, <1>6, <1>9, <1>10, <2>2, <3>1, InsertDistinct DEF Insert
    <3> QED BY <1>6, <1>9, <2>2, <3>2
  <2> QED BY <2>1, <2>2
<1>12. Running' = {} /\ CallersIn(frames') = {} /\ Running = {}
  BY <1>1, <1>2, NoCalls, NoFrames
<1>13. Placed'
  <2>1. ToSet(active') \subseteq Live' /\ ToSet(delayed') \subseteq Live'
    BY <1>4, <1>9, <1>11
  <2>2. \A u \in Live' : thr'[u].state = "ACTIVE" <=> u \in ToSet(active')
    BY <1>4, <1>5, <1>7, <1>8, <1>9, <1>10, <1>11
  <2>3. \A u \in Live' : thr'[u].state = "DELAYED" <=> u \in ToSet(delayed')
    BY <1>4, <1>5, <1>7, <1>8, <1>9, <1>10, <1>11
  <2>4. \A u \in Thread \ Live' : thr'[u].state # "DELAYED"
    BY <1>4, <1>8, <1>9
  <2> QED BY <1>11, <1>12, <2>1, <2>2, <2>3, <2>4 DEF Placed
<1>14. ChildCount' /\ \A u \in Live' : thr'[u].parent # NULL => thr'[u].parent \in Live'
  <2>1. thr'[t].parent = NULL /\ thr'[t].children = 0
    BY <1>7, <1>8
  <2>2. \A u \in Live : thr[u].children + 0 = thr[u].children
    BY <1>1, ChildrenNat DEF ThreadsInv, ChildrenSound
  <2>3. \A u \in Live : /\ thr'[u].parent = thr[u].parent
                        /\ thr'[u].children = thr[u].children + (IF u = NULL THEN 1 ELSE 0)
    BY <1>5, <1>8, <2>2
  <2>4. NULL \in Live \cup {NULL}
    OBVIOUS
  <2> QED BY <1>1, <1>4, <2>1, <2>3, <2>4, BirthFamilies DEF ThreadsInv, ChildrenSound
<1>15. Linked'
  BY <1>12, <1>14 DEF Linked
<1>16. BlockedHaveChildren'
  BY <1>4, <1>5, <1>7, <1>8, <1>12 DEF ThreadsInv, ChildrenSound, BlockedHaveChildren
<1>17. WaitsWhereWoken'
  BY <1>4, <1>5, <1>7, <1>8 DEF ThreadsInv, WaitsWhereWoken
<1>18. Chained' /\ HeadRuns' /\ DelayedTop' /\ BusyTop' /\ EndedTop'
  BY <1>2, NoFrames
<1> QED BY <1>1, <1>4, <1>13, <1>14, <1>15, <1>16, <1>17, <1>18 DEF ThreadsInv, ChildrenSound

LEMMA PopDelayedKeeps ==
  ASSUME ThreadsInv, PopDelayed
  PROVE  ThreadsInv'
<1>1. /\ TypeOK /\ TypeOK' /\ thr \in [Thread -> ThreadRec] /\ delayed \in Seq(Thread)
  BY PassType DEF ThreadsInv, TypeOK
<1> DEFINE h == Head(delayed)
<1>2. /\ frames = <<>> /\ frames' = <<>> /\ active = <<>> /\ delayed # <<>>
      /\ active' = <<h>> /\ delayed' = Tail(delayed) /\ UNCHANGED <<pool, allNext>>
      /\ thr' = [thr EXCEPT ![h].state = "ACTIVE"]
  BY DEF PopDelayed, Between, Due
<1>3. /\ Running = {} /\ CallersIn(frames) = {} /\ Running' = {} /\ CallersIn(frames') = {}
      /\ Live' = Live /\ Live \subseteq Thread
  BY <1>1, <1>2, NoCalls, NoFrames, PoolEqual, LiveType
<1>4. /\ Distinct(delayed) /\ ToSet(delayed) \subseteq Live /\ ToSet(active) = {}
      /\ \A u \in Live : thr[u].state = "ACTIVE" <=> u \in ToSet(active)
      /\ \A u \in Live : thr[u].state = "DELAYED" <=> u \in ToSet(delayed)
      /\ \A u \in Thread \ Live : thr[u].state # "DELAYED"
  BY <1>2, <1>3 DEF ThreadsInv, Placed, ToSet
<1>5. /\ h \in ToSet(delayed) /\ Distinct(delayed') /\ ToSet(delayed') = ToSet(delayed) \ {h}
  BY <1>1, <1>2, <1>4, TailDistinct
<1>6. h \in Live /\ h \in Thread
  BY <1>3, <1>4, <1>5
<1> HIDE DEF h
<1>7. ToSet(active') = {h} /\ Distinct(active')
  BY <1>2 DEF ToSet, Distinct
<1> DEFINE r == [thr[h] EXCEPT !.state = "ACTIVE"]
<1>8. thr[h] \in ThreadRec
  BY <1>1, <1>6
<1>9. /\ r.state = "ACTIVE" /\ r.parent = thr[h].parent /\ r.children = thr[h].children
      /\ r.curr = thr[h].curr
  BY <1>8 DEF ThreadRec
<1>10. thr' = [thr EXCEPT ![h] = r]
  BY <1>1, <1>2, <1>6
<1> HIDE DEF r
<1>11. \A u \in Thread : /\ thr'[u].state = IF u = h THEN "ACTIVE" ELSE thr[u].state
                         /\ thr'[u].parent = thr[u].parent
                         /\ thr'[u].children = thr[u].children
                         /\ thr'[u].curr = thr[u].curr
  BY <1>1, <1>6, <1>9, <1>10
<1>12. Placed'
  BY <1>3, <1>4, <1>5, <1>6, <1>7, <1>11 DEF Placed
<1>13. Linked' /\ ChildrenSound'
  <2>1. thr[h].state = "DELAYED"
    BY <1>4, <1>5, <1>6
  <2>2. \A u \in Thread : /\ thr'[u].parent = thr[u].parent
                          /\ thr'[u].children = thr[u].children
                          /\ thr'[u].state = "NONE" <=> thr[u].state = "NONE"
    BY <1>11, <2>1
  <2> QED BY <1>1, <1>2, <1>3, <2>2, FamiliesKept DEF ThreadsInv
<1>14. PoolOnce'
  BY <1>2 DEF ThreadsInv, PoolOnce
<1>15. WaitsWhereWoken'
  BY <1>3, <1>11 DEF ThreadsInv, WaitsWhereWoken
<1>16. Chained' /\ HeadRuns' /\ DelayedTop' /\ BusyTop' /\ EndedTop'
  BY <1>2, NoFrames
<1> QED BY <1>1, <1>12, <1>13, <1>14, <1>15, <1>16 DEF ThreadsInv

LEMMA PostAssignKeeps ==
  ASSUME ThreadsInv, PostAssign
  PROVE  ThreadsInv'
<1>1. /\ TypeOK /\ TypeOK' /\ thr \in [Thread -> ThreadRec] /\ now \in SimTime
  BY PassType DEF ThreadsInv, TypeOK
<1>2. /\ frames = <<>> /\ frames' = <<>> /\ UNCHANGED <<pool, allNext, delayed>>
  BY DEF PostAssign, ThreadsInv, Chained
<1>3. /\ Running = {} /\ Running' = {} /\ CallersIn(frames') = CallersIn(frames)
      /\ Live' = Live /\ Live \subseteq Thread
  BY <1>1, <1>2, NoCalls, NoFrames, PoolEqual, LiveType
<1>4. PICK S \in SUBSET PostSignals : \E q \in SetToSeqs(Woken(S)) :
        active' = active \o q /\ thr' = Pushed(thr, q, now)
  BY DEF PostAssign
<1>5. PICK q0 \in SetToSeqs(Woken(S)) : active' = active \o q0 /\ thr' = Pushed(thr, q0, now)
  BY <1>4
<1>6. Wakes(thr)
  BY <1>1, <1>5, PushWakes
<1>7. PICK q \in Seq(Thread) :
        /\ Distinct(q) /\ ToSet(q) \subseteq {u \in Live : thr[u].state = "WAITING"}
        /\ active' = active \o q
        /\ \A u \in Thread :
             /\ thr'[u].state = IF u \in ToSet(q) THEN "ACTIVE" ELSE thr[u].state
             /\ thr'[u].parent = thr[u].parent /\ thr'[u].children = thr[u].children
             /\ thr'[u].kill = thr[u].kill /\ thr'[u].curr = thr[u].curr
  BY <1>6 DEF Wakes
<1>8. Waking(q)
  BY <1>7 DEF Waking
<1>9. Placed' /\ PoolOnce'
  BY <1>1, <1>2, <1>3, <1>8, WakingQueues DEF ThreadsInv
<1>10. Linked' /\ ChildrenSound'
  <2>1. \A u \in Thread : /\ thr'[u].parent = thr[u].parent
                          /\ thr'[u].children = thr[u].children
                          /\ thr'[u].state = "NONE" <=> thr[u].state = "NONE"
    BY <1>7
  <2> QED BY <1>1, <1>2, <1>3, <2>1, FamiliesKept DEF ThreadsInv
<1>11. WaitsWhereWoken'
  BY <1>3, <1>7 DEF ThreadsInv, WaitsWhereWoken
<1>12. Chained' /\ HeadRuns' /\ DelayedTop' /\ BusyTop' /\ EndedTop'
  BY <1>2, NoFrames
<1> QED BY <1>1, <1>9, <1>10, <1>11, <1>12 DEF ThreadsInv

LEMMA BeginThreadKeeps ==
  ASSUME ThreadsInv, BeginThread
  PROVE  ThreadsInv'
<1>1. /\ TypeOK /\ TypeOK' /\ active \in Seq(Thread)
  BY BeginThreadType DEF ThreadsInv, TypeOK
<1> DEFINE h == Head(active)
<1>2. /\ frames = <<>> /\ active # <<>> /\ phase = "sim"
      /\ frames' = <<[thr |-> h, stmt |-> thr[h].curr, chg |-> FALSE, called |-> FALSE]>>
      /\ UNCHANGED <<pool, allNext, active, delayed, thr, simulate, now, phase>>
  BY DEF BeginThread, Between
<1>3. /\ Running = {} /\ CallersIn(frames) = {} /\ Live' = Live /\ Live \subseteq Thread
  BY <1>1, <1>2, NoCalls, PoolEqual, LiveType
<1>4. /\ h \in ToSet(active) /\ h \in Live /\ thr[h].state = "ACTIVE" /\ active[1] = h
      /\ Len(active) \in Nat /\ Len(active) >= 1
  BY <1>1, <1>2, <1>3, TailDistinct DEF ThreadsInv, Placed
<1> HIDE DEF h
<1>5. /\ Len(frames') = 1 /\ DOMAIN frames' = 1..1 /\ frames'[1].thr = h
      /\ frames'[1].stmt = thr[h].curr /\ Top'.thr = h /\ Top'.stmt = thr[h].curr
  BY <1>2 DEF Top
<1>6. Running' = {h} /\ CallersIn(frames') = {}
  BY <1>5 DEF Running, CallersIn
<1>7. thr[h].children \in Nat /\ ~(thr[h].children > 0)
  <2>1. thr[h].children \in Nat
    BY <1>1, <1>4, ChildrenNat DEF ThreadsInv, ChildrenSound
  <2> QED BY <1>3, <1>4, <2>1 DEF ThreadsInv, ChildrenSound, BlockedHaveChildren
<1>8. Placed' /\ PoolOnce' /\ WaitsWhereWoken'
  BY <1>2, <1>3, <1>6 DEF ThreadsInv, Placed, PoolOnce, WaitsWhereWoken
<1>9. Linked'
  BY <1>2, <1>3, <1>4, <1>6 DEF ThreadsInv, Linked
<1>10. ChildrenSound'
  <2>1. ChildCount'
    BY <1>2, <1>3 DEF ThreadsInv, ChildrenSound, ChildCount
  <2>2. BlockedHaveChildren'
    BY <1>2, <1>3 DEF ThreadsInv, ChildrenSound, BlockedHaveChildren
  <2> QED BY <2>1, <2>2 DEF ChildrenSound
<1>11. Chained'
  BY <1>2, <1>5 DEF Chained
<1>12. HeadRuns'
  <2>1. AtHead(1)'
    BY <1>2, <1>4, <1>5 DEF AtHead
  <2>2. 1 \in 1..Len(frames')
    BY <1>5
  <2> QED BY <2>1, <2>2 DEF HeadRuns
<1>13. DelayedTop' /\ BusyTop' /\ EndedTop'
  BY <1>2, <1>4, <1>5, <1>7 DEF DelayedTop, BusyTop, EndedTop
<1> QED BY <1>1, <1>8, <1>9, <1>10, <1>11, <1>12, <1>13 DEF ThreadsInv

-----------------------------------------------------------------------------
(* Calls of functions are undisturbed *)

LEMMA UndisturbedInit == Init => Undisturbed
<1> SUFFICES ASSUME Init PROVE Undisturbed
  OBVIOUS
<1>1. Len(frames) = 0
  BY DEF Init
<1> QED BY <1>1 DEF Undisturbed

LEMMA CalmStatement ==
  ASSUME StructuredDesign, NEW s \in Stmt
  PROVE  /\ Op[s] \in {"DELAY", "CALL"} /\ Func[s] # NULL => FunitOf[First[Func[s]]] \in CalmUnits
         /\ FunitOf[s] \in CalmUnits =>
              /\ Op[s] \notin {"DISABLE", "FINISH", "STOP"}
              /\ Func[s] # NULL => FunitOf[First[Func[s]]] \in CalmUnits
              /\ NextTrue[s] # NULL => FunitOf[NextTrue[s]] \in CalmUnits
              /\ NextFalse[s] # NULL => FunitOf[NextFalse[s]] \in CalmUnits
<1>1. \E Q \in SUBSET Funit : Calm(Q)
  BY DEF StructuredDesign
<1>2. Calm(CalmUnits)
  BY <1>1 DEF CalmUnits
<1> QED BY <1>2 DEF Calm

(* The innermost call goes on to the next statement. *)
LEMMA AdvanceUndisturbed ==
  ASSUME StructuredDesign, TypeOK, Undisturbed, NEW ops, Executing(ops),
         NEW chg \in BOOLEAN, NEW branch \in BOOLEAN, Advance(chg, branch),
         Op[Top.stmt] \notin {"DISABLE", "FINISH", "STOP"} =>
           (simulate => simulate') /\ \A u \in Running : ~thr[u].kill => ~thr'[u].kill
  PROVE  Undisturbed'
<1> DEFINE n == Len(frames)
<1>1. /\ frames # <<>> /\ n \in Nat /\ n \in 1..n /\ Top = frames[n] /\ DOMAIN frames = 1..n
      /\ Top.stmt \in Stmt /\ Top.stmt # NULL
  BY FramesType, ExecutingType DEF Executing
<1>2. /\ Len(frames') = n /\ \A i \in 1..(n - 1) : frames'[i] = frames[i]
      /\ Top'.called = FALSE
      /\ Top'.stmt = IF Top.stmt \in Cont THEN NULL
                     ELSE IF branch THEN NextTrue[Top.stmt] ELSE NextFalse[Top.stmt]
  BY AdvanceEffect
<1>3. Top' = frames'[n]
  BY <1>2 DEF Top
<1> SUFFICES ASSUME NEW i \in 1..n, frames'[i].called
             PROVE  /\ frames'[i].stmt # NULL /\ Func[frames'[i].stmt] # NULL
                    /\ Op[frames'[i].stmt] \in {"DELAY", "CALL"} => GoesOn(i)'
  BY <1>2 DEF Undisturbed
<1>4. i \in 1..(n - 1) /\ i < n /\ frames'[i] = frames[i]
  <2>1. i # n
    BY <1>2, <1>3
  <2> HIDE DEF n
  <2>2. i \in 1..(n - 1) /\ i < n
    BY <1>1, <2>1
  <2> QED BY <1>2, <2>2
<1>5. ASSUME Op[frames[i].stmt] \in {"DELAY", "CALL"} PROVE GoesOn(i)'
  <2>1. GoesOn(i)
    BY <1>4, <1>5 DEF Undisturbed
  <2>2. FunitOf[Top.stmt] \in CalmUnits
    BY <1>1, <1>4, <2>1 DEF GoesOn
  <2>3. /\ Op[Top.stmt] \notin {"DISABLE", "FINISH", "STOP"}
        /\ Top'.stmt # NULL => FunitOf[Top'.stmt] \in CalmUnits
    BY <1>1, <1>2, <2>2, CalmStatement
  <2>4. frames[i].thr \in Running
    BY <1>1 DEF Running
  <2>5. simulate' /\ ~thr'[frames'[i].thr].kill
    BY <1>4, <2>1, <2>3, <2>4 DEF GoesOn
  <2>6. ASSUME NEW j \in 1..n, j > i, frames'[j].stmt # NULL PROVE FunitOf[frames'[j].stmt] \in CalmUnits
    <3>1. CASE j = n
      BY <1>3, <2>3, <2>6, <3>1
    <3>2. CASE j # n
      <4> HIDE DEF n
      <4>1. j \in 1..(n - 1)
        BY <1>1, <3>2
      <4>2. j \in 1..n
        OBVIOUS
      <4> QED BY <1>2, <2>1, <2>6, <4>1, <4>2 DEF GoesOn, n
    <3> QED BY <3>1, <3>2
  <2> QED BY <1>2, <2>5, <2>6 DEF GoesOn
<1> QED BY <1>4, <1>5 DEF Undisturbed

(* Only disable kills, only $finish and $stop end the simulation. *)
LEMMA KillsKept ==
  ASSUME ThreadsInv,
         ExecAssign \/ ExecEvent \/ ExecDelayEnd \/ ExecDelayStart \/ ExecJoin \/ ExecCall \/ ExecFork
  PROVE  simulate' = simulate /\ \A u \in Running : ~thr[u].kill => ~thr'[u].kill
<1>1. /\ TypeOK /\ thr \in [Thread -> ThreadRec]
      /\ Running \subseteq Live /\ Live \subseteq Thread
  BY LiveType DEF ThreadsInv, TypeOK, Linked
<1>2. simulate' = simulate
  BY DEF ExecAssign, ExecEvent, ExecDelayEnd, ExecDelayStart, ExecJoin, ExecCall, ExecFork
<1> DEFINE Kept == \A u \in Running : ~thr[u].kill => ~thr'[u].kill
<1>3. PICK ops \in {{"ASSIGN", "CASE", "VALUE"}, {"EVENT", "WAIT", "COMB"}, {"DELAY"}, {"JOIN"},
                    {"CALL"}, {"FORK"}} : Executing(ops)
  BY DEF ExecAssign, ExecEvent, ExecDelayEnd, ExecDelayStart, ExecJoin, ExecCall, ExecFork, Evaluating
<1>4. \A T \in [Thread -> ThreadRec] :
        /\ Executed(T) \in [Thread -> ThreadRec]
        /\ \A u \in Thread : Executed(T)[u].kill = T[u].kill
  BY <1>1, <1>3, ExecutedEffect
<1>5. \A T \in [Thread -> ThreadRec] : Assign(T) => \A u \in Thread : thr'[u].kill = T[u].kill
  <2> SUFFICES ASSUME NEW T \in [Thread -> ThreadRec], Assign(T)
               PROVE  \A u \in Thread : thr'[u].kill = T[u].kill
    OBVIOUS
  <2>1. Wakes(T)
    BY <1>1, <1>3, AssignWakes
  <2> QED BY <2>1 DEF Wakes
<1>6. CASE ExecAssign \/ ExecDelayEnd
  <2>1. Assign(Executed(thr)) \/ thr' = Executed(thr)
    BY <1>6 DEF ExecAssign, ExecDelayEnd
  <2> HIDE DEF Kept
  <2>2. \A u \in Thread : thr'[u].kill = thr[u].kill
    BY <1>1, <1>4, <1>5, <2>1
  <2> QED BY <1>1, <1>2, <2>2
<1>7. CASE ExecEvent \/ ExecJoin
  <2>1. thr' = Executed(thr)
    BY <1>7 DEF ExecEvent, ExecJoin
  <2> QED BY <1>1, <1>2, <1>4, <2>1
<1>8. CASE ExecDelayStart
  <2> DEFINE T == [thr EXCEPT ![Top.thr].state = "DELAYED", ![Top.thr].time = WakeTime]
             E == Executed(T)
             F == Executed(thr)
  <2>1. thr' = F \/ thr' = E
    BY <1>8 DEF ExecDelayStart
  <2>2. Top.thr \in Thread
    BY <1>1, <1>3, ExecutingType
  <2>3. \A u \in Thread : T[u].kill = thr[u].kill /\ F[u].kill = thr[u].kill
    BY <1>1, <1>4, <2>2 DEF ThreadRec
  <2> HIDE DEF T, F
  <2>4. \A u \in Thread : E[u].kill = T[u].kill
    <3>1. E = [T EXCEPT ![Top.thr] = [[T[Top.thr] EXCEPT !.curr = Top.stmt] EXCEPT !.execFirst = FALSE]]
      BY DEF Executed
    <3>2. DOMAIN T = Thread
      BY <1>1 DEF T
    <3>3. "kill" \in DOMAIN T[Top.thr]
      BY <1>1, <2>2 DEF T, ThreadRec
    <3> HIDE DEF E
    <3> QED BY <2>2, <3>1, <3>2, <3>3
  <2> HIDE DEF E
  <2> QED BY <1>1, <1>2, <2>1, <2>3, <2>4
<1>9. CASE ExecCall \/ ExecFork
  <2> DEFINE E == Executed(thr)
             s == First[Target[Top.stmt]]
  <2>1. PICK t \in Thread : AddChild(t, Top.thr, s, E)
    BY <1>9 DEF ExecCall, ExecFork
  <2>2. /\ E \in [Thread -> ThreadRec]
        /\ \A u \in Thread : /\ E[u].state = thr[u].state /\ E[u].parent = thr[u].parent
                             /\ E[u].children = thr[u].children /\ E[u].kill = thr[u].kill
    BY <1>1, <1>3, ExecutedEffect
  <2>3. s \in Stmt
    BY <1>1, <1>3, ExecutingType, DesignAssumption
  <2> HIDE DEF E, s
  <2>4. t \notin Live /\ \A u \in Thread : u # t => thr'[u].kill = E[u].kill
    BY <1>3, <2>1, <2>2, <2>3, ChildBorn
  <2> QED BY <1>1, <1>2, <2>2, <2>4
<1> QED BY <1>6, <1>7, <1>8, <1>9

LEMMA CallUndisturbed ==
  ASSUME StructuredDesign, ThreadsInv, Undisturbed, CallFunction
  PROVE  Undisturbed'
<1> DEFINE n == Len(frames)
           s == First[Func[Top.stmt]]
<1>1. TypeOK /\ thr \in [Thread -> ThreadRec] /\ Live \subseteq Thread
  BY LiveType DEF ThreadsInv, TypeOK
<1>2. /\ Executing(OpKind) /\ Func[Top.stmt] # NULL /\ ~Top.called /\ simulate' = simulate
  BY DEF CallFunction
<1>3. PICK t \in Thread :
        /\ AddChild(t, Top.thr, First[Func[Top.stmt]], thr)
        /\ frames' = Append([frames EXCEPT ![Len(frames)].called = TRUE],
                            [thr |-> t, stmt |-> First[Func[Top.stmt]], chg |-> FALSE,
                             called |-> FALSE])
  BY DEF CallFunction
<1>4. /\ n \in Nat /\ n \in 1..n /\ Top = frames[n] /\ DOMAIN frames = 1..n
      /\ Top.stmt \in Stmt /\ Top.stmt # NULL /\ ~thr[Top.thr].kill /\ simulate
  BY <1>1, <1>2, FramesType, ExecutingType DEF Executing
<1>5. s \in Stmt
  BY <1>2, <1>4, DesignAssumption
<1>6. /\ Len(frames') = n + 1 /\ \A i \in 1..(n - 1) : frames'[i] = frames[i]
      /\ \A i \in 1..n : frames'[i].thr = frames[i].thr /\ frames'[i].stmt = frames[i].stmt
      /\ frames'[n + 1].stmt = s /\ frames'[n + 1].called = FALSE
  BY <1>1, <1>2, <1>3, <1>5, CalledFrames
<1>7. \A i \in 1..n : thr'[frames'[i].thr].kill = thr[frames[i].thr].kill
  <2>1. AddChild(t, Top.thr, s, thr)
    BY <1>3
  <2>2. \A u \in Thread : /\ thr[u].state = thr[u].state /\ thr[u].parent = thr[u].parent
                          /\ thr[u].children = thr[u].children
    OBVIOUS
  <2> HIDE DEF s
  <2>3. t \notin Live /\ \A u \in Thread : u # t => thr'[u].kill = thr[u].kill
    BY <1>1, <1>2, <1>5, <2>1, <2>2, ChildBorn
  <2>4. \A i \in 1..n : frames[i].thr \in Live
    BY <1>4 DEF ThreadsInv, Linked, Running
  <2> QED BY <1>1, <1>6, <2>3, <2>4
<1> HIDE DEF s
<1> SUFFICES ASSUME NEW i \in 1..(n + 1), frames'[i].called
             PROVE  /\ frames'[i].stmt # NULL /\ Func[frames'[i].stmt] # NULL
                    /\ Op[frames'[i].stmt] \in {"DELAY", "CALL"} => GoesOn(i)'
  BY <1>6 DEF Undisturbed
<1>8. i \in 1..n
  <2>1. i # n + 1
    BY <1>6
  <2> QED BY <1>4, <2>1
<1>9. /\ frames[i].stmt # NULL /\ Func[frames[i].stmt] # NULL
      /\ Op[frames[i].stmt] \in {"DELAY", "CALL"} =>
           GoesOn(i) /\ FunitOf[s] \in CalmUnits
  <2>1. CASE i = n
    <3>1. Op[Top.stmt] \in {"DELAY", "CALL"} => FunitOf[s] \in CalmUnits
      BY <1>2, <1>4, CalmStatement DEF s
    <3>2. \A j \in 1..n : ~(j > n)
      BY <1>4
    <3> QED BY <1>2, <1>4, <2>1, <3>1, <3>2 DEF GoesOn
  <2>2. CASE i # n
    <3> HIDE DEF n
    <3>1. i \in 1..(n - 1) /\ n > i
      BY <1>4, <1>8, <2>2
    <3> USE DEF n
    <3>2. /\ frames[i].stmt # NULL /\ Func[frames[i].stmt] # NULL
          /\ Op[frames[i].stmt] \in {"DELAY", "CALL"} => GoesOn(i)
      BY <1>6, <1>8, <3>1 DEF Undisturbed
    <3>3. GoesOn(i) => FunitOf[Top.stmt] \in CalmUnits
      BY <1>4, <3>1 DEF GoesOn
    <3>4. FunitOf[Top.stmt] \in CalmUnits => FunitOf[s] \in CalmUnits
      BY <1>2, <1>4, CalmStatement DEF s
    <3> QED BY <3>2, <3>3, <3>4
  <2> QED BY <2>1, <2>2
<1>10. ASSUME GoesOn(i), FunitOf[s] \in CalmUnits PROVE GoesOn(i)'
  <2>1. simulate' /\ ~thr'[frames'[i].thr].kill
    BY <1>2, <1>7, <1>8, <1>10 DEF GoesOn
  <2>2. ASSUME NEW j \in 1..(n + 1), j > i, frames'[j].stmt # NULL
        PROVE  FunitOf[frames'[j].stmt] \in CalmUnits
    <3>1. CASE j = n + 1
      BY <1>6, <1>10, <3>1
    <3>2. CASE j # n + 1
      <4>1. j \in 1..n
        BY <1>4, <3>2
      <4> QED BY <1>6, <1>10, <2>2, <4>1 DEF GoesOn
    <3> QED BY <3>1, <3>2
  <2> QED BY <1>6, <2>1, <2>2 DEF GoesOn
<1> QED BY <1>6, <1>8, <1>9, <1>10

(* The innermost call of sim_thread returns. *)
LEMMA ReturnUndisturbed ==
  ASSUME ThreadsInv, Undisturbed, EndThread \/ SwitchThread
  PROVE  Undisturbed'
<1> DEFINE n == Len(frames)
<1>1. /\ TypeOK /\ thr \in [Thread -> ThreadRec] /\ active \in Seq(Thread)
      /\ LoopEnds /\ frames' = Front(frames) /\ simulate' = simulate
  BY DEF ThreadsInv, TypeOK, EndThread, SwitchThread
<1>2. /\ frames # <<>> /\ n \in Nat /\ Top.thr \in Thread
      /\ \A i \in 1..n : frames[i].thr \in Thread
  BY <1>1, EndingTop, FramesType
<1>3. Len(frames') = n - 1 /\ \A i \in 1..(n - 1) : frames'[i] = frames[i]
  BY <1>1, <1>2, FramesReturn
<1>4. \A u \in Thread : thr'[u].kill = thr[u].kill
  <2>1. CASE EndThread
    BY <1>1, <1>2, <2>1, KillEffect DEF EndThread
  <2>2. CASE SwitchThread
    <3>1. CASE active # <<>> /\ thr' = [thr EXCEPT ![Head(active)] = Switched(@)]
      <4>1. Head(active) \in Thread
        BY <1>1, <3>1
      <4> DEFINE h == Head(active)
      <4>2. thr[h] \in ThreadRec /\ thr' = [thr EXCEPT ![h] = Switched(thr[h])]
        BY <1>1, <3>1, <4>1
      <4> HIDE DEF h
      <4>3. Switched(thr[h]).kill = thr[h].kill
        BY <4>2 DEF Switched, ThreadRec
      <4> QED BY <1>1, <4>2, <4>3
    <3>2. CASE thr' = [thr EXCEPT ![Top.thr].execFirst = TRUE]
      BY <1>1, <1>2, <3>2 DEF ThreadRec
    <3> QED BY <2>2, <3>1, <3>2 DEF SwitchThread
  <2> QED BY <2>1, <2>2
<1>5. \A i \in 1..(n - 1) : i \in 1..n
  BY <1>2
<1>6. \A i \in 1..(n - 1) : GoesOn(i) => GoesOn(i)'
  <2> HIDE DEF n
  <2> SUFFICES ASSUME NEW i \in 1..(n - 1), GoesOn(i) PROVE GoesOn(i)'
    OBVIOUS
  <2>1. simulate' /\ ~thr'[frames'[i].thr].kill
    BY <1>1, <1>2, <1>3, <1>4, <1>5 DEF GoesOn
  <2>2. \A j \in 1..(n - 1) : j > i /\ frames'[j].stmt # NULL => FunitOf[frames'[j].stmt] \in CalmUnits
    BY <1>3, <1>5 DEF GoesOn, n
  <2> QED BY <1>3, <2>1, <2>2 DEF GoesOn
<1> SUFFICES ASSUME NEW i \in 1..(n - 1), frames'[i].called
             PROVE  /\ frames'[i].stmt # NULL /\ Func[frames'[i].stmt] # NULL
                    /\ Op[frames'[i].stmt] \in {"DELAY", "CALL"} => GoesOn(i)'
  BY <1>3 DEF Undisturbed
<1> QED BY <1>3, <1>5, <1>6 DEF Undisturbed

LEMMA UndisturbedNext ==
  ASSUME StructuredDesign, ThreadsInv, Undisturbed, [Next]_vars
  PROVE  Undisturbed'
<1>1. TypeOK
  BY DEF ThreadsInv
<1>2. CASE frames = <<>> /\ frames' = frames
  <2>1. Len(frames') = 0
    BY <1>2
  <2> QED BY <2>1 DEF Undisturbed
<1>3. CASE StartBlock \/ EndRead \/ (\E n \in 0..MaxTime : Timestep(n)) \/ FinalTimestep \/ EndPass
           \/ PopDelayed \/ PostAssign
  <2>1. frames' = frames /\ phase \in {"read", "idle", "sim", "post"} /\ (phase # "sim" \/ frames = <<>>)
    BY <1>3 DEF StartBlock, EndRead, Timestep, FinalTimestep, EndPass, PopDelayed, PostAssign, Between
  <2>2. frames = <<>>
    BY <2>1 DEF ThreadsInv, Chained
  <2> QED BY <1>2, <2>1, <2>2
<1>4. CASE BeginThread
  <2>1. Len(frames') = 1 /\ frames'[1].called = FALSE
    BY <1>4 DEF BeginThread
  <2> QED BY <2>1 DEF Undisturbed
<1>5. CASE CallFunction
  BY <1>5, CallUndisturbed
<1>6. CASE ExecAssign \/ ExecEvent \/ ExecDelayEnd \/ ExecDelayStart \/ ExecJoin \/ ExecCall \/ ExecFork
  <2>1. simulate' = simulate /\ \A u \in Running : ~thr[u].kill => ~thr'[u].kill
    BY <1>6, KillsKept
  <2>2. PICK ops \in {{"ASSIGN", "CASE", "VALUE"}, {"EVENT", "WAIT", "COMB"}, {"DELAY"}, {"JOIN"},
                      {"CALL"}, {"FORK"}} : Executing(ops)
    BY <1>6 DEF ExecAssign, ExecEvent, ExecDelayEnd, ExecDelayStart, ExecJoin, ExecCall, ExecFork,
                Evaluating
  <2>3. PICK chg \in BOOLEAN, branch \in BOOLEAN : Advance(chg, branch)
    <3>1. CASE ExecEvent \/ ExecDelayEnd \/ ExecJoin
      <4>1. /\ MayFire(Top.stmt) \in BOOLEAN /\ DelayOver \in BOOLEAN
            /\ (thr[Top.thr].children = 0) \in BOOLEAN
        BY <1>1, <2>2, ExecutingType DEF TypeOK, MayFire, ThreadRec, DelayOver, TimeCmpLE, SimTime
      <4> QED BY <3>1, <4>1 DEF ExecEvent, ExecDelayEnd, ExecJoin
    <3>2. CASE ~(ExecEvent \/ ExecDelayEnd \/ ExecJoin)
      BY <1>6, <3>2 DEF ExecAssign, ExecDelayStart, ExecCall, ExecFork
    <3> QED BY <3>1, <3>2
  <2> QED BY <1>1, <2>1, <2>2, <2>3, AdvanceUndisturbed
<1>7. CASE ExecDisable \/ ExecFinish
  <2>1. PICK ops \in {{"DISABLE"}, {"FINISH", "STOP"}} : Executing(ops)
    BY <1>7 DEF ExecDisable, ExecFinish, Evaluating
  <2>2. Op[Top.stmt] \in {"DISABLE", "FINISH", "STOP"}
    BY <2>1 DEF Executing
  <2>3. PICK chg \in BOOLEAN, branch \in BOOLEAN : Advance(chg, branch)
    BY <1>7 DEF ExecDisable, ExecFinish
  <2> QED BY <1>1, <2>1, <2>2, <2>3, AdvanceUndisturbed
<1>8. CASE EndThread \/ SwitchThread
  BY <1>8, ReturnUndisturbed
<1>9. CASE Terminated \/ UNCHANGED vars
  BY <1>9 DEF Terminated, vars, Undisturbed, GoesOn
<1> QED BY <1>3, <1>4, <1>5, <1>6, <1>7, <1>8, <1>9 DEF Next, Simulate, SimThread

-----------------------------------------------------------------------------
(* The invariant holds *)

LEMMA ThreadsInit == Init => ThreadsInv
<1> SUFFICES ASSUME Init PROVE ThreadsInv
  OBVIOUS
<1>1. /\ TypeOK /\ pool = <<>> /\ allNext = NULL /\ active = <<>> /\ delayed = <<>>
      /\ frames = <<>> /\ \A t \in Thread : thr[t].state = "NONE"
  BY InitType DEF Init
<1>2. ToSet(<<>>) = {} /\ Distinct(<<>>)
  BY DEF ToSet, Distinct
<1>3. Live = {}
  BY <1>1, <1>2 DEF Live
<1>4. Running = {} /\ CallersIn(frames) = {} /\ Len(frames) = 0
  BY <1>1, NoCalls
<1>5. Placed /\ PoolOnce /\ Linked
  BY <1>1, <1>2, <1>3, <1>4 DEF Placed, PoolOnce, Linked
<1>6. ChildrenSound /\ WaitsWhereWoken
  BY <1>3 DEF ChildrenSound, ChildCount, BlockedHaveChildren, WaitsWhereWoken
<1>7. Chained
  BY <1>1, <1>4 DEF Chained
<1>8. HeadRuns /\ DelayedTop /\ BusyTop /\ EndedTop
  BY <1>1 DEF HeadRuns, DelayedTop, BusyTop, EndedTop
<1> QED BY <1>1, <1>5, <1>6, <1>7, <1>8 DEF ThreadsInv

LEMMA ThreadsNext ==
  ASSUME StructuredDesign, ThreadsInv, Undisturbed, [Next]_vars
  PROVE  ThreadsInv'
<1>1. TypeOK
  BY DEF ThreadsInv
<1>2. CASE StartBlock
  BY <1>2, StartBlockKeeps
<1>3. CASE EndRead \/ (\E n \in 0..MaxTime : Timestep(n)) \/ FinalTimestep
  <2>1. frames = <<>> /\ UNCHANGED <<pool, allNext, active, delayed, thr, frames>>
    BY <1>3 DEF EndRead, Timestep, FinalTimestep, ThreadsInv, Chained
  <2>2. TypeOK'
    BY <1>1, <1>3, TimestepType
  <2> QED BY <2>1, <2>2, PhaseKeeps
<1>4. CASE EndPass
  <2>1. frames = <<>> /\ UNCHANGED <<pool, allNext, active, delayed, thr, frames>>
    BY <1>4 DEF EndPass, Between
  <2>2. TypeOK'
    BY <1>1, <1>4, PassType
  <2> QED BY <2>1, <2>2, PhaseKeeps
<1>5. CASE PopDelayed
  BY <1>5, PopDelayedKeeps
<1>6. CASE PostAssign
  BY <1>6, PostAssignKeeps
<1>7. CASE BeginThread
  BY <1>7, BeginThreadKeeps
<1>8. CASE CallFunction
  BY <1>8, CallFunctionKeeps
<1>9. CASE ExecAssign \/ ExecEvent \/ ExecDelayEnd \/ ExecDisable \/ ExecFinish
  BY <1>9, PlainKeeps
<1>10. CASE ExecDelayStart
  BY <1>10, DelayStartKeeps
<1>11. CASE ExecCall \/ ExecFork
  BY <1>11, SpawnKeeps
<1>12. CASE ExecJoin
  BY <1>12, JoinKeeps
<1>13. CASE EndThread
  BY <1>13, EndThreadKeeps
<1>14. CASE SwitchThread
  BY <1>14, SwitchThreadKeeps
<1>15. CASE Terminated \/ UNCHANGED vars
  <2>1. UNCHANGED vars
    BY <1>15 DEF Terminated
  <2>2. /\ Live' = Live /\ Running' = Running /\ Top' = Top
    <3>1. UNCHANGED <<pool, allNext>> /\ frames' = frames
      BY <2>1 DEF vars
    <3>2. Live' = Live
      BY <3>1, PoolEqual
    <3> QED BY <3>1, <3>2 DEF Running, Top
  <2>3. TypeOK' /\ PoolOnce' /\ Placed' /\ Linked' /\ ChildrenSound' /\ WaitsWhereWoken'
    BY <2>1, <2>2 DEF ThreadsInv, TypeOK, PoolOnce, Placed, Linked, ChildrenSound, ChildCount,
       BlockedHaveChildren, WaitsWhereWoken, vars
  <2>4. Chained' /\ HeadRuns'
    BY <2>1, <2>2 DEF ThreadsInv, Chained, HeadRuns, AtHead, vars
  <2>5. DelayedTop' /\ BusyTop' /\ EndedTop'
    BY <2>1, <2>2 DEF ThreadsInv, DelayedTop, BusyTop, EndedTop, vars
  <2> QED BY <2>3, <2>4, <2>5 DEF ThreadsInv
<1> QED BY <1>2, <1>3, <1>4, <1>5, <1>6, <1>7, <1>8, <1>9, <1>10, <1>11, <1>12, <1>13, <1>14, <1>15
        DEF Next, Simulate, SimThread

(* The state of every structured design keeps the invariant from the start  *)
(* of sim_simulate to its end, whatever the dumpfile and however many       *)
(* threads there are.                                                       *)
THEOREM ThreadsAlways ==
  ASSUME StructuredDesign
  PROVE  Spec => [](ThreadsInv /\ Undisturbed)
<1>1. Init => ThreadsInv /\ Undisturbed
  BY ThreadsInit, UndisturbedInit
<1>2. ThreadsInv /\ Undisturbed /\ [Next]_vars => ThreadsInv' /\ Undisturbed'
  BY ThreadsNext, UndisturbedNext
<1> QED BY <1>1, <1>2, PTL DEF Spec

-----------------------------------------------------------------------------
(* The properties of the threads *)

(* The queues and the states of the threads agree in every structured       *)
(* design: no step of sim.c loses a thread, queues it twice or leaves a     *)
(* freed one in a list.                                                     *)
THEOREM QueuesAlways ==
  ASSUME StructuredDesign
  PROVE  Spec => []QueuesMatchStates
<1>1. ThreadsInv => QueuesMatchStates
  <2> SUFFICES ASSUME ThreadsInv PROVE QueuesMatchStates
    OBVIOUS
  <2>1. Callers = CallersIn(frames)
    BY DEF Callers, CallersIn
  <2>2. CallersIn(frames) \subseteq Live
    <3>1. \A i \in 1..(Len(frames) - 1) : i \in DOMAIN frames
      BY FramesType DEF ThreadsInv
    <3> QED BY <3>1 DEF ThreadsInv, Linked, Running, CallersIn
  <2> QED BY <2>1, <2>2 DEF ThreadsInv, Placed, QueuesMatchStates
<1> QED BY <1>1, ThreadsAlways, PTL

(* The pool is sound: a live thread, or a thread that runs, is in front of  *)
(* all_next, and so is its parent.                                          *)
THEOREM PoolAlways ==
  ASSUME StructuredDesign
  PROVE  Spec => []PoolSound
<1>1. ThreadsInv => PoolSound
  BY DEF ThreadsInv, Linked, PoolSound
<1> QED BY <1>1, ThreadsAlways, PTL

(* A parent counts its children exactly, so that sim_kill_thread puts it    *)
(* back with the last of them, and no blocked thread is forgotten.          *)
THEOREM ChildrenAlways ==
  ASSUME StructuredDesign
  PROVE  Spec => []ChildrenSound
<1>1. ThreadsInv => ChildrenSound
  BY DEF ThreadsInv
<1> QED BY <1>1, ThreadsAlways, PTL

(* A thread only waits where a signal or a delay can wake it.               *)
THEOREM WaitsAlways ==
  ASSUME StructuredDesign
  PROVE  Spec => []WaitsWhereWoken
<1>1. ThreadsInv => WaitsWhereWoken
  BY DEF ThreadsInv
<1> QED BY <1>1, ThreadsAlways, PTL

(* What sim_thread pops off the active queue is the thread it runs.         *)
THEOREM HeadAlways ==
  ASSUME StructuredDesign
  PROVE  Spec => []HeadIsRunning
<1>1. ThreadsInv /\ Undisturbed => HeadIsRunning
  <2> SUFFICES ASSUME ThreadsInv, Undisturbed, frames # <<>> PROVE HeadIsRunning
    BY DEF HeadIsRunning
  <2>1. CASE \E k \in 1..Len(frames) : AtHead(k)
    <3>1. PICK k \in 1..Len(frames) : AtHead(k)
      BY <2>1
    <3> DEFINE m == Len(frames) - k + 1
               chain == [i \in 1..m |-> frames[k + i - 1].thr]
    <3>2. Len(frames) \in Nat /\ active \in Seq(Thread) /\ m \in Nat /\ m <= Len(active)
      BY <3>1, FramesType DEF AtHead, ThreadsInv, TypeOK
    <3>3. \A i \in 1..m : k + i - 1 \in k..Len(frames) /\ (k + i - 1) - k + 1 = i
                          /\ k + i - 1 \in 1..Len(frames)
      BY <3>2
    <3>4. \A i \in 1..m : active[i] = chain[i] /\ chain[i] \in Thread
      BY <3>1, <3>3, FramesType DEF AtHead, ThreadsInv
    <3> HIDE DEF m
    <3>5. chain \in Seq(Thread) /\ Len(chain) = m
      <4>1. m \in Nat
        BY <3>2
      <4>2. chain \in [1..m -> Thread]
        BY <3>4
      <4> HIDE DEF chain
      <4> QED BY <4>1, <4>2
    <3> HIDE DEF chain
    <3>6. Len(chain) <= Len(active) /\ \A i \in 1..Len(chain) : chain[i] = active[i]
      BY <3>2, <3>4, <3>5
    <3>7. IsPrefix(chain, active)
      <4>1. /\ SubSeq(chain, 1, m) \in Seq(Thread) /\ Len(SubSeq(chain, 1, m)) = m
            /\ \A i \in 1..m : SubSeq(chain, 1, m)[i] = chain[i]
        BY <3>2, <3>5, SubSeqProperties
      <4>2. /\ SubSeq(active, 1, m) \in Seq(Thread) /\ Len(SubSeq(active, 1, m)) = m
            /\ \A i \in 1..m : SubSeq(active, 1, m)[i] = active[i]
        BY <3>2, SubSeqProperties
      <4>3. SubSeq(chain, 1, m) = SubSeq(active, 1, m)
        BY <3>5, <3>6, <4>1, <4>2, SeqEqual
      <4> QED BY <3>5, <3>6, <4>3 DEF IsPrefix
    <3> QED BY <3>7 DEF HeadIsRunning, chain, m
  <2>2. CASE thr[Top.thr].state = "DELAYED"
    <3>1. Top.stmt = NULL /\ Len(frames) = 1 /\ Top = frames[Len(frames)] /\ Len(frames) \in 1..Len(frames)
      BY <2>2, FramesType DEF ThreadsInv, DelayedTop
    <3>2. ~Top.called
      BY <3>1 DEF Undisturbed
    <3> QED BY <2>2, <3>1, <3>2 DEF LoopEnds, HeadIsRunning
  <2> QED BY <2>1, <2>2 DEF ThreadsInv, HeadRuns
<1> QED BY <1>1, ThreadsAlways, PTL

(* Neither assertion of sim.c on the state of a thread can fail, and where  *)
(* the head of the active queue is taken off there is one.                  *)
THEOREM AssertionsAlways ==
  ASSUME StructuredDesign
  PROVE  Spec => []AssertionsHold
<1>1. ThreadsInv => AssertionsHold
  <2> SUFFICES ASSUME ThreadsInv PROVE AssertionsHold
    OBVIOUS
  <2>1. ASSUME frames # <<>>, \E k \in 1..Len(frames) : AtHead(k)
        PROVE  active # <<>>
    <3>1. PICK k \in 1..Len(frames) : AtHead(k)
      BY <2>1
    <3>2. Len(active) >= 1 /\ active \in Seq(Thread)
      BY <3>1, FramesType DEF AtHead, ThreadsInv, TypeOK
    <3> QED BY <3>2
  <2>2. ASSUME Evaluating({"DELAY"})
        PROVE  thr[Top.thr].state # "DELAYED" /\ active # <<>>
    <3>1. Executing({"DELAY"})
      BY <2>2 DEF Evaluating
    <3> QED BY <2>1, <3>1, RunningTop
  <2>3. ASSUME LoopEnds, Killed(Top)
        PROVE  thr[Top.thr].state # "WAITING" /\ active # <<>>
    BY <2>1, <2>3, KilledTop, EndingTop
  <2> QED BY <2>2, <2>3 DEF AssertionsHold
<1> QED BY <1>1, ThreadsAlways, PTL

(* No step but the death of a child unblocks a thread. *)
LEMMA BlockedStay ==
  ASSUME StructuredDesign, ThreadsInv, [Next]_vars, ~EndThread
  PROVE  \A u \in Live : thr[u].state = "NONE" => thr'[u].state = "NONE"
<1>1. TypeOK /\ thr \in [Thread -> ThreadRec] /\ Live \subseteq Thread /\ now \in SimTime
  BY LiveType DEF ThreadsInv, TypeOK
<1> DEFINE Stay == \A u \in Live : thr[u].state = "NONE" => thr'[u].state = "NONE"
<1>2. ASSUME NEW T \in [Thread -> ThreadRec], Wakes(T),
             \A u \in Thread : T[u].state = thr[u].state
      PROVE  Stay
  BY <1>1, <1>2 DEF Wakes
<1>3. ASSUME thr' = thr PROVE Stay
  BY <1>3
<1>4. ASSUME NEW ops, Executing(ops), NEW T \in [Thread -> ThreadRec],
             \A u \in Thread : T[u].state = thr[u].state
      PROVE  /\ Executed(T) \in [Thread -> ThreadRec]
             /\ \A u \in Thread : Executed(T)[u].state = thr[u].state
  BY <1>1, <1>4, ExecutedEffect
<1>5. CASE StartBlock
  <2>1. PICK t \in Thread : Alloc(t) /\ \E r : thr' = [thr EXCEPT ![t] = r]
    BY <1>5 DEF StartBlock, StartDelayed, StartActive
  <2>2. t \notin Live
    BY <2>1, AllocLive DEF ThreadsInv
  <2> QED BY <1>1, <2>1, <2>2
<1>6. CASE PopDelayed
  <2>1. Head(delayed) \in ToSet(delayed) /\ thr' = [thr EXCEPT ![Head(delayed)].state = "ACTIVE"]
    BY <1>1, <1>6, TailDistinct DEF PopDelayed, Due, ThreadsInv, Placed, TypeOK
  <2>2. Head(delayed) \in Live /\ thr[Head(delayed)].state = "DELAYED"
    BY <2>1 DEF ThreadsInv, Placed
  <2> QED BY <1>1, <2>1, <2>2
<1>7. CASE PostAssign
  <2>1. PICK S \in SUBSET PostSignals : \E q \in SetToSeqs(Woken(S)) :
          active' = active \o q /\ thr' = Pushed(thr, q, now)
    BY <1>7 DEF PostAssign
  <2>2. PICK q \in SetToSeqs(Woken(S)) : active' = active \o q /\ thr' = Pushed(thr, q, now)
    BY <2>1
  <2>3. Wakes(thr)
    BY <1>1, <2>2, PushWakes
  <2> QED BY <1>1, <1>2, <2>3
<1>8. CASE ExecAssign \/ ExecEvent \/ ExecDelayEnd \/ ExecJoin \/ ExecFinish
  <2>1. PICK ops \in {{"ASSIGN", "CASE", "VALUE"}, {"EVENT", "WAIT", "COMB"}, {"DELAY"}, {"JOIN"},
                      {"FINISH", "STOP"}} : Executing(ops)
    BY <1>8 DEF ExecAssign, ExecEvent, ExecDelayEnd, ExecJoin, ExecFinish, Evaluating
  <2> DEFINE E == Executed(thr)
  <2>2. E \in [Thread -> ThreadRec] /\ \A u \in Thread : E[u].state = thr[u].state
    BY <1>1, <1>4, <2>1
  <2>3. CASE thr' = E
    <3> HIDE DEF E
    <3> QED BY <1>1, <2>2, <2>3
  <2>4. CASE Assign(E)
    <3>1. Wakes(E)
      <4> HIDE DEF E
      <4> QED BY <1>1, <2>1, <2>2, <2>4, AssignWakes
    <3> HIDE DEF E
    <3> QED BY <1>2, <2>2, <3>1
  <2> QED BY <1>8, <2>3, <2>4 DEF ExecAssign, ExecEvent, ExecDelayEnd, ExecJoin, ExecFinish
<1>9. CASE ExecDisable
  <2> DEFINE D == Disabled(thr, Target[Top.stmt])
  <2>1. Executing({"DISABLE"}) /\ thr' = Executed(D)
    BY <1>9 DEF ExecDisable, Evaluating
  <2>2. D \in [Thread -> ThreadRec] /\ \A u \in Thread : D[u].state = thr[u].state
    BY <1>1, DisabledType DEF Disabled, ThreadRec
  <2> HIDE DEF D
  <2> QED BY <1>1, <1>4, <2>1, <2>2
<1>10. CASE ExecDelayStart
  <2>1. Executing({"DELAY"})
    BY <1>10 DEF ExecDelayStart, Evaluating
  <2>2. Top.thr \in Thread /\ thr[Top.thr].state = "ACTIVE"
    BY <1>1, <2>1, RunningTop
  <2>3. CASE now.final
    <3>1. thr' = Executed(thr)
      BY <1>10, <2>3 DEF ExecDelayStart
    <3> QED BY <1>1, <1>4, <2>1, <3>1
  <2>4. CASE ~now.final
    <3>1. \E r : thr' = [thr EXCEPT ![Top.thr] = r]
      <4> DEFINE T == [thr EXCEPT ![Top.thr].state = "DELAYED", ![Top.thr].time = WakeTime]
      <4>1. thr' = Executed(T)
        BY <1>10, <2>4 DEF ExecDelayStart
      <4>2. \E r : T = [thr EXCEPT ![Top.thr] = r]
        BY <1>1, <2>2
      <4>3. \E r : Executed(T) = [T EXCEPT ![Top.thr] = r]
        BY <2>2 DEF Executed
      <4> HIDE DEF T
      <4>4. PICK r1 : T = [thr EXCEPT ![Top.thr] = r1]
        BY <4>2
      <4>5. PICK r2 : Executed(T) = [T EXCEPT ![Top.thr] = r2]
        BY <4>3
      <4>6. thr' = [thr EXCEPT ![Top.thr] = r2]
        BY <1>1, <4>1, <4>4, <4>5
      <4> QED BY <4>6
    <3> QED BY <1>1, <2>2, <3>1
  <2> QED BY <2>3, <2>4
<1>11. CASE CallFunction \/ ExecCall \/ ExecFork
  <2>1. PICK ops \in {OpKind, {"CALL"}, {"FORK"}} : Executing(ops)
    BY <1>11 DEF CallFunction, ExecCall, ExecFork, Evaluating
  <2>2. Top.thr \in Live /\ Top.thr \in Thread /\ thr[Top.thr].state = "ACTIVE" /\ Top.stmt \in Stmt
    BY <1>1, <2>1, RunningTop
  <2>3. PICK t \in Thread : \E s, T \in {First[Func[Top.stmt]], First[Target[Top.stmt]], thr, Executed(thr)} :
          /\ AddChild(t, Top.thr, s, T) /\ T \in {thr, Executed(thr)}
    BY <1>11 DEF CallFunction, ExecCall, ExecFork
  <2>4. PICK s, T : AddChild(t, Top.thr, s, T) /\ T \in {thr, Executed(thr)}
    BY <2>3
  <2>5. T \in [Thread -> ThreadRec] /\ \A u \in Thread : T[u].state = thr[u].state
    BY <1>1, <1>4, <2>1, <2>4
  <2>6. t \notin Live
    BY <2>4, AllocLive DEF AddChild, ThreadsInv
  <2>7. \A u \in Thread : u # t /\ u # Top.thr => thr'[u] = T[u]
    BY <2>4, <2>5 DEF AddChild
  <2> QED BY <1>1, <2>2, <2>5, <2>6, <2>7
<1>12. CASE SwitchThread
  <2>1. LoopEnds /\ ~Killed(Top)
    BY <1>12 DEF SwitchThread
  <2>2. /\ frames # <<>> /\ Top.thr \in Live /\ Top.thr \in Thread /\ Len(frames) = 1
        /\ thr[Top.thr].state \in {"ACTIVE", "DELAYED"}
        /\ thr[Top.thr].state # "ACTIVE" => Op[thr[Top.thr].curr] = "DELAY" /\ ~now.final
    BY <2>1, EndingTop, SwitchedTop
  <2>3. \E r : thr' = [thr EXCEPT ![Top.thr] = r]
    <3>1. CASE Op[thr[Top.thr].curr] # "DELAY" \/ now.final
      <4>1. Head(active) = Top.thr
        BY <2>2, <3>1, SingleCall
      <4> QED BY <1>12, <3>1, <4>1 DEF SwitchThread
    <3>2. CASE ~(Op[thr[Top.thr].curr] # "DELAY" \/ now.final)
      BY <1>12, <3>2 DEF SwitchThread
    <3> QED BY <3>1, <3>2
  <2> QED BY <1>1, <2>2, <2>3
<1>13. CASE BeginThread \/ EndPass \/ EndRead \/ (\E n \in 0..MaxTime : Timestep(n))
            \/ FinalTimestep \/ Terminated \/ UNCHANGED vars
  BY <1>3, <1>13 DEF BeginThread, EndPass, EndRead, Timestep, FinalTimestep, Terminated, vars
<1> QED BY <1>5, <1>6, <1>7, <1>8, <1>9, <1>10, <1>11, <1>12, <1>13
        DEF Next, Simulate, SimThread

(* A call returns, and a join goes on, in the step in which the last thread  *)
(* it had started dies, and in no other.                                     *)
THEOREM JoinsAlways ==
  ASSUME StructuredDesign
  PROVE  Spec => JoinAfterAll
<1> DEFINE Unblocks == \A p \in Live : thr[p].state = "NONE" /\ thr'[p].state # "NONE" =>
             Cardinality(Live \ Live') = 1 /\ \A t \in Live' : thr'[t].parent # p
<1>1. ThreadsInv /\ ThreadsInv' /\ [Next]_vars => Unblocks
  <2> SUFFICES ASSUME ThreadsInv, ThreadsInv', [Next]_vars, NEW p \in Live,
                      thr[p].state = "NONE", thr'[p].state # "NONE"
               PROVE  Cardinality(Live \ Live') = 1 /\ \A t \in Live' : thr'[t].parent # p
    OBVIOUS
  <2>1. EndThread
    BY BlockedStay
  <2> DEFINE t == Top.thr
  <2>2. /\ LoopEnds /\ Killed(Top) /\ KillThread(t) /\ Park(t)
    BY <2>1 DEF EndThread, KillThread
  <2>3. TypeOK /\ TypeOK' /\ PoolOnce /\ t \in Live /\ t \in Thread /\ thr[t].state = "ACTIVE"
    BY <2>2, EndingTop, KilledTop DEF ThreadsInv
  <2>4. Live' = Live \ {t} /\ Live \subseteq Thread
    BY <2>2, <2>3, ParkLive, LiveType
  <2>5. LastChild(t) /\ p = thr[t].parent /\ p # t
    BY <2>2, <2>3, <2>4, KillEffect
  <2>6. thr'[p].children = 0
    BY <2>2, <2>3, <2>4, <2>5, KillEffect DEF LastChild
  <2>7. p \in Live' /\ Live' \subseteq Thread
    BY <2>4, <2>5
  <2>8. Live \ Live' = {t}
    BY <2>3, <2>4
  <2>9. Cardinality({u \in Live' : thr'[u].parent = p}) = 0
    BY <2>6, <2>7 DEF ThreadsInv, ChildrenSound, ChildCount
  <2>10. IsFiniteSet(Live')
    BY <2>3, <2>4, LiveType, FS_Subset
  <2> HIDE DEF t
  <2>11. {u \in Live' : thr'[u].parent = p} = {}
    <3> DEFINE K == {u \in Live' : thr'[u].parent = p}
    <3>1. IsFiniteSet(K) /\ Cardinality(K) = 0
      BY <2>9, <2>10, FS_Subset
    <3> HIDE DEF K
    <3>2. K = {}
      BY <3>1, FS_EmptySet
    <3> QED BY <3>2 DEF K
  <2> QED BY <2>8, <2>11, FS_Singleton
<1>2. [][Unblocks]_vars <=> JoinAfterAll
  BY DEF JoinAfterAll
<1> HIDE DEF Unblocks
<1> QED BY <1>1, <1>2, ThreadsAlways, PTL DEF Spec


-----------------------------------------------------------------------------
(* The order in which the scheduler serves its threads: by their times, for *)
(* every structured design whose times fit in one word, any number of       *)
(* thread structures and any dumpfile.                                      *)

(* The time of a thread. *)
Clock(t) == Full(thr[t].time)

Undelayed == Live \ ToSet(delayed)

(* Delayed threads are in order and none of them is before a thread that is *)
(* not delayed, which in turn is not later than the simulation is.          *)
Times ==
  /\ Full(now) < Word \/ now = FinalTime
  /\ ~now.final => Full(now) <= MaxTime
  /\ phase \in {"read", "idle"} => ~now.final
  /\ phase = "read" => Full(now) = 0
  /\ phase = "post" => active = <<>>
  /\ \A t \in ToSet(delayed) : thr[t].time = FinalTime \/ Clock(t) < Word
  /\ DelayedInOrder
  /\ \A t \in Undelayed, u \in ToSet(delayed) : Clock(t) <= Clock(u)
  /\ ~now.final => \A t \in Undelayed : Clock(t) <= Full(now)
  /\ NoneOverdue

(* A thread that may run has the latest time of all that are not delayed,   *)
(* but for continuous assignments, which keep the time of their last change, *)
(* and for the functions they call.                                         *)
Timely == {t \in Live : /\ thr[t].state = "ACTIVE" /\ thr[t].curr \notin Cont
                        /\ \A i \in 2..Len(frames) : frames[i].thr # t}

Latest(t) == \A u \in Undelayed : Clock(u) <= Clock(t)

TimelyLast == ~now.final => \A t \in Timely : Latest(t)

CallsShareTime ==
  \A i \in 1..Len(frames) : thr[frames[i].thr].time = thr[frames[1].thr].time

(* A continuous assignment is the whole of its thread, and the functions it *)
(* calls assign nothing.                                                    *)
QuietUnits == CHOOSE Q \in SUBSET Funit : WritesNothing(Q)

ContinuousAlone ==
  /\ \A t \in Live : thr[t].curr \in Cont => thr[t].parent = NULL
  /\ \A i \in 1..Len(frames) :
       /\ thr[frames[i].thr].curr \in Cont => frames[i].stmt \in Cont \cup {NULL}
       /\ thr[frames[i].thr].curr \notin Cont => frames[i].stmt \notin Cont
  /\ frames # <<>> /\ thr[frames[1].thr].curr \in Cont =>
       \A i \in 2..Len(frames) : frames[i].stmt # NULL => FunitOf[frames[i].stmt] \in QuietUnits

(* Only a change at which the time of a thread is set wakes it, unless it is *)
(* a continuous assignment or the simulation is in its final timestep.      *)
WaitsForChange ==
  ~now.final => \A t \in Live : thr[t].state = "WAITING" =>
    thr[t].curr \in Cont \/ Op[thr[t].curr] \in {"EVENT", "COMB", "WAIT"}

OrderInv == Times /\ TimelyLast /\ CallsShareTime /\ ContinuousAlone /\ WaitsForChange

-----------------------------------------------------------------------------
(* Times that fit in one word *)

LEMMA LowWord ==
  ASSUME NEW x \in SimTime, Full(x) < Word
  PROVE  x.hi = 0
<1>1. x.hi \in Nat /\ x.lo \in Nat /\ Word \in Nat
  BY WordAssumption DEF SimTime
<1>2. SUFFICES ASSUME x.hi >= 1 PROVE FALSE
  BY <1>1
<1>3. \A h, w \in Nat : h >= 1 => h * w >= w
  <2> SUFFICES ASSUME NEW h \in Nat, NEW w \in Nat, h >= 1 PROVE h * w >= w
    OBVIOUS
  <2>1. \A a, b, c \in Nat : a <= b => a * c <= b * c
    OBVIOUS
  <2>2. 1 * w <= h * w
    BY <2>1
  <2> QED BY <2>2
<1>4. x.hi * Word >= Word /\ x.hi * Word \in Nat
  BY <1>1, <1>2, <1>3
<1> QED BY <1>1, <1>4 DEF Full

LEMMA OneWord ==
  ASSUME NEW n \in Nat, n < Word, NEW f \in BOOLEAN
  PROVE  TimeOf(n, f) \in SimTime /\ Full(TimeOf(n, f)) = n /\ TimeOf(n, f).final = f
<1>1. Word \in Nat \ {0} /\ TimeOf(n, f) \in SimTime
  BY WordAssumption, TimeOfType
<1>2. n \div Word = 0 /\ n % Word = n
  BY <1>1
<1>3. 0 % Word = 0 /\ 0 * Word = 0
  BY <1>1
<1> QED BY <1>1, <1>2, <1>3 DEF TimeOf, Full

(* No time is after the final one, and an ordinary one is before it. *)
LEMMA FinalIsLast ==
  ASSUME Word > 1, NEW x \in SimTime
  PROVE  /\ Full(x) <= Full(FinalTime)
         /\ Full(x) < Word => Full(x) < Full(FinalTime)
<1>1. /\ Word \in Nat /\ FinalTime \in SimTime /\ FinalTime.hi = Word - 1
      /\ FinalTime.lo = Word - 1
      /\ x.hi \in 0..(Word - 1) /\ x.lo \in 0..(Word - 1)
  BY WordAssumption, FinalTimeType DEF FinalTime, SimTime
<1>2. Full(x) \in Nat /\ Full(FinalTime) \in Nat
  BY <1>1, FullType
<1>3. Full(x) <= Full(FinalTime)
  <2>1. CASE x.hi < FinalTime.hi
    BY <1>1, <1>2, <2>1, HighWordDominates
  <2>2. CASE x.hi = FinalTime.hi
    BY <1>1, <2>2, EqualHighWords
  <2> QED BY <1>1, <2>1, <2>2
<1>4. ASSUME Full(x) < Word PROVE Full(x) < Full(FinalTime)
  <2>1. x.hi = 0
    BY <1>4, LowWord
  <2> QED BY <1>1, <2>1, HighWordDominates
<1> QED BY <1>3, <1>4

(* The times a delayed thread may have. *)
Ordinary(x) == x \in SimTime /\ (x = FinalTime \/ Full(x) < Word)

(* Of these TIME_CMP_GT is the order. *)
LEMMA CompareGT ==
  ASSUME Word > 1, NEW x, Ordinary(x), NEW y, Ordinary(y)
  PROVE  TimeCmpGT(x, y) <=> Full(x) > Full(y)
<1>1. /\ x \in SimTime /\ y \in SimTime /\ Word \in Nat /\ FinalTime \in SimTime
      /\ FinalTime.hi = Word - 1 /\ FinalTime.lo = Word - 1
      /\ x.lo \in 0..(Word - 1)
  BY WordAssumption, FinalTimeType DEF Ordinary, FinalTime, SimTime
<1>2. Full(x) \in Nat /\ Full(y) \in Nat
  BY <1>1, FullType
<1>3. CASE x.hi = y.hi
  BY <1>1, <1>3, TimeCmpGTOneSided
<1>4. CASE x = FinalTime /\ Full(y) < Word
  <2>1. Full(x) > Full(y)
    BY <1>1, <1>4, FinalIsLast
  <2> QED BY <1>1, <2>1, TimeCmpGTOneSided
<1>5. CASE Full(x) < Word /\ y = FinalTime
  <2>1. Full(x) < Full(y) /\ x.hi = 0
    BY <1>1, <1>5, FinalIsLast, LowWord
  <2>2. ~TimeCmpGT(x, y)
    BY <1>1, <1>5, <2>1 DEF TimeCmpGT
  <2> QED BY <1>2, <2>1, <2>2
<1>6. CASE Full(x) < Word /\ Full(y) < Word
  <2>1. x.hi = y.hi
    BY <1>1, <1>6, LowWord
  <2> QED BY <1>1, <2>1, TimeCmpGTOneSided
<1> QED BY <1>3, <1>4, <1>5, <1>6 DEF Ordinary

(* Delayed threads have ordinary times. *)
LEMMA DelayedTimes ==
  ASSUME TypeOK, Placed, Times
  PROVE  /\ delayed \in Seq(Thread) /\ DOMAIN delayed = 1..Len(delayed) /\ Len(delayed) \in Nat
         /\ \A i \in DOMAIN delayed : delayed[i] \in ToSet(delayed)
         /\ \A t \in ToSet(delayed) : t \in Live /\ \E i \in DOMAIN delayed : t = delayed[i]
         /\ \A t \in Live : t \in Thread /\ thr[t].time \in SimTime /\ Clock(t) \in Nat
         /\ \A t \in ToSet(delayed) : Ordinary(thr[t].time)
<1>1. delayed \in Seq(Thread) /\ thr \in [Thread -> ThreadRec]
  BY DEF TypeOK
<1>2. \A t \in Live : t \in Thread /\ thr[t].time \in SimTime
  BY <1>1, LiveType DEF ThreadRec
<1>3. \A t \in Live : Clock(t) \in Nat
  BY <1>2, FullType DEF Clock
<1>4. ToSet(delayed) \subseteq Live
  BY DEF Placed
<1>5. \A t \in ToSet(delayed) : Ordinary(thr[t].time)
  BY <1>2, <1>4 DEF Times, Ordinary, Clock
<1> QED BY <1>1, <1>2, <1>3, <1>4, <1>5 DEF ToSet

(* sim_thread_insert_into_delay_queue keeps the queue in order. *)
LEMMA InsertOrdered ==
  ASSUME Word > 1, TypeOK, Placed, Times, NEW t \in Thread, t \notin ToSet(delayed),
         NEW tm, Ordinary(tm), delayed' = Insert(delayed, t, tm), thr'[t].time = tm,
         \A u \in ToSet(delayed) : thr'[u].time = thr[u].time
  PROVE  DelayedInOrder' /\ ToSet(delayed') = ToSet(delayed) \cup {t}
<1> DEFINE q == delayed
           I == {k \in 1..Len(q) : ~TimeCmpGT(thr[q[k]].time, tm)}
           i == InsertPos(q, tm)
           p == i + 1
<1>1. /\ q \in Seq(Thread) /\ DOMAIN q = 1..Len(q) /\ Len(q) \in Nat
      /\ \A k \in 1..Len(q) : /\ q[k] \in ToSet(q) /\ Clock(q[k]) \in Nat
                              /\ TimeCmpGT(thr[q[k]].time, tm) <=> Clock(q[k]) > Full(tm)
      /\ Full(tm) \in Nat
  BY DelayedTimes, CompareGT, FullType DEF Clock, Ordinary
<1>2. \A j, k \in 1..Len(q) : j < k => Clock(q[j]) <= Clock(q[k])
  BY <1>1 DEF Times, DelayedInOrder, Clock
<1>3. /\ i \in 0..Len(q) /\ (i # 0 => i \in I) /\ \A k \in I : k <= i
  <2>1. i = IF I # {} THEN Max(I) ELSE 0
    BY DEF InsertPos, SelectLastInSeq
  <2>2. I \in SUBSET (1..Len(q)) /\ Len(q) \in Nat
    BY <1>1
  <2> HIDE DEF I, i
  <2>3. /\ (IF I # {} THEN Max(I) ELSE 0) \in 0..Len(q)
        /\ I # {} => Max(I) \in I /\ \A j \in I : Max(I) >= j
    BY <2>2, LastPosition
  <2>4. \A j \in I : j \in Nat
    BY <2>2
  <2> QED BY <2>1, <2>3, <2>4
<1> HIDE DEF i
<1>4. \A k \in 1..i : Clock(q[k]) <= Full(tm)
  <2> SUFFICES ASSUME NEW k \in 1..i PROVE Clock(q[k]) <= Full(tm)
    OBVIOUS
  <2>1. i \in 1..Len(q) /\ k \in 1..Len(q) /\ ~(Clock(q[i]) > Full(tm))
    BY <1>1, <1>3
  <2>2. Clock(q[i]) \in Nat /\ Clock(q[k]) \in Nat /\ (k < i => Clock(q[k]) <= Clock(q[i]))
    BY <1>1, <1>2, <2>1
  <2>3. k = i \/ k < i
    BY <1>3
  <2> QED BY <1>1, <2>1, <2>2, <2>3
<1>5. \A k \in (i + 1)..Len(q) : Clock(q[k]) > Full(tm)
  <2> SUFFICES ASSUME NEW k \in (i + 1)..Len(q) PROVE Clock(q[k]) > Full(tm)
    OBVIOUS
  <2>1. k \in 1..Len(q) /\ k \notin I
    BY <1>3
  <2> QED BY <1>1, <2>1
<1> HIDE DEF I
<1>6. p \in 1..(Len(q) + 1)
  BY <1>1, <1>3
<1>7. delayed' = InsertAt(q, p, t)
  BY DEF Insert, i
<1> DEFINE r == InsertAt(q, p, t)
<1>8. /\ r \in Seq(Thread) /\ Len(r) = Len(q) + 1
      /\ \A j \in 1..(p - 1) : r[j] = q[j]
      /\ r[p] = t
      /\ \A j \in p..Len(q) : r[j + 1] = q[j]
      /\ ToSet(r) = ToSet(q) \cup {t}
  <2> HIDE DEF p, q, r
  <2>1. q \in Seq(Thread)
    BY <1>1
  <2>2. LET s == InsertAt(q, p, t)
        IN  /\ s \in Seq(Thread) /\ Len(s) = Len(q) + 1
            /\ \A j \in 1..(p - 1) : s[j] = q[j]
            /\ s[p] = t
            /\ \A j \in p..Len(q) : s[j + 1] = q[j]
            /\ ToSet(s) = ToSet(q) \cup {t}
            /\ Distinct(q) /\ t \notin ToSet(q) => Distinct(s)
    BY <1>6, <2>1, InsertDistinct, Zenon
  <2> QED BY <2>2 DEF r
<1>9. delayed' = r
  BY <1>7
<1> HIDE DEF r, q
<1> DEFINE C(j) == Full(thr'[r[j]].time)
<1>10. \A j \in 1..(Len(q) + 1) :
         \/ j \in 1..i /\ C(j) = Clock(q[j])
         \/ j = p /\ C(j) = Full(tm)
         \/ j - 1 \in (i + 1)..Len(q) /\ C(j) = Clock(q[j - 1])
  <2> SUFFICES ASSUME NEW j \in 1..(Len(q) + 1)
               PROVE  \/ j \in 1..i /\ C(j) = Clock(q[j])
                      \/ j = p /\ C(j) = Full(tm)
                      \/ j - 1 \in (i + 1)..Len(q) /\ C(j) = Clock(q[j - 1])
    OBVIOUS
  <2>1. CASE j < p
    <3>1. j \in 1..i /\ j \in 1..Len(q) /\ j \in 1..(p - 1)
      BY <1>1, <1>3, <2>1
    <3>2. r[j] = q[j] /\ q[j] \in ToSet(q)
      BY <1>1, <1>8, <3>1
    <3> QED BY <3>1, <3>2 DEF Clock, q
  <2>2. CASE j = p
    BY <1>8, <2>2
  <2>3. CASE j > p
    <3>1. j - 1 \in (i + 1)..Len(q) /\ j - 1 \in p..Len(q) /\ j - 1 \in 1..Len(q) /\ (j - 1) + 1 = j
      BY <1>1, <1>3, <2>3
    <3>2. r[j] = q[j - 1] /\ q[j - 1] \in ToSet(q)
      BY <1>1, <1>8, <3>1
    <3> QED BY <3>1, <3>2 DEF Clock, q
  <2> QED BY <1>1, <1>3, <2>1, <2>2, <2>3
<1> HIDE DEF C
<1>11. \A j, k \in 1..(Len(q) + 1) : j < k => C(j) <= C(k)
  <2> SUFFICES ASSUME NEW j \in 1..(Len(q) + 1), NEW k \in 1..(Len(q) + 1), j < k
               PROVE  C(j) <= C(k)
    OBVIOUS
  <2>1. CASE j \in 1..i /\ C(j) = Clock(q[j])
    <3>1. j \in 1..Len(q) /\ C(j) <= Full(tm) /\ C(j) \in Nat
      BY <1>1, <1>3, <1>4, <2>1
    <3>2. CASE k \in 1..i /\ C(k) = Clock(q[k])
      BY <1>1, <1>2, <1>3, <2>1, <3>1, <3>2
    <3>3. CASE k = p /\ C(k) = Full(tm)
      BY <3>1, <3>3
    <3>4. CASE k - 1 \in (i + 1)..Len(q) /\ C(k) = Clock(q[k - 1])
      <4>1. C(k) > Full(tm) /\ k - 1 \in 1..Len(q)
        BY <1>3, <1>5, <3>4
      <4> QED BY <1>1, <3>1, <3>4, <4>1
    <3> QED BY <1>10, <3>2, <3>3, <3>4
  <2>2. CASE j = p /\ C(j) = Full(tm)
    <3>1. k - 1 \in (i + 1)..Len(q) /\ C(k) = Clock(q[k - 1])
      BY <1>1, <1>3, <1>10, <2>2
    <3>2. C(k) > Full(tm) /\ k - 1 \in 1..Len(q)
      BY <1>3, <1>5, <3>1
    <3> QED BY <1>1, <2>2, <3>1, <3>2
  <2>3. CASE j - 1 \in (i + 1)..Len(q) /\ C(j) = Clock(q[j - 1])
    <3>1. k - 1 \in (i + 1)..Len(q) /\ C(k) = Clock(q[k - 1])
      BY <1>1, <1>3, <1>10, <2>3
    <3>2. j - 1 \in 1..Len(q) /\ k - 1 \in 1..Len(q) /\ j - 1 < k - 1
      BY <1>1, <1>3, <2>3, <3>1
    <3> QED BY <1>2, <2>3, <3>1, <3>2
  <2> QED BY <1>10, <2>1, <2>2, <2>3
<1>12. DelayedInOrder'
  <2>1. DOMAIN r = 1..(Len(q) + 1)
    BY <1>1, <1>8
  <2> QED BY <1>9, <1>11, <2>1 DEF DelayedInOrder, C
<1> QED BY <1>8, <1>9, <1>12 DEF q
-----------------------------------------------------------------------------
(* The steps of sim_thread *)

(* A step after which every thread has the time it had or that of x, as the *)
(* ones that run and did not before all have, if nothing is later than x.   *)
LEMMA TimesKept ==
  ASSUME TypeOK, Placed, Times, TimelyLast, phase = "sim", UNCHANGED <<delayed, now, phase>>,
         NEW x,
         \A t \in ToSet(delayed) : thr'[t].time = thr[t].time,
         \A t \in Undelayed' : \/ t \in Undelayed /\ thr'[t].time = thr[t].time
                               \/ x \in Undelayed /\ thr'[t].time = thr[x].time,
         ~now.final => \A t \in Timely' : \/ t \in Timely /\ thr'[t].time = thr[t].time
                                          \/ thr'[t].time = thr[x].time /\ Latest(x)
  PROVE  Times' /\ TimelyLast'
<1>1. /\ \A i \in DOMAIN delayed : delayed[i] \in ToSet(delayed)
      /\ \A t \in Live : Clock(t) \in Nat
  BY DelayedTimes
<1>2. /\ \A t \in ToSet(delayed) : Full(thr'[t].time) = Clock(t)
      /\ \A t \in Undelayed' : \E u \in Undelayed : Full(thr'[t].time) = Clock(u)
  BY DEF Clock
<1>3. Times'
  <2>1. DelayedInOrder'
    BY <1>1, <1>2 DEF Times, DelayedInOrder, Clock
  <2>2. \A t \in ToSet(delayed) : thr'[t].time = FinalTime \/ Full(thr'[t].time) < Word
    BY <1>2 DEF Times
  <2>3. \A t \in Undelayed', u \in ToSet(delayed) : Full(thr'[t].time) <= Full(thr'[u].time)
    BY <1>2 DEF Times
  <2>4. ~now.final => \A t \in Undelayed' : Full(thr'[t].time) <= Full(now)
    BY <1>2 DEF Times
  <2>5. NoneOverdue'
    BY DEF NoneOverdue
  <2>6. /\ Full(now) < Word \/ now = FinalTime
        /\ ~now.final => Full(now) <= MaxTime
    BY DEF Times
  <2> QED BY <2>1, <2>2, <2>3, <2>4, <2>5, <2>6 DEF Times, Clock
<1>4. TimelyLast'
  <2> SUFFICES ASSUME ~now.final, NEW t \in Timely', NEW u \in Undelayed'
               PROVE  Full(thr'[u].time) <= Full(thr'[t].time)
    BY DEF TimelyLast, Latest, Clock
  <2>1. PICK v \in Undelayed : Full(thr'[u].time) = Clock(v)
    BY <1>2
  <2>2. CASE t \in Timely /\ thr'[t].time = thr[t].time
    <3>1. Latest(t)
      BY <2>2 DEF TimelyLast
    <3> QED BY <2>1, <2>2, <3>1 DEF Latest, Clock
  <2>3. CASE thr'[t].time = thr[x].time /\ Latest(x)
    BY <2>1, <2>3 DEF Latest, Clock
  <2> QED BY <2>2, <2>3
<1> QED BY <1>3, <1>4

(* What is at the bottom of the calls in progress, if it is active. *)
LEMMA FirstCall ==
  ASSUME ThreadsInv, frames # <<>>, thr[Top.thr].state = "ACTIVE"
  PROVE  /\ frames[1].thr \in Live /\ thr[frames[1].thr].state = "ACTIVE"
         /\ thr[frames[1].thr].curr \notin Cont => frames[1].thr \in Timely
         /\ Top.thr \in Live /\ Top.thr \in Undelayed
         /\ Len(frames) = 1 => frames[1].thr = Top.thr
<1>1. /\ TypeOK /\ Len(frames) \in Nat /\ Len(frames) \in 1..Len(frames)
      /\ Top = frames[Len(frames)] /\ DOMAIN frames = 1..Len(frames) /\ 1 \in 1..Len(frames)
  BY FramesType DEF ThreadsInv
<1>2. frames[1].thr \in Live /\ Top.thr \in Live
  BY <1>1 DEF ThreadsInv, Linked, Running
<1>3. thr[frames[1].thr].state = "ACTIVE"
  <2>1. CASE Len(frames) = 1
    BY <1>1, <2>1
  <2>2. CASE Len(frames) # 1
    <3>1. 1 \in 1..(Len(frames) - 1)
      BY <1>1, <2>2
    <3> QED BY <3>1 DEF ThreadsInv, Chained
  <2> QED BY <2>1, <2>2
<1>4. \A i \in 2..Len(frames) : frames[i].thr # frames[1].thr
  <2>1. \A i \in 2..Len(frames) : i \in 1..Len(frames) /\ i # 1
    BY <1>1
  <2> QED BY <1>1, <2>1 DEF ThreadsInv, Chained
<1>5. Top.thr \notin ToSet(delayed)
  BY <1>2 DEF ThreadsInv, Placed
<1> QED BY <1>1, <1>2, <1>3, <1>4, <1>5 DEF Timely, Undelayed

(* A thread that runs is as late as all others, unless a continuous         *)
(* assignment is running.                                                   *)
LEMMA TopLatest ==
  ASSUME ThreadsInv, TimelyLast, CallsShareTime, ~now.final, frames # <<>>,
         thr[Top.thr].state = "ACTIVE", thr[frames[1].thr].curr \notin Cont
  PROVE  Latest(Top.thr)
<1>1. Latest(frames[1].thr)
  BY FirstCall DEF TimelyLast
<1>2. thr[Top.thr].time = thr[frames[1].thr].time
  <2>1. Len(frames) \in 1..Len(frames) /\ Top = frames[Len(frames)]
    BY FramesType DEF ThreadsInv
  <2> QED BY <2>1 DEF CallsShareTime
<1> QED BY <1>1, <1>2 DEF Latest, Clock

(* What a continuous assignment runs, on its own or in a function it calls, *)
(* assigns nothing.                                                         *)
LEMMA QuietTop ==
  ASSUME TimelyDesign, ThreadsInv, ContinuousAlone, NEW ops, Executing(ops)
  PROVE  /\ thr[Top.thr].curr \in Cont <=> Top.stmt \in Cont
         /\ thr[frames[1].thr].curr \in Cont =>
              /\ Writes[Top.stmt] = {}
              /\ Func[Top.stmt] # NULL => FunitOf[First[Func[Top.stmt]]] \in QuietUnits
              /\ \A n \in {NextTrue[Top.stmt], NextFalse[Top.stmt]} :
                   Len(frames) # 1 /\ n # NULL => FunitOf[n] \in QuietUnits
<1>1. /\ TypeOK /\ Len(frames) \in Nat /\ Len(frames) \in 1..Len(frames)
      /\ Top = frames[Len(frames)] /\ frames # <<>> /\ Top.stmt \in Stmt /\ Top.stmt # NULL
  BY FramesType, RunningTop DEF ThreadsInv, Executing
<1>0. Len(frames) \in Nat /\ Len(frames) >= 1
  BY <1>1
<1>2. thr[Top.thr].curr \in Cont <=> Top.stmt \in Cont
  BY <1>1 DEF ContinuousAlone
<1>3. WritesNothing(QuietUnits)
  BY DEF TimelyDesign, QuietUnits
<1>4. ASSUME thr[frames[1].thr].curr \in Cont
      PROVE  /\ Writes[Top.stmt] = {}
             /\ Func[Top.stmt] # NULL => FunitOf[First[Func[Top.stmt]]] \in QuietUnits
             /\ \A n \in {NextTrue[Top.stmt], NextFalse[Top.stmt]} :
                  Len(frames) # 1 /\ n # NULL => FunitOf[n] \in QuietUnits
  <2>1. CASE Len(frames) = 1
    <3>1. Top.stmt \in Cont
      BY <1>1, <1>2, <1>4, <2>1
    <3>2. Writes[Top.stmt] = {}
      BY <3>1, DesignAssumption
    <3> QED BY <1>3, <2>1, <3>1, <3>2 DEF WritesNothing
  <2>2. CASE Len(frames) # 1
    <3>1. Len(frames) \in 2..Len(frames)
      BY <1>0, <2>2
    <3>2. FunitOf[Top.stmt] \in QuietUnits
      BY <1>1, <1>4, <3>1 DEF ContinuousAlone
    <3> QED BY <1>1, <1>3, <3>2 DEF WritesNothing
  <2> QED BY <2>1, <2>2
<1> QED BY <1>2, <1>4

(* The loop goes on to the next statement of the same block. *)
LEMMA AdvanceAlone ==
  ASSUME TimelyDesign, ThreadsInv, ContinuousAlone, TypeOK', NEW ops, Executing(ops),
         NEW chg \in BOOLEAN, NEW branch \in BOOLEAN, Advance(chg, branch),
         \A u \in Live : u # Top.thr => thr'[u].curr = thr[u].curr,
         thr'[Top.thr].curr = Top.stmt,
         \A u \in Live' : thr'[u].curr \in Cont => thr'[u].parent = NULL
  PROVE  /\ ContinuousAlone'
         /\ \A u \in Live : thr'[u].curr \in Cont <=> thr[u].curr \in Cont
         /\ Len(frames') = Len(frames)
         /\ \A i \in 1..Len(frames) : frames'[i].thr = frames[i].thr /\ frames[i].thr \in Live
<1> DEFINE n == Len(frames)
<1>1. /\ TypeOK /\ n \in Nat /\ n \in 1..n /\ Top = frames[n] /\ frames # <<>>
      /\ Top.stmt \in Stmt /\ Top.stmt # NULL /\ Top.thr \in Live /\ DOMAIN frames = 1..n
  BY FramesType, RunningTop DEF ThreadsInv, Executing
<1>2. /\ Len(frames') = n /\ Top'.thr = Top.thr /\ frames' # <<>>
      /\ \A i \in 1..(n - 1) : frames'[i] = frames[i]
      /\ Top'.stmt = IF Top.stmt \in Cont THEN NULL
                     ELSE IF branch THEN NextTrue[Top.stmt] ELSE NextFalse[Top.stmt]
  BY <1>1, AdvanceEffect
<1>3. Top' = frames'[n]
  BY <1>2 DEF Top
<1>0. n \in Nat /\ n >= 1
  BY <1>1
<1>4. \A i \in 1..n : i = n \/ i \in 1..(n - 1)
  BY <1>0
<1>5. \A i \in 1..n : frames'[i].thr = frames[i].thr /\ frames[i].thr \in Live
  BY <1>1, <1>2, <1>3, <1>4 DEF ThreadsInv, Linked, Running
<1>6. \A u \in Live : thr'[u].curr \in Cont <=> thr[u].curr \in Cont
  BY QuietTop
<1>7. \A i \in 1..n :
        /\ thr'[frames'[i].thr].curr \in Cont => frames'[i].stmt \in Cont \cup {NULL}
        /\ thr'[frames'[i].thr].curr \notin Cont => frames'[i].stmt \notin Cont
  <2> SUFFICES ASSUME NEW i \in 1..n
               PROVE  /\ thr'[frames'[i].thr].curr \in Cont => frames'[i].stmt \in Cont \cup {NULL}
                      /\ thr'[frames'[i].thr].curr \notin Cont => frames'[i].stmt \notin Cont
    OBVIOUS
  <2>1. CASE i = n
    <3>1. Top.stmt \notin Cont => Top'.stmt \notin Cont
      BY <1>1, <1>2 DEF TimelyDesign
    <3>2. Top.stmt \in Cont => Top'.stmt = NULL
      BY <1>2
    <3> QED BY <1>2, <1>3, <2>1, <3>1, <3>2
  <2>2. CASE i \in 1..(n - 1)
    BY <1>2, <1>5, <1>6, <2>2 DEF ContinuousAlone
  <2> QED BY <1>4, <2>1, <2>2
<1>8. ASSUME thr'[frames'[1].thr].curr \in Cont
      PROVE  \A i \in 2..n : frames'[i].stmt # NULL => FunitOf[frames'[i].stmt] \in QuietUnits
  <2>1. thr[frames[1].thr].curr \in Cont
    <3>1. 1 \in 1..n
      BY <1>1
    <3> QED BY <1>5, <1>6, <1>8, <3>1
  <2>2. ASSUME NEW i \in 2..n, frames'[i].stmt # NULL
        PROVE  FunitOf[frames'[i].stmt] \in QuietUnits
    <3>1. CASE i = n
      <4>1. n # 1
        BY <1>1, <3>1
      <4>2. Top'.stmt \in {NextTrue[Top.stmt], NextFalse[Top.stmt]} /\ Top'.stmt # NULL
        BY <1>2, <1>3, <2>2, <3>1
      <4>3. FunitOf[Top'.stmt] \in QuietUnits
        BY <2>1, <4>1, <4>2, QuietTop
      <4> QED BY <1>3, <3>1, <4>3
    <3>2. CASE i # n
      <4>1. i \in 1..(n - 1)
        BY <1>0, <3>2
      <4> QED BY <1>1, <1>2, <2>1, <2>2, <4>1 DEF ContinuousAlone
    <3> QED BY <3>1, <3>2
  <2> QED BY <2>2
<1>9. ContinuousAlone'
  BY <1>2, <1>7, <1>8 DEF ContinuousAlone
<1> QED BY <1>2, <1>5, <1>6, <1>9

(* A thread that a step wakes or starts: it gets the time of the running    *)
(* one, or is a continuous assignment, and no continuous assignment runs.   *)
Roused(u) ==
  /\ u \in Live => thr[u].state = "WAITING"
  /\ thr'[u].state = "ACTIVE" /\ thr[frames[1].thr].curr \notin Cont
  /\ thr'[u].time = thr[Top.thr].time \/ (u \in Live /\ thr'[u].time = thr[u].time)
  /\ ~now.final /\ thr'[u].curr \notin Cont => thr'[u].time = thr[Top.thr].time

LEMMA StatementOrder ==
  ASSUME TimelyDesign, ThreadsInv, OrderInv, TypeOK', NEW ops, Executing(ops),
         NEW chg \in BOOLEAN, NEW branch \in BOOLEAN, Advance(chg, branch),
         UNCHANGED <<delayed, now, phase>>, Live \subseteq Live',
         \A u \in Live : u # Top.thr => thr'[u].curr = thr[u].curr,
         thr'[Top.thr].curr = Top.stmt,
         \A u \in Live' : thr'[u].curr \in Cont => thr'[u].parent = NULL,
         \A u \in Live' : \/ /\ u \in Live /\ thr'[u].state = thr[u].state
                             /\ thr'[u].time = thr[u].time
                          \/ Roused(u)
  PROVE  OrderInv'
<1> USE DEF OrderInv
<1>1. /\ TypeOK /\ Placed /\ frames # <<>> /\ Top.thr \in Live /\ thr[Top.thr].state = "ACTIVE"
      /\ phase = "sim" /\ Top.stmt \in Stmt
      /\ Len(frames) \in Nat /\ Len(frames) \in 1..Len(frames) /\ Top = frames[Len(frames)]
  BY RunningTop, FramesType DEF ThreadsInv, Chained
<1>2. /\ ContinuousAlone' /\ Len(frames') = Len(frames)
      /\ \A u \in Live : thr'[u].curr \in Cont <=> thr[u].curr \in Cont
      /\ \A i \in 1..Len(frames) : frames'[i].thr = frames[i].thr /\ frames[i].thr \in Live
  BY AdvanceAlone
<1>3. \A i \in 1..Len(frames) : thr'[frames[i].thr].time = thr[frames[i].thr].time
  <2> SUFFICES ASSUME NEW i \in 1..Len(frames)
               PROVE  thr'[frames[i].thr].time = thr[frames[i].thr].time
    OBVIOUS
  <2>1. thr[frames[i].thr].state = "ACTIVE"
    <3>1. CASE i = Len(frames)
      BY <1>1, <3>1
    <3>2. CASE i # Len(frames)
      <4>1. i \in 1..(Len(frames) - 1)
        BY <1>1, <3>2
      <4> QED BY <4>1 DEF ThreadsInv, Chained
    <3> QED BY <3>1, <3>2
  <2> QED BY <1>2, <2>1 DEF Roused
<1>4. Top.thr \in Undelayed
  BY <1>1, FirstCall
<1>5. \A t \in ToSet(delayed) : t \in Live /\ thr[t].state = "DELAYED"
  BY <1>1 DEF Placed
<1>6. \A t \in ToSet(delayed) : thr'[t].time = thr[t].time
  BY <1>5 DEF Roused
<1>7. \A t \in Undelayed' : \/ t \in Undelayed /\ thr'[t].time = thr[t].time
                            \/ thr'[t].time = thr[Top.thr].time
  BY DEF Undelayed, Roused
<1>8. ASSUME ~now.final, NEW t \in Timely'
      PROVE  \/ t \in Timely /\ thr'[t].time = thr[t].time
             \/ thr'[t].time = thr[Top.thr].time /\ Latest(Top.thr)
  <2>1. /\ t \in Live' /\ thr'[t].state = "ACTIVE" /\ thr'[t].curr \notin Cont
        /\ \A i \in 2..Len(frames') : frames'[i].thr # t
    BY DEF Timely
  <2>2. CASE t \in Live /\ thr'[t].state = thr[t].state /\ thr'[t].time = thr[t].time
    <3>1. \A i \in 2..Len(frames) : i \in 1..Len(frames)
      OBVIOUS
    <3> QED BY <1>2, <2>1, <2>2, <3>1 DEF Timely
  <2>3. CASE Roused(t)
    <3>1. Latest(Top.thr)
      BY <1>1, <1>8, <2>3, TopLatest DEF Roused
    <3> QED BY <1>8, <2>1, <2>3, <3>1 DEF Roused
  <2> QED BY <2>1, <2>2, <2>3
<1>9. Times' /\ TimelyLast'
  BY <1>1, <1>4, <1>6, <1>7, <1>8, TimesKept
<1>10. CallsShareTime'
  <2>1. 1 \in 1..Len(frames)
    BY <1>1
  <2> QED BY <1>2, <1>3, <2>1 DEF CallsShareTime
<1>11. WaitsForChange'
  <2> SUFFICES ASSUME ~now.final, NEW t \in Live', thr'[t].state = "WAITING"
               PROVE  thr'[t].curr \in Cont \/ Op[thr'[t].curr] \in {"EVENT", "COMB", "WAIT"}
    BY DEF WaitsForChange
  <2>1. t \in Live /\ thr[t].state = "WAITING"
    BY DEF Roused
  <2>2. thr'[t].curr = thr[t].curr
    BY <1>1, <2>1
  <2> QED BY <2>1, <2>2 DEF WaitsForChange
<1> QED BY <1>2, <1>9, <1>10, <1>11

(* sim_thread_push sets the time of the threads that wait for a change. *)
LEMMA PushedTimes ==
  ASSUME NEW T \in [Thread -> ThreadRec], NEW q, NEW tm \in SimTime, NEW u \in Thread
  PROVE  /\ Pushed(T, q, tm)[u].time \in {T[u].time, tm}
         /\ u \notin ToSet(q) => Pushed(T, q, tm)[u] = T[u]
         /\ u \in ToSet(q) /\ Op[T[u].curr] \in {"EVENT", "COMB", "WAIT"}
              => Pushed(T, q, tm)[u].time = tm
<1>1. T[u] \in ThreadRec
  OBVIOUS
<1>2. CASE u \notin ToSet(q)
  BY <1>2 DEF Pushed
<1>3. CASE u \in ToSet(q)
  <2> DEFINE t2 == IF Op[T[u].curr] \in {"EVENT", "COMB", "WAIT"} THEN tm ELSE T[u].time
  <2>1. Pushed(T, q, tm)[u] = [T[u] EXCEPT !.state = "ACTIVE", !.time = t2]
    BY <1>3 DEF Pushed
  <2>2. Pushed(T, q, tm)[u].time = t2
    <3> HIDE DEF t2
    <3> QED BY <1>1, <2>1 DEF ThreadRec
  <2> QED BY <1>3, <2>2
<1> QED BY <1>2, <1>3

LEMMA AssignRouses ==
  ASSUME TimelyDesign, ThreadsInv, OrderInv, NEW ops, Executing(ops),
         NEW T \in [Thread -> ThreadRec], Assign(T) \/ thr' = T,
         \A u \in Thread : /\ T[u].state = thr[u].state /\ T[u].time = thr[u].time
                           /\ u # Top.thr => T[u].curr = thr[u].curr
  PROVE  /\ \A u \in Thread : thr'[u].curr = T[u].curr /\ thr'[u].parent = T[u].parent
         /\ \A u \in Live : \/ thr'[u].state = thr[u].state /\ thr'[u].time = thr[u].time
                            \/ Roused(u)
<1> USE DEF OrderInv
<1>1. /\ TypeOK /\ Top.thr \in Live /\ thr[Top.thr].state = "ACTIVE" /\ Live \subseteq Thread
      /\ thr[Top.thr].time \in SimTime
  BY RunningTop, ExecutingType, LiveType DEF ThreadsInv, ThreadRec
<1>2. CASE thr' = T
  BY <1>1, <1>2
<1>3. CASE Assign(T)
  <2>1. PICK S \in SUBSET Writes[Top.stmt] : \E q \in SetToSeqs(Woken(S)) :
          active' = active \o q /\ thr' = Pushed(T, q, thr[Top.thr].time)
    BY <1>3 DEF Assign
  <2>2. PICK q \in SetToSeqs(Woken(S)) : thr' = Pushed(T, q, thr[Top.thr].time)
    BY <2>1
  <2>3. Woken(S) \subseteq {u \in Live : thr[u].state = "WAITING"}
    BY DEF Woken
  <2>4. Woken(S) \in SUBSET Thread /\ IsFiniteSet(Woken(S))
    BY <1>1, <2>3, LiveType, FS_Subset
  <2>5. ToSet(q) = Woken(S)
    BY <2>4, EnumerationDistinct
  <2>6. \A u \in Thread :
          /\ thr'[u].state = IF u \in ToSet(q) THEN "ACTIVE" ELSE T[u].state
          /\ thr'[u].parent = T[u].parent /\ thr'[u].curr = T[u].curr
    BY <1>1, <2>2, PushedEffect
  <2>7. \A u \in Thread :
          /\ thr'[u].time \in {T[u].time, thr[Top.thr].time}
          /\ u \notin ToSet(q) => thr'[u] = T[u]
          /\ u \in ToSet(q) /\ Op[T[u].curr] \in {"EVENT", "COMB", "WAIT"}
               => thr'[u].time = thr[Top.thr].time
    BY <1>1, <2>2, PushedTimes
  <2>8. ASSUME NEW u \in Live
        PROVE  \/ thr'[u].state = thr[u].state /\ thr'[u].time = thr[u].time
               \/ Roused(u)
    <3>1. CASE u \notin ToSet(q)
      BY <1>1, <2>7, <3>1
    <3>2. CASE u \in ToSet(q)
      <4>1. thr[u].state = "WAITING" /\ u \in Thread /\ u # Top.thr /\ Woken(S) # {}
        BY <1>1, <2>3, <2>5, <3>2
      <4>2. thr[frames[1].thr].curr \notin Cont
        <5>1. Writes[Top.stmt] # {}
          BY <4>1 DEF Woken
        <5> QED BY <5>1, QuietTop
      <4>3. thr'[u].state = "ACTIVE" /\ thr'[u].curr = thr[u].curr /\ T[u].curr = thr[u].curr
        BY <2>6, <3>2, <4>1
      <4>4. thr'[u].time \in {thr[u].time, thr[Top.thr].time}
        BY <2>7, <4>1
      <4>5. ~now.final /\ thr'[u].curr \notin Cont => thr'[u].time = thr[Top.thr].time
        BY <2>7, <3>2, <4>1, <4>3 DEF WaitsForChange
      <4> QED BY <4>1, <4>2, <4>3, <4>4, <4>5 DEF Roused
    <3> QED BY <3>1, <3>2
  <2> QED BY <2>6, <2>8
<1> QED BY <1>2, <1>3

(* A statement that at most wakes the readers of what it assigns. *)
LEMMA PlainOrder ==
  ASSUME TimelyDesign, ThreadsInv, OrderInv, TypeOK', NEW ops, Executing(ops),
         NEW chg \in BOOLEAN, NEW branch \in BOOLEAN, Advance(chg, branch),
         UNCHANGED <<pool, allNext, delayed, now, phase>>,
         NEW T \in [Thread -> ThreadRec], Assign(Executed(T)) \/ thr' = Executed(T),
         \A u \in Thread : /\ T[u].state = thr[u].state /\ T[u].time = thr[u].time
                           /\ T[u].curr = thr[u].curr /\ T[u].parent = thr[u].parent
  PROVE  OrderInv'
<1>1. /\ TypeOK /\ Live' = Live /\ Live \subseteq Thread /\ Top.thr \in Live
      /\ thr[Top.thr].curr \in Cont <=> Top.stmt \in Cont
  BY RunningTop, LiveType, PoolEqual, QuietTop DEF ThreadsInv, OrderInv
<1> DEFINE E == Executed(T)
<1>2. /\ E \in [Thread -> ThreadRec] /\ E[Top.thr].curr = Top.stmt
      /\ \A u \in Thread : /\ E[u].state = thr[u].state /\ E[u].time = thr[u].time
                           /\ E[u].parent = thr[u].parent
                           /\ u # Top.thr => E[u].curr = thr[u].curr
  BY <1>1, ExecutedEffect
<1>3. Assign(E) \/ thr' = E
  OBVIOUS
<1> HIDE DEF E
<1>4. /\ \A u \in Thread : thr'[u].curr = E[u].curr /\ thr'[u].parent = E[u].parent
      /\ \A u \in Live : \/ thr'[u].state = thr[u].state /\ thr'[u].time = thr[u].time
                         \/ Roused(u)
  BY <1>2, <1>3, AssignRouses
<1>5. \A u \in Live' : thr'[u].curr \in Cont => thr'[u].parent = NULL
  BY <1>1, <1>2, <1>4 DEF OrderInv, ContinuousAlone
<1> QED BY <1>1, <1>2, <1>4, <1>5, StatementOrder

LEMMA PlainKeepsOrder ==
  ASSUME TimelyDesign, ThreadsInv, OrderInv,
         ExecAssign \/ ExecEvent \/ ExecDelayEnd \/ ExecJoin \/ ExecDisable \/ ExecFinish
  PROVE  OrderInv'
<1>1. TypeOK /\ TypeOK' /\ thr \in [Thread -> ThreadRec] /\ now \in SimTime
  BY SimpleOpType, DelayType DEF ThreadsInv, TypeOK
<1>2. \A u \in Thread : /\ thr[u].state = thr[u].state /\ thr[u].time = thr[u].time
                        /\ thr[u].curr = thr[u].curr /\ thr[u].parent = thr[u].parent
  OBVIOUS
<1>3. UNCHANGED <<pool, allNext, delayed, now, phase>>
  BY DEF ExecAssign, ExecEvent, ExecDelayEnd, ExecJoin, ExecDisable, ExecFinish
<1>4. CASE ExecAssign \/ ExecEvent \/ ExecDelayEnd \/ ExecJoin \/ ExecFinish
  <2>1. PICK ops \in {{"ASSIGN", "CASE", "VALUE"}, {"EVENT", "WAIT", "COMB"}, {"DELAY"}, {"JOIN"},
                      {"FINISH", "STOP"}} : Executing(ops)
    BY <1>4 DEF ExecAssign, ExecEvent, ExecDelayEnd, ExecJoin, ExecFinish, Evaluating
  <2>2. Assign(Executed(thr)) \/ thr' = Executed(thr)
    BY <1>4 DEF ExecAssign, ExecEvent, ExecDelayEnd, ExecJoin, ExecFinish
  <2>3. MayFire(Top.stmt) \in BOOLEAN /\ DelayOver \in BOOLEAN
        /\ (thr[Top.thr].children = 0) \in BOOLEAN
    BY <1>1, <2>1, ExecutingType DEF MayFire, ThreadRec, DelayOver, TimeCmpLE, SimTime
  <2>4. PICK chg \in BOOLEAN, branch \in BOOLEAN : Advance(chg, branch)
    BY <1>4, <2>3 DEF ExecAssign, ExecEvent, ExecDelayEnd, ExecJoin, ExecFinish
  <2> QED BY <1>1, <1>2, <1>3, <2>1, <2>2, <2>4, PlainOrder
<1>5. CASE ExecDisable
  <2> DEFINE D == Disabled(thr, Target[Top.stmt])
  <2>1. Executing({"DISABLE"}) /\ thr' = Executed(D)
    BY <1>5 DEF ExecDisable, Evaluating
  <2>2. D \in [Thread -> ThreadRec]
    BY <1>1, DisabledType
  <2>3. \A u \in Thread : /\ D[u].state = thr[u].state /\ D[u].time = thr[u].time
                          /\ D[u].curr = thr[u].curr /\ D[u].parent = thr[u].parent
    BY <1>1 DEF Disabled, ThreadRec
  <2>4. PICK branch \in BOOLEAN : Advance(TRUE, branch)
    BY <1>5 DEF ExecDisable
  <2> HIDE DEF D
  <2> QED BY <1>1, <1>3, <2>1, <2>2, <2>3, <2>4, PlainOrder
<1> QED BY <1>4, <1>5

(* A new thread takes the time of its parent. *)
LEMMA ChildTime ==
  ASSUME NEW T \in [Thread -> ThreadRec], NEW t \in Thread, NEW p \in Thread, t # p,
         NEW s \in Stmt, AddChild(t, p, s, T)
  PROVE  /\ thr'[t].time = T[p].time
         /\ \A u \in Thread : u # t => thr'[u].time = T[u].time
<1> DEFINE n == NewThread(p, s, "ACTIVE", T[p].time)
           r == [T[p] EXCEPT !.children = @ + 1]
<1>1. \A u \in Thread : thr'[u] = IF u = t THEN n ELSE IF u = p THEN r ELSE T[u]
  BY DEF AddChild
<1>2. n.time = T[p].time
  BY DEF NewThread
<1>3. r.time = T[p].time
  <2>1. T[p] \in ThreadRec
    OBVIOUS
  <2> QED BY <2>1 DEF ThreadRec
<1> HIDE DEF n, r
<1> QED BY <1>1, <1>2, <1>3

(* Tasks, named blocks and the branches of a fork begin at the time of the  *)
(* thread that starts them.                                                 *)
LEMMA SpawnKeepsOrder ==
  ASSUME StructuredDesign, TimelyDesign, ThreadsInv, OrderInv, ExecCall \/ ExecFork
  PROVE  OrderInv'
<1>1. TypeOK /\ thr \in [Thread -> ThreadRec] /\ TypeOK'
  BY SpawnType DEF ThreadsInv, TypeOK
<1> DEFINE ops == {"CALL", "FORK"}
<1>2. /\ Executing(ops) /\ Top.stmt \in Stmt /\ Op[Top.stmt] \in ops
      /\ UNCHANGED <<delayed, now, phase>>
  <2>1. Executing(ops) /\ UNCHANGED <<delayed, now, phase>>
    BY DEF ExecCall, ExecFork, Evaluating, Executing
  <2> QED BY <1>1, <2>1, RunningTop
<1> DEFINE s == First[Target[Top.stmt]]
           E == Executed(thr)
<1>3. PICK t \in Thread : AddChild(t, Top.thr, s, E)
  BY DEF ExecCall, ExecFork
<1>4. PICK chg \in BOOLEAN, branch \in BOOLEAN : Advance(chg, branch)
  BY DEF ExecCall, ExecFork
<1>5. /\ Top.thr \in Live /\ thr[Top.thr].state = "ACTIVE" /\ frames # <<>>
      /\ Len(frames) # 1 => FunitOf[Top.stmt] \in Functions
      /\ Live \subseteq Thread /\ Top.thr \in Thread
  BY <1>1, <1>2, RunningTop, LiveType
<1>6. Len(frames) = 1 /\ frames[1].thr = Top.thr
  BY <1>2, <1>5, FirstCall DEF StructuredDesign
<1>7. Top.stmt \notin Cont /\ thr[frames[1].thr].curr \notin Cont
  BY <1>2, <1>6, QuietTop DEF OrderInv, StructuredDesign
<1>8. s \in Stmt /\ s \notin Cont /\ NULL \notin Thread
  BY <1>2, <1>7, DesignAssumption DEF TimelyDesign
<1>9. /\ E \in [Thread -> ThreadRec] /\ E[Top.thr].curr = Top.stmt
      /\ \A u \in Thread : /\ E[u].state = thr[u].state /\ E[u].time = thr[u].time
                           /\ E[u].parent = thr[u].parent /\ E[u].children = thr[u].children
                           /\ u # Top.thr => E[u].curr = thr[u].curr
  BY <1>1, <1>2, ExecutedEffect
<1> HIDE DEF E, s
<1>10. /\ t \notin Live /\ Live' = Live \cup {t}
       /\ thr'[t].state = "ACTIVE" /\ thr'[t].curr = s /\ thr'[t].parent = Top.thr
       /\ \A u \in Thread : u # t =>
            /\ thr'[u].state = thr[u].state /\ thr'[u].parent = thr[u].parent
            /\ thr'[u].curr = E[u].curr
  BY <1>2, <1>3, <1>8, <1>9, ChildBorn
<1>11. /\ thr'[t].time = thr[Top.thr].time
       /\ \A u \in Thread : u # t => thr'[u].time = thr[u].time
  <2>1. t # Top.thr
    BY <1>5, <1>10
  <2> QED BY <1>3, <1>5, <1>8, <1>9, <2>1, ChildTime
<1>12. Roused(t)
  BY <1>7, <1>10, <1>11 DEF Roused
<1>13. /\ \A u \in Live : u # t /\ (u # Top.thr => thr'[u].curr = thr[u].curr)
       /\ thr'[Top.thr].curr = Top.stmt
  BY <1>5, <1>9, <1>10
<1>14. \A u \in Live' : thr'[u].curr \in Cont => thr'[u].parent = NULL
  BY <1>5, <1>7, <1>8, <1>10, <1>13 DEF OrderInv, ContinuousAlone
<1>15. \A u \in Live' : \/ /\ u \in Live /\ thr'[u].state = thr[u].state
                           /\ thr'[u].time = thr[u].time
                        \/ Roused(u)
  BY <1>5, <1>10, <1>11, <1>12
<1> QED BY <1>1, <1>2, <1>4, <1>10, <1>13, <1>14, <1>15, StatementOrder

(* A function runs at the time of its caller. *)
LEMMA CallFunctionKeepsOrder ==
  ASSUME StructuredDesign, TimelyDesign, ThreadsInv, OrderInv, CallFunction
  PROVE  OrderInv'
<1> USE DEF OrderInv
<1> DEFINE n == Len(frames)
           s == First[Func[Top.stmt]]
<1>1. /\ TypeOK /\ TypeOK' /\ thr \in [Thread -> ThreadRec] /\ Executing(OpKind)
      /\ Func[Top.stmt] # NULL /\ UNCHANGED <<delayed, now, phase>>
  BY CallFunctionType DEF ThreadsInv, TypeOK, CallFunction
<1>2. PICK t \in Thread :
        /\ AddChild(t, Top.thr, s, thr)
        /\ frames' = Append([frames EXCEPT ![Len(frames)].called = TRUE],
                            [thr |-> t, stmt |-> s, chg |-> FALSE, called |-> FALSE])
  BY DEF CallFunction
<1>3. /\ Top.thr \in Live /\ thr[Top.thr].state = "ACTIVE" /\ Top.stmt \in Stmt
      /\ frames # <<>> /\ Top.thr \in Thread /\ Live \subseteq Thread
      /\ DOMAIN frames = 1..n /\ phase = "sim" /\ Placed /\ Top.thr \in Undelayed
  BY <1>1, RunningTop, LiveType, FramesType, FirstCall DEF ThreadsInv, Chained
<1>4. n \in Nat /\ n >= 1
  BY <1>1, RunningTop
<1>5. s \in Stmt /\ s # NULL /\ s \notin Cont /\ NULL \notin Thread
  <2>1. Func[Top.stmt] \in Functions /\ Func[Top.stmt] \in Funit
    BY <1>1, <1>3, DesignAssumption DEF Functions
  <2>2. s \in Stmt /\ s # NULL /\ NULL \notin Thread
    BY <2>1, DesignAssumption
  <2> QED BY <2>1, <2>2 DEF StructuredDesign
<1>6. thr[frames[1].thr].curr \in Cont => FunitOf[s] \in QuietUnits
  BY <1>1, QuietTop
<1> HIDE DEF s
<1>7. /\ Len(frames') = n + 1
      /\ \A i \in 1..n : frames'[i].thr = frames[i].thr /\ frames'[i].stmt = frames[i].stmt
      /\ frames'[n + 1].thr = t /\ frames'[n + 1].stmt = s
  BY <1>1, <1>2, <1>5, CalledFrames
<1>8. /\ t \notin Live /\ Live' = Live \cup {t}
      /\ thr'[t].state = "ACTIVE" /\ thr'[t].curr = s /\ thr'[t].parent = Top.thr
      /\ \A u \in Thread : u # t =>
           /\ thr'[u].state = thr[u].state /\ thr'[u].parent = thr[u].parent
           /\ thr'[u].curr = thr[u].curr
  <2>1. \A u \in Thread : /\ thr[u].state = thr[u].state /\ thr[u].parent = thr[u].parent
                          /\ thr[u].children = thr[u].children
    OBVIOUS
  <2> HIDE DEF n
  <2> QED BY <1>1, <1>2, <1>5, <2>1, ChildBorn
<1>9. /\ thr'[t].time = thr[Top.thr].time
      /\ \A u \in Thread : u # t => thr'[u].time = thr[u].time
  <2>1. t # Top.thr
    BY <1>3, <1>8
  <2> QED BY <1>1, <1>2, <1>3, <1>5, <2>1, ChildTime
<1>10. \A i \in 1..n : frames[i].thr \in Live /\ frames[i].thr \in Thread /\ frames[i].thr # t
  BY <1>3, <1>8 DEF ThreadsInv, Linked, Running
<1> HIDE DEF n
<1>11. \A i \in 1..(n + 1) : i \in 1..n \/ i = n + 1
  BY <1>4
<1>12. Times' /\ TimelyLast'
  <2>1. \A u \in ToSet(delayed) : thr'[u].time = thr[u].time
    BY <1>3, <1>8, <1>9 DEF Placed
  <2>2. \A u \in Undelayed' : \/ u \in Undelayed /\ thr'[u].time = thr[u].time
                              \/ thr'[u].time = thr[Top.thr].time
    BY <1>1, <1>3, <1>8, <1>9 DEF Undelayed
  <2>3. ASSUME NEW u \in Timely'
        PROVE  u \in Timely /\ thr'[u].time = thr[u].time
    <3>1. n + 1 \in 2..(n + 1) /\ \A i \in 2..n : i \in 1..n /\ i \in 2..(n + 1)
      BY <1>4
    <3>2. u # t
      BY <1>7, <3>1 DEF Timely
    <3>3. \A i \in 2..n : frames[i].thr # u
      BY <1>7, <3>1 DEF Timely
    <3> QED BY <1>3, <1>8, <1>9, <3>2, <3>3 DEF Timely, n
  <2> QED BY <1>1, <1>3, <2>1, <2>2, <2>3, TimesKept
<1>13. CallsShareTime'
  <2>1. 1 \in 1..n /\ n \in 1..n
    BY <1>4
  <2>2. Top = frames[n]
    BY DEF Top, n
  <2>3. thr[Top.thr].time = thr[frames[1].thr].time
    BY <2>1, <2>2 DEF CallsShareTime, n
  <2> QED BY <1>7, <1>9, <1>10, <1>11, <2>1, <2>3 DEF CallsShareTime, n
<1>14. ContinuousAlone'
  <2>1. \A u \in Live' : thr'[u].curr \in Cont => thr'[u].parent = NULL
    BY <1>3, <1>5, <1>8 DEF ContinuousAlone
  <2>2. \A i \in 1..(n + 1) :
          /\ thr'[frames'[i].thr].curr \in Cont => frames'[i].stmt \in Cont \cup {NULL}
          /\ thr'[frames'[i].thr].curr \notin Cont => frames'[i].stmt \notin Cont
    BY <1>5, <1>7, <1>8, <1>10, <1>11 DEF ContinuousAlone, n
  <2>3. ASSUME thr'[frames'[1].thr].curr \in Cont, NEW i \in 2..(n + 1), frames'[i].stmt # NULL
        PROVE  FunitOf[frames'[i].stmt] \in QuietUnits
    <3>1. 1 \in 1..n /\ (i \in 2..n \/ i = n + 1) /\ \A j \in 2..n : j \in 1..n
      BY <1>4
    <3>2. thr[frames[1].thr].curr \in Cont
      BY <1>7, <1>8, <1>10, <2>3, <3>1
    <3> QED BY <1>3, <1>6, <1>7, <2>3, <3>1, <3>2 DEF ContinuousAlone, n
  <2> QED BY <1>7, <2>1, <2>2, <2>3 DEF ContinuousAlone
<1>15. WaitsForChange'
  BY <1>1, <1>3, <1>8 DEF WaitsForChange
<1> QED BY <1>12, <1>13, <1>14, <1>15

LEMMA KillTime ==
  ASSUME TypeOK, NEW t \in Thread, KillThread(t)
  PROVE  \A u \in Thread : thr'[u].time = IF LastChild(t) /\ u = thr[t].parent
                                          THEN thr[t].time ELSE thr[u].time
<1>1. thr \in [Thread -> ThreadRec] /\ thr[t].parent \in Thread \cup {NULL}
  BY DEF TypeOK, ThreadRec
<1>2. CASE thr[t].parent = NULL
  BY <1>2 DEF KillThread, LastChild
<1>3. CASE thr[t].parent # NULL
  <2> DEFINE p == thr[t].parent
             r == thr[thr[t].parent]
             k == ParentAfterKill(t)
  <2>1. p \in Thread /\ thr' = [thr EXCEPT ![p] = k]
    BY <1>1, <1>3 DEF KillThread
  <2>2. r \in ThreadRec
    BY <1>1, <2>1
  <2>3. k.time = IF LastChild(t) THEN thr[t].time ELSE r.time
    BY <2>2 DEF ParentAfterKill, ThreadRec
  <2> HIDE DEF k
  <2> QED BY <1>1, <2>1, <2>3
<1> QED BY <1>2, <1>3

(* The parent of the last child goes on at the time of the child. *)
LEMMA EndThreadKeepsOrder ==
  ASSUME StructuredDesign, TimelyDesign, ThreadsInv, OrderInv, EndThread
  PROVE  OrderInv'
<1> USE DEF OrderInv
<1> DEFINE t == Top.thr
           p == thr[t].parent
           n == Len(frames)
<1>1. /\ LoopEnds /\ Killed(Top) /\ KillThread(t) /\ Park(t) /\ frames' = Front(frames)
      /\ UNCHANGED <<delayed, now, phase>>
  BY DEF EndThread, KillThread
<1>2. /\ TypeOK /\ TypeOK' /\ PoolOnce /\ Placed /\ Placed' /\ frames # <<>>
      /\ t \in Live /\ t \in Thread /\ thr[t].state = "ACTIVE" /\ thr[t].children = 0
      /\ p # NULL => p \in Live /\ p # t
      /\ Top = frames[n] /\ Live \subseteq Thread /\ phase = "sim"
  BY <1>1, EndThreadType, EndThreadKeeps, EndingTop, KilledTop, LiveType DEF ThreadsInv, Chained
<1>3. n \in Nat /\ n >= 1
  BY <1>1, EndingTop
<1>4. Live' = Live \ {t} /\ t \in Undelayed
  BY <1>1, <1>2, ParkLive, FirstCall
<1>5. \A u \in Thread : /\ thr'[u].parent = thr[u].parent /\ thr'[u].curr = thr[u].curr
                        /\ thr'[u].state = IF LastChild(t) /\ u = p THEN "ACTIVE" ELSE thr[u].state
                        /\ thr'[u].time = IF LastChild(t) /\ u = p THEN thr[t].time ELSE thr[u].time
  BY <1>1, <1>2, KillEffect, KillTime
<1>6. /\ Len(frames') = n - 1
      /\ \A i \in 1..(n - 1) : frames'[i] = frames[i] /\ frames[i].thr \in Live
  <2>1. \A i \in 1..n : frames[i].thr \in Live
    BY <1>2, FramesType DEF ThreadsInv, Linked, Running
  <2> QED BY <1>1, <1>2, <1>3, <2>1, FramesReturn
<1>7. n # 1 => /\ p = frames[n - 1].thr /\ n - 1 \in 1..(n - 1) /\ thr[p].state = "ACTIVE"
               /\ thr[p].time = thr[t].time
  <2> SUFFICES ASSUME n # 1
               PROVE  /\ p = frames[n - 1].thr /\ n - 1 \in 1..(n - 1)
                      /\ thr[p].state = "ACTIVE" /\ thr[p].time = thr[t].time
    OBVIOUS
  <2>1. n - 1 \in 1..(n - 1) /\ n - 1 \in 1..n /\ n \in 1..n
    <3> HIDE DEF n
    <3> QED BY <1>3
  <2>2. p = frames[n - 1].thr
    BY <1>1, KillCalled
  <2>3. thr[p].state = "ACTIVE"
    BY <2>1, <2>2 DEF ThreadsInv, Chained
  <2>4. thr[p].time = thr[t].time
    BY <1>2, <2>1, <2>2 DEF CallsShareTime
  <2> QED BY <2>1, <2>2, <2>3, <2>4
<1> HIDE DEF n
<1>8. \A u \in ToSet(delayed) : thr'[u].time = thr[u].time
  <2> SUFFICES ASSUME LastChild(t), p \in ToSet(delayed) PROVE FALSE
    BY <1>2, <1>5 DEF Placed
  <2>1. p \in Live' /\ thr'[p].state = "ACTIVE"
    BY <1>2, <1>4, <1>5 DEF LastChild
  <2> QED BY <1>1, <1>2, <2>1 DEF Placed
<1>9. \A u \in Undelayed' : \/ u \in Undelayed /\ thr'[u].time = thr[u].time
                            \/ t \in Undelayed /\ thr'[u].time = thr[t].time
  BY <1>1, <1>2, <1>4, <1>5 DEF Undelayed
<1>10. ASSUME ~now.final, NEW u \in Timely'
       PROVE  \/ u \in Timely /\ thr'[u].time = thr[u].time
              \/ thr'[u].time = thr[t].time /\ Latest(t)
  <2>1. /\ u \in Live /\ u \in Thread /\ u # t /\ thr'[u].state = "ACTIVE" /\ thr[u].curr \notin Cont
        /\ \A i \in 2..(n - 1) : frames'[i].thr # u
    BY <1>2, <1>4, <1>5, <1>6 DEF Timely
  <2>2. \A i \in 2..n : frames[i].thr # u
    <3>1. \A i \in 2..n : i = n \/ (i \in 2..(n - 1) /\ i \in 1..(n - 1))
      BY <1>3
    <3> QED BY <1>2, <1>6, <2>1, <3>1
  <2>3. CASE LastChild(t) /\ u = p
    <3>1. CASE n = 1
      <4>1. thr[t].curr \notin Cont
        BY <1>2, <2>3 DEF ContinuousAlone, LastChild
      <4>2. Latest(t)
        BY <1>2, <1>10, <3>1, <4>1, FirstCall, TopLatest DEF n
      <4> QED BY <1>5, <2>1, <2>3, <4>2
    <3>2. CASE n # 1
      BY <1>5, <1>7, <2>1, <2>2, <2>3, <3>2 DEF Timely, n
    <3> QED BY <3>1, <3>2
  <2>4. CASE ~(LastChild(t) /\ u = p)
    BY <1>5, <2>1, <2>2, <2>4 DEF Timely, n
  <2> QED BY <2>3, <2>4
<1>11. Times' /\ TimelyLast'
  BY <1>1, <1>2, <1>8, <1>9, <1>10, TimesKept
<1>12. CallsShareTime'
  <2>1. ASSUME NEW i \in 1..(n - 1) PROVE thr'[frames[i].thr].time = thr[frames[i].thr].time
    <3>1. n # 1 /\ frames[i].thr \in Thread
      BY <1>2, <1>3, <1>6
    <3> QED BY <1>5, <1>7, <3>1
  <2>2. \A i \in 1..(n - 1) : i \in 1..n /\ 1 \in 1..(n - 1)
    BY <1>3
  <2> QED BY <1>6, <2>1, <2>2 DEF CallsShareTime, n
<1>13. ContinuousAlone'
  <2>1. \A i \in 1..(n - 1) : i \in 1..n
    BY <1>3
  <2>2. \A u \in Live' : thr'[u].curr \in Cont => thr'[u].parent = NULL
    BY <1>2, <1>4, <1>5 DEF ContinuousAlone
  <2>3. \A i \in 1..(n - 1) :
          /\ thr'[frames'[i].thr].curr \in Cont => frames'[i].stmt \in Cont \cup {NULL}
          /\ thr'[frames'[i].thr].curr \notin Cont => frames'[i].stmt \notin Cont
    <3>1. \A i \in 1..(n - 1) : thr'[frames'[i].thr].curr = thr[frames[i].thr].curr
      BY <1>2, <1>5, <1>6
    <3>2. \A i \in 1..n :
            /\ thr[frames[i].thr].curr \in Cont => frames[i].stmt \in Cont \cup {NULL}
            /\ thr[frames[i].thr].curr \notin Cont => frames[i].stmt \notin Cont
      BY DEF ContinuousAlone, n
    <3> QED BY <1>6, <2>1, <3>1, <3>2
  <2>4. ASSUME thr'[frames'[1].thr].curr \in Cont, NEW i \in 2..(n - 1), frames'[i].stmt # NULL
        PROVE  FunitOf[frames'[i].stmt] \in QuietUnits
    <3>1. 1 \in 1..(n - 1) /\ i \in 1..(n - 1) /\ i \in 2..n
      BY <1>3
    <3> QED BY <1>2, <1>5, <1>6, <2>4, <3>1 DEF ContinuousAlone, n
  <2> QED BY <1>6, <2>2, <2>3, <2>4 DEF ContinuousAlone
<1>14. WaitsForChange'
  BY <1>1, <1>2, <1>4, <1>5 DEF WaitsForChange
<1> QED BY <1>11, <1>12, <1>13, <1>14

(* A thread that stops to run keeps its time. *)
LEMMA SwitchKeepsOrder ==
  ASSUME StructuredDesign, TimelyDesign, ThreadsInv, OrderInv, SwitchThread
  PROVE  OrderInv'
<1> USE DEF OrderInv
<1> DEFINE t == Top.thr
           s == thr[t].curr
<1>1. /\ LoopEnds /\ ~Killed(Top) /\ frames' = Front(frames)
      /\ UNCHANGED <<pool, allNext, delayed, now, phase>>
  BY DEF SwitchThread
<1>2. /\ TypeOK /\ TypeOK' /\ Placed /\ frames # <<>> /\ t \in Live /\ t \in Thread
      /\ thr \in [Thread -> ThreadRec] /\ thr[t] \in ThreadRec /\ Live' = Live
      /\ Live \subseteq Thread /\ phase = "sim"
  BY <1>1, EndThreadType, EndingTop, LiveType, PoolEqual DEF ThreadsInv, Chained, TypeOK
<1>3. /\ Len(frames) = 1 /\ s \in Stmt
      /\ Op[s] = "JOIN" \/ Op[s] \in ContextSwitch \/ s \in Cont
      /\ thr[t].state # "ACTIVE" => thr[t].state = "DELAYED" /\ Op[s] = "DELAY" /\ ~now.final
  BY <1>1, SwitchedTop
<1>4. Len(frames') = 0
  BY <1>1, <1>2, <1>3, FramesReturn
<1> DEFINE Rests == Op[s] # "DELAY" \/ now.final
<1>5. PICK r \in ThreadRec :
        /\ thr' = [thr EXCEPT ![t] = r] /\ r.time = thr[t].time /\ r.parent = thr[t].parent
        /\ ~Rests => r.state = thr[t].state
        /\ Rests => r.state \in {"NONE", "WAITING"}
        /\ r.curr = s \/ (r.curr = NextTrue[s] /\ s \notin Cont /\ r.state = "NONE")
        /\ r.state = "WAITING" => r.curr = s /\ Op[s] \notin {"FORK", "JOIN", "CALL"}
  <2>1. CASE Rests
    <3> DEFINE r == Switched(thr[t])
    <3>1. Head(active) = t
      BY <1>2, <1>3, <2>1, SingleCall
    <3>2. thr' = [thr EXCEPT ![t] = r]
      BY <1>2, <2>1, <3>1 DEF SwitchThread
    <3>3. NextTrue[s] \in Stmt \cup {NULL}
      BY <1>3, DesignAssumption
    <3>4. CASE Op[s] \in {"FORK", "JOIN", "CALL"}
      <4>1. s \notin Cont
        BY <3>4 DEF StructuredDesign
      <4>2. r = [[thr[t] EXCEPT !.curr = NextTrue[s]] EXCEPT !.state = "NONE"]
        BY <3>4 DEF Switched
      <4>3. r \in ThreadRec /\ r.time = thr[t].time /\ r.parent = thr[t].parent
            /\ r.curr = NextTrue[s] /\ r.state = "NONE"
        BY <1>2, <3>3, <4>2 DEF ThreadRec, ThreadState
      <4> HIDE DEF r
      <4> QED BY <2>1, <3>2, <4>1, <4>3
    <3>5. CASE Op[s] \notin {"FORK", "JOIN", "CALL"}
      <4>1. r = [[thr[t] EXCEPT !.state = "WAITING"] EXCEPT !.execFirst = TRUE]
        BY <3>5 DEF Switched
      <4>2. r \in ThreadRec /\ r.time = thr[t].time /\ r.parent = thr[t].parent
            /\ r.curr = s /\ r.state = "WAITING"
        BY <1>2, <4>1 DEF ThreadRec, ThreadState
      <4> HIDE DEF r
      <4> QED BY <2>1, <3>2, <3>5, <4>2
    <3> QED BY <3>4, <3>5
  <2>2. CASE ~Rests
    <3> DEFINE r == [thr[t] EXCEPT !.execFirst = TRUE]
    <3>1. thr' = [thr EXCEPT ![t] = r]
      BY <1>2, <2>2 DEF SwitchThread
    <3>2. r \in ThreadRec /\ r.time = thr[t].time /\ r.parent = thr[t].parent
          /\ r.curr = s /\ r.state = thr[t].state
      BY <1>2 DEF ThreadRec
    <3>3. r.state # "WAITING"
      BY <1>3, <3>2
    <3> HIDE DEF r
    <3> QED BY <2>2, <3>1, <3>2, <3>3
  <2> QED BY <2>1, <2>2
<1>6. \A u \in Thread : thr'[u] = IF u = t THEN r ELSE thr[u]
  BY <1>2, <1>5
<1>7. \A u \in Thread : thr'[u].time = thr[u].time /\ thr'[u].parent = thr[u].parent
  BY <1>5, <1>6
<1>8. r.curr \in Cont => s \in Cont
  BY <1>3, <1>5 DEF TimelyDesign
<1>9. \A u \in Timely' : u \in Timely
  <2> SUFFICES ASSUME NEW u \in Timely' PROVE u \in Timely
    OBVIOUS
  <2>1. u \in Live /\ u \in Thread /\ thr'[u].state = "ACTIVE" /\ thr'[u].curr \notin Cont
    BY <1>2 DEF Timely
  <2>2. \A i \in 2..Len(frames) : FALSE
    BY <1>3
  <2>3. u = t => thr[t].state = "ACTIVE" /\ s \notin Cont
    BY <1>5, <1>6, <2>1
  <2> QED BY <1>6, <2>1, <2>2, <2>3 DEF Timely
<1>10. Times' /\ TimelyLast'
  <2>1. \A u \in Undelayed' : u \in Undelayed /\ thr'[u].time = thr[u].time
    BY <1>1, <1>2, <1>7 DEF Undelayed
  <2>2. \A u \in ToSet(delayed) : thr'[u].time = thr[u].time
    BY <1>2, <1>7 DEF Placed
  <2>3. \A u \in Timely' : u \in Timely /\ thr'[u].time = thr[u].time
    BY <1>2, <1>7, <1>9 DEF Timely
  <2> QED BY <1>1, <1>2, <2>1, <2>2, <2>3, TimesKept
<1>11. CallsShareTime'
  BY <1>4 DEF CallsShareTime
<1>12. ContinuousAlone'
  <2>1. \A u \in Live' : thr'[u].curr \in Cont => thr'[u].parent = NULL
    BY <1>2, <1>6, <1>7, <1>8 DEF ContinuousAlone
  <2> QED BY <1>4, <2>1 DEF ContinuousAlone
<1>13. WaitsForChange'
  <2> SUFFICES ASSUME ~now.final, NEW u \in Live, thr'[u].state = "WAITING"
               PROVE  thr'[u].curr \in Cont \/ Op[thr'[u].curr] \in {"EVENT", "COMB", "WAIT"}
    BY <1>1, <1>2 DEF WaitsForChange
  <2>1. CASE u = t
    <3>1. r.state = "WAITING" /\ thr'[u].curr = s
      BY <1>2, <1>5, <1>6, <2>1
    <3>2. Op[s] \notin {"FORK", "JOIN", "CALL", "DELAY"}
      BY <1>3, <1>5, <3>1
    <3> QED BY <1>3, <3>1, <3>2 DEF ContextSwitch
  <2>2. CASE u # t
    BY <1>2, <1>6, <2>2 DEF WaitsForChange
  <2> QED BY <2>1, <2>2
<1> QED BY <1>10, <1>11, <1>12, <1>13

(* A delay ends within one word, not before it began. *)
LEMMA WakeTimeLater ==
  ASSUME TimelyDesign, ThreadsInv, OrderInv, ~now.final, NEW ops, Executing(ops),
         Op[Top.stmt] = "DELAY"
  PROVE  /\ Ordinary(WakeTime) /\ Full(WakeTime) < Word
         /\ Clock(Top.thr) <= Full(WakeTime)
<1>1. /\ Top.stmt \in Stmt /\ thr[Top.thr].time \in SimTime /\ Top.thr \in Undelayed
      /\ now \in SimTime /\ frames # <<>>
  BY RunningTop, ExecutingType, FirstCall DEF ThreadsInv, TypeOK, ThreadRec, Executing
<1> DEFINE d == Delay[Top.stmt]
           y == thr[Top.thr].time
           x == TimeOf(d, FALSE)
<1>2. d \in Nat /\ MaxTime \in Nat /\ MaxTime + d < Word
  BY <1>1, DesignAssumption DEF TimelyDesign
<1>3. Full(y) \in Nat /\ Full(now) \in Nat /\ Full(y) <= Full(now) /\ Full(now) <= MaxTime
  BY <1>1, FullType DEF OrderInv, Times, Clock
<1>4. Word \in Nat /\ d < Word /\ d + Full(y) < Word
  BY <1>2, <1>3, WordAssumption
<1>5. x \in SimTime /\ Full(x) = d
  <2> HIDE DEF d
  <2> QED BY <1>2, <1>4, OneWord
<1>6. Full(x) + Full(y) < Word * Word
  <2>1. \A w \in Nat : w <= w * w
    <3> SUFFICES ASSUME NEW w \in Nat, w # 0 PROVE w <= w * w
      OBVIOUS
    <3>1. \A a, b, c \in Nat : a <= b => a * c <= b * c
      OBVIOUS
    <3>2. 1 * w <= w * w
      BY <3>1
    <3> QED BY <3>2
  <2>2. Word <= Word * Word /\ Word * Word \in Nat
    BY <1>4, <2>1
  <2> HIDE DEF d, y, x
  <2> QED BY <1>2, <1>3, <1>4, <1>5, <2>2
<1>7. TimeInc(x, y) \in SimTime /\ Full(TimeInc(x, y)) = Full(x) + Full(y)
  <2> HIDE DEF x, y
  <2> QED BY <1>1, <1>5, <1>6, TimeIncCorrect DEF y
<1>8. WakeTime = TimeInc(x, y)
  BY DEF WakeTime
<1> HIDE DEF d, x
<1>9. Full(WakeTime) = d + Full(y)
  BY <1>5, <1>7, <1>8
<1> QED BY <1>2, <1>3, <1>4, <1>7, <1>8, <1>9 DEF Ordinary, Clock

LEMMA DelayStartKeepsOrder ==
  ASSUME StructuredDesign, TimelyDesign, ThreadsInv, Undisturbed, OrderInv, ExecDelayStart
  PROVE  OrderInv'
<1> USE DEF OrderInv
<1> DEFINE t == Top.thr
<1>1. /\ TypeOK /\ TypeOK' /\ thr \in [Thread -> ThreadRec] /\ Executing({"DELAY"})
      /\ Op[Top.stmt] = "DELAY" /\ Advance(FALSE, FALSE)
      /\ UNCHANGED <<pool, allNext, now, phase>>
  BY DelayType DEF ThreadsInv, TypeOK, ExecDelayStart, Evaluating, Executing
<1>2. CASE now.final
  <2>1. thr' = Executed(thr) /\ delayed' = delayed
    BY <1>2 DEF ExecDelayStart
  <2>2. \A u \in Thread : /\ thr[u].state = thr[u].state /\ thr[u].time = thr[u].time
                          /\ thr[u].curr = thr[u].curr /\ thr[u].parent = thr[u].parent
    OBVIOUS
  <2> QED BY <1>1, <2>1, <2>2, PlainOrder
<1>3. CASE ~now.final
  <2>1. /\ Placed /\ Placed' /\ t \in Live /\ t \in Thread /\ thr[t].state = "ACTIVE"
        /\ Top.stmt \in Stmt
        /\ Len(frames) # 1 => FunitOf[Top.stmt] \in Functions
        /\ Live' = Live /\ Live \subseteq Thread /\ phase = "sim" /\ frames # <<>>
        /\ t \notin ToSet(delayed)
    BY <1>1, RunningTop, LiveType, PoolEqual, DelayStartKeeps
    DEF ThreadsInv, Chained, Placed, Executing
  <2>2. Len(frames) = 1 /\ frames[1].thr = t
    <3>1. Op[Top.stmt] = "DELAY" /\ Top.stmt \in Stmt
      BY <1>1, <2>1
    <3>2. FunitOf[Top.stmt] \notin Functions
      BY <3>1 DEF StructuredDesign
    <3>3. Len(frames) = 1
      BY <2>1, <3>2
    <3> QED BY <2>1, <3>3, FirstCall
  <2>3. thr[t].curr \notin Cont
    BY <1>1, QuietTop DEF StructuredDesign
  <2>4. Latest(t)
    BY <1>3, <2>1, <2>2, <2>3, TopLatest
  <2>5. Ordinary(WakeTime) /\ Full(WakeTime) < Word /\ Clock(t) <= Full(WakeTime)
    BY <1>1, <1>3, WakeTimeLater
  <2> DEFINE T == [thr EXCEPT ![t].state = "DELAYED", ![t].time = WakeTime]
             r == [[thr[t] EXCEPT !.state = "DELAYED"] EXCEPT !.time = WakeTime]
  <2>6. /\ T \in [Thread -> ThreadRec]
        /\ \A u \in Thread : /\ T[u].state = IF u = t THEN "DELAYED" ELSE thr[u].state
                             /\ T[u].time = IF u = t THEN WakeTime ELSE thr[u].time
                             /\ T[u].parent = thr[u].parent /\ T[u].curr = thr[u].curr
    <3>1. WakeTime \in SimTime /\ thr[t] \in ThreadRec
      BY <1>1, <2>1, <2>5 DEF Ordinary
    <3>2. /\ r \in ThreadRec /\ r.state = "DELAYED" /\ r.time = WakeTime
          /\ r.parent = thr[t].parent /\ r.curr = thr[t].curr
      BY <3>1 DEF ThreadRec, ThreadState
    <3>3. T = [thr EXCEPT ![t] = r]
      BY <1>1, <2>1
    <3> HIDE DEF r, T
    <3> QED BY <1>1, <2>1, <3>2, <3>3
  <2>7. thr' = Executed(T) /\ delayed' = Insert(delayed, t, WakeTime)
    BY <1>3 DEF ExecDelayStart
  <2> HIDE DEF T
  <2>8. /\ \A u \in Thread : /\ thr'[u].state = IF u = t THEN "DELAYED" ELSE thr[u].state
                             /\ thr'[u].time = IF u = t THEN WakeTime ELSE thr[u].time
                             /\ thr'[u].parent = thr[u].parent
                             /\ u # t => thr'[u].curr = thr[u].curr
        /\ thr'[t].curr = Top.stmt
    BY <1>1, <2>6, <2>7, ExecutedEffect
  <2>9. DelayedInOrder' /\ ToSet(delayed') = ToSet(delayed) \cup {t}
    <3>1. \A u \in ToSet(delayed) : thr'[u].time = thr[u].time
      BY <2>1, <2>8 DEF Placed
    <3>2. Word > 1
      BY DEF TimelyDesign
    <3> QED BY <1>1, <2>1, <2>5, <2>7, <2>8, <3>1, <3>2, InsertOrdered
  <2>10. Undelayed' = Undelayed \ {t} /\ t \in Undelayed /\ Undelayed \subseteq Live
    BY <2>1, <2>9 DEF Undelayed
  <2>11. /\ \A u \in Undelayed' : Full(thr'[u].time) = Clock(u)
         /\ \A u \in ToSet(delayed) : Full(thr'[u].time) = Clock(u)
         /\ Full(thr'[t].time) = Full(WakeTime)
    BY <2>1, <2>8, <2>10 DEF Clock, Placed
  <2>12. \A u \in Live : Clock(u) \in Nat
    BY <1>1, <2>1, DelayedTimes
  <2>13. Times'
    <3>1. \A u \in ToSet(delayed') : thr'[u].time = FinalTime \/ Full(thr'[u].time) < Word
      BY <2>1, <2>5, <2>8, <2>9, <2>11 DEF Times, Placed
    <3>2. \A u \in Undelayed', v \in ToSet(delayed') : Full(thr'[u].time) <= Full(thr'[v].time)
      <4> SUFFICES ASSUME NEW u \in Undelayed', NEW v \in ToSet(delayed')
                   PROVE  Full(thr'[u].time) <= Full(thr'[v].time)
        OBVIOUS
      <4>1. CASE v = t
        <5>1. Clock(u) <= Clock(t) /\ Clock(u) \in Nat /\ Clock(t) \in Nat
          BY <2>4, <2>10, <2>12 DEF Latest
        <5>2. Full(WakeTime) \in Nat
          BY <2>5, FullType DEF Ordinary
        <5> QED BY <2>5, <2>11, <4>1, <5>1, <5>2
      <4>2. CASE v # t
        BY <2>9, <2>10, <2>11, <4>2 DEF Times
      <4> QED BY <4>1, <4>2
    <3>3. \A u \in Undelayed' : Full(thr'[u].time) <= Full(now)
      BY <1>3, <2>10, <2>11 DEF Times
    <3>4. NoneOverdue'
      BY <1>1, <2>1 DEF NoneOverdue
    <3> QED BY <1>1, <1>3, <2>1, <2>9, <3>1, <3>2, <3>3, <3>4 DEF Times, Clock
  <2>14. /\ ContinuousAlone' /\ Len(frames') = Len(frames)
         /\ \A u \in Live : thr'[u].curr \in Cont <=> thr[u].curr \in Cont
    <3>1. \A u \in Live : thr'[u].curr \in Cont => thr'[u].parent = NULL
      BY <2>1, <2>3, <2>8, <1>1, QuietTop DEF ContinuousAlone
    <3>2. \A u \in Live : u # Top.thr => thr'[u].curr = thr[u].curr
      BY <2>1, <2>8
    <3> QED BY <1>1, <2>1, <2>8, <3>1, <3>2, AdvanceAlone
  <2>15. TimelyLast'
    <3> SUFFICES ASSUME NEW u \in Timely', NEW v \in Undelayed'
                 PROVE  Full(thr'[v].time) <= Full(thr'[u].time)
      BY DEF TimelyLast, Latest, Clock
    <3>1. u \in Live /\ u \in Thread /\ thr'[u].state = "ACTIVE" /\ thr'[u].curr \notin Cont
      BY <2>1 DEF Timely
    <3>2. u # t /\ thr[u].state = "ACTIVE" /\ thr[u].curr \notin Cont
      BY <2>8, <2>14, <3>1
    <3>3. \A i \in 2..Len(frames) : FALSE
      BY <2>2
    <3>4. Latest(u)
      BY <1>3, <3>1, <3>2, <3>3 DEF TimelyLast, Timely
    <3> QED BY <2>8, <2>10, <2>11, <3>1, <3>2, <3>4 DEF Latest, Clock
  <2>16. CallsShareTime'
    <3>1. \A i \in 1..Len(frames') : i = 1
      BY <2>2, <2>14
    <3> QED BY <3>1 DEF CallsShareTime
  <2>17. WaitsForChange'
    BY <1>1, <2>1, <2>8 DEF WaitsForChange
  <2> QED BY <2>13, <2>14, <2>15, <2>16, <2>17
<1> QED BY <1>2, <1>3

-----------------------------------------------------------------------------
(* Between the calls of sim_thread *)

(* Steps that leave no call in progress and start no continuous assignment. *)
LEMMA NoCallsOrder ==
  ASSUME ContinuousAlone, frames' = <<>>,
         \A t \in Live' : \/ t \in Live /\ thr'[t].curr = thr[t].curr
                             /\ thr'[t].parent = thr[t].parent
                          \/ thr'[t].parent = NULL
  PROVE  CallsShareTime' /\ ContinuousAlone'
<1>1. Len(frames') = 0
  OBVIOUS
<1>2. \A t \in Live' : thr'[t].curr \in Cont => thr'[t].parent = NULL
  BY DEF ContinuousAlone
<1> QED BY <1>1, <1>2 DEF CallsShareTime, ContinuousAlone

(* Nothing is active when no call is in progress and the queue is empty. *)
LEMMA NothingActive ==
  ASSUME ThreadsInv, frames = <<>>, active = <<>>
  PROVE  \A t \in Live : thr[t].state # "ACTIVE"
<1>1. CallersIn(frames) = {} /\ ToSet(active) = {}
  BY NoCalls DEF ThreadsInv, ToSet
<1> QED BY <1>1 DEF ThreadsInv, Placed

(* A step that only changes the time and the phase. *)
LEMMA ClockKeepsOrder ==
  ASSUME ThreadsInv, OrderInv, frames = <<>>, UNCHANGED <<pool, allNext, delayed, thr, frames>>,
         Full(now') < Word \/ now' = FinalTime,
         ~now'.final => ~now.final /\ Full(now) <= Full(now') /\ Full(now') <= MaxTime,
         phase' \in {"read", "idle"} => ~now'.final,
         phase' = "read" => Full(now') = 0,
         phase' = "post" => active' = <<>>,
         NoneOverdue', now \in SimTime, now' \in SimTime
  PROVE  OrderInv'
<1> USE DEF OrderInv
<1>1. TypeOK /\ Placed /\ Live' = Live
  BY PoolEqual DEF ThreadsInv
<1>2. \A t \in Live : Clock(t) \in Nat
  BY <1>1, DelayedTimes
<1>3. Undelayed' = Undelayed /\ Undelayed \subseteq Live
  BY <1>1 DEF Undelayed
<1>4. Full(now) \in Nat /\ Full(now') \in Nat
  BY FullType
<1>5. Times'
  <2>1. DelayedInOrder'
    BY DEF Times, DelayedInOrder
  <2>2. ~now'.final => \A t \in Undelayed : Clock(t) <= Full(now')
    BY <1>2, <1>3, <1>4 DEF Times
  <2> QED BY <1>3, <2>1, <2>2 DEF Times, Clock
<1>6. TimelyLast'
  <2>1. Timely' = Timely
    BY <1>1 DEF Timely
  <2> QED BY <1>3, <2>1 DEF TimelyLast, Latest, Clock
<1>7. CallsShareTime' /\ ContinuousAlone'
  BY <1>1, NoCallsOrder
<1>8. WaitsForChange'
  BY <1>1 DEF WaitsForChange
<1> QED BY <1>5, <1>6, <1>7, <1>8

LEMMA TimestepKeepsOrder ==
  ASSUME TimelyDesign, ThreadsInv, OrderInv,
         EndRead \/ (\E n \in 0..MaxTime : Timestep(n)) \/ FinalTimestep
  PROVE  OrderInv'
<1> USE DEF OrderInv
<1>1. /\ frames = <<>> /\ UNCHANGED <<pool, allNext, active, delayed, thr, frames>>
      /\ now \in SimTime
  BY DEF EndRead, Timestep, FinalTimestep, ThreadsInv, Chained, TypeOK
<1>2. TypeOK' /\ now' \in SimTime
  BY TimestepType DEF ThreadsInv, TypeOK
<1>3. MaxTime \in Nat /\ Word \in Nat /\ MaxTime < Word /\ Full(now) \in Nat
  BY <1>1, FullType, DesignAssumption, WordAssumption DEF TimelyDesign
<1>4. phase' # "post"
  BY DEF EndRead, Timestep, FinalTimestep
<1>5. NoneOverdue'
  BY <1>4 DEF NoneOverdue
<1>6. CASE EndRead
  <2>1. phase = "read" /\ phase' = "idle" /\ now' = now
    BY <1>6 DEF EndRead
  <2> QED BY <1>1, <1>2, <1>3, <1>5, <2>1, ClockKeepsOrder DEF Times
<1>7. ASSUME NEW n \in 0..MaxTime, Timestep(n) PROVE OrderInv'
  <2>1. phase = "idle" /\ phase' = "sim" /\ now' = TimeOf(n, FALSE) /\ n >= Full(now)
    BY <1>7 DEF Timestep
  <2>2. n \in Nat /\ n < Word /\ n <= MaxTime
    BY <1>3
  <2>3. Full(now') = n /\ ~now'.final
    BY <2>1, <2>2, OneWord
  <2>4. ~now.final
    BY <2>1 DEF Times
  <2>5. Full(now) <= Full(now') /\ Full(now') <= MaxTime /\ Full(now') < Word
    BY <1>3, <2>1, <2>2, <2>3
  <2> QED BY <1>1, <1>2, <1>4, <1>5, <2>1, <2>3, <2>4, <2>5, ClockKeepsOrder
<1>8. CASE FinalTimestep
  <2>1. phase' = "sim" /\ now' = TimeOf(0, TRUE)
    BY <1>8 DEF FinalTimestep
  <2>2. Full(now') = 0 /\ now'.final
    <3>1. 0 \in Nat /\ 0 < Word /\ TRUE \in BOOLEAN
      BY <1>3
    <3>2. Full(TimeOf(0, TRUE)) = 0 /\ TimeOf(0, TRUE).final = TRUE
      BY <3>1, OneWord
    <3> QED BY <2>1, <3>2
  <2>3. Full(now') < Word
    BY <1>3, <2>2
  <2> QED BY <1>1, <1>2, <1>4, <1>5, <2>1, <2>2, <2>3, ClockKeepsOrder
<1> QED BY <1>6, <1>7, <1>8

(* sim_simulate returns when nothing is due any more. *)
LEMMA EndPassKeepsOrder ==
  ASSUME ThreadsInv, OrderInv, EndPass
  PROVE  OrderInv'
<1> USE DEF OrderInv
<1>1. /\ frames = <<>> /\ UNCHANGED <<pool, allNext, active, delayed, thr, frames>>
      /\ active = <<>> /\ phase = "sim" /\ ~Due
      /\ now \in SimTime /\ TypeOK /\ Placed
  BY DEF EndPass, Between, ThreadsInv, TypeOK
<1>2. now' \in SimTime /\ FinalTime \in SimTime /\ FinalTime.final
  BY PassType, FinalTimeType DEF ThreadsInv, TypeOK, FinalTime
<1>3. CASE now' = FinalTime /\ phase' = phase
  <2>1. NoneOverdue'
    BY <1>1, <1>3 DEF NoneOverdue
  <2> QED BY <1>1, <1>2, <1>3, <2>1, ClockKeepsOrder
<1>4. CASE now' = now /\ phase' = IF simulate THEN "post" ELSE Resting
  <2>1. \A i \in DOMAIN delayed : Clock(delayed[i]) > Full(now)
    <3> SUFFICES ASSUME NEW i \in DOMAIN delayed PROVE Clock(delayed[i]) > Full(now)
      OBVIOUS
    <3>1. /\ delayed \in Seq(Thread) /\ DOMAIN delayed = 1..Len(delayed) /\ Len(delayed) \in Nat
          /\ \A j \in DOMAIN delayed : /\ thr[delayed[j]].time \in SimTime
                                       /\ Clock(delayed[j]) \in Nat
      BY <1>1, DelayedTimes
    <3>2. delayed # <<>> /\ 1 \in DOMAIN delayed /\ Head(delayed) = delayed[1]
      BY <3>1
    <3>3. ~(Clock(delayed[1]) <= Full(now))
      BY <1>1, <3>1, <3>2, TimeCmpLECorrect DEF Due, Clock
    <3>4. i = 1 \/ Clock(delayed[1]) <= Clock(delayed[i])
      BY <3>1, <3>2 DEF Times, DelayedInOrder, Clock
    <3>5. Full(now) \in Nat /\ Clock(delayed[1]) \in Nat /\ Clock(delayed[i]) \in Nat
      BY <1>1, <3>1, <3>2, FullType
    <3> QED BY <3>3, <3>4, <3>5
  <2>2. NoneOverdue'
    BY <1>1, <1>4, <2>1 DEF NoneOverdue, Clock
  <2>3. phase' \in {"read", "idle"} => ~now'.final
    BY <1>4 DEF Resting
  <2>4. phase' # "read"
    BY <1>4 DEF Resting
  <2>5. Full(now) \in Nat
    BY <1>1, FullType
  <2>6. /\ Full(now') < Word \/ now' = FinalTime
        /\ ~now'.final => Full(now) <= Full(now') /\ Full(now') <= MaxTime
    BY <1>4, <2>5 DEF Times
  <2> QED BY <1>1, <1>2, <1>4, <2>2, <2>3, <2>4, <2>6, ClockKeepsOrder
<1> QED BY <1>3, <1>4 DEF EndPass

(* The first loop of sim_simulate: a call of sim_thread begins. *)
LEMMA BeginThreadKeepsOrder ==
  ASSUME ThreadsInv, OrderInv, BeginThread
  PROVE  OrderInv'
<1> USE DEF OrderInv
<1> DEFINE h == Head(active)
<1>1. /\ frames = <<>> /\ phase = "sim"
      /\ frames' = <<[thr |-> h, stmt |-> thr[h].curr, chg |-> FALSE, called |-> FALSE]>>
      /\ UNCHANGED <<pool, allNext, active, delayed, thr, now, phase>>
  BY DEF BeginThread, Between
<1> HIDE DEF h
<1>2. /\ Len(frames) = 0 /\ Len(frames') = 1 /\ Live' = Live
      /\ frames'[1].thr = h /\ frames'[1].stmt = thr[h].curr
  BY <1>1, PoolEqual
<1>3. Undelayed' = Undelayed
  BY <1>1, <1>2 DEF Undelayed
<1>4. Times'
  <2>1. DelayedInOrder'
    BY <1>1 DEF Times, DelayedInOrder
  <2>2. NoneOverdue'
    BY <1>1 DEF NoneOverdue
  <2> QED BY <1>1, <1>3, <2>1, <2>2 DEF Times, Clock
<1>5. TimelyLast'
  <2>1. Timely' = Timely
    <3>1. \A t : (\A i \in 2..0 : frames[i].thr # t) /\ (\A i \in 2..1 : frames'[i].thr # t)
      OBVIOUS
    <3> QED BY <1>1, <1>2, <3>1 DEF Timely
  <2> QED BY <1>1, <1>3, <2>1 DEF TimelyLast, Latest, Clock
<1>6. CallsShareTime'
  <2>1. \A i \in 1..Len(frames') : i = 1
    BY <1>2
  <2> QED BY <2>1 DEF CallsShareTime
<1>7. ContinuousAlone'
  <2>1. \A i \in 1..Len(frames') : i = 1
    BY <1>2
  <2>2. \A i \in 2..Len(frames') : FALSE
    BY <1>2
  <2> QED BY <1>1, <1>2, <2>1, <2>2 DEF ContinuousAlone
<1>8. WaitsForChange'
  BY <1>1, <1>2 DEF WaitsForChange
<1> QED BY <1>4, <1>5, <1>6, <1>7, <1>8

(* The second loop of sim_simulate: what is popped is not before anything   *)
(* that ran and not after anything that is still delayed.                   *)
LEMMA PopDelayedKeepsOrder ==
  ASSUME ThreadsInv, OrderInv, PopDelayed
  PROVE  OrderInv'
<1> USE DEF OrderInv
<1> DEFINE h == Head(delayed)
<1>1. /\ TypeOK /\ Placed /\ thr \in [Thread -> ThreadRec] /\ delayed \in Seq(Thread)
      /\ frames = <<>> /\ frames' = <<>> /\ active = <<>> /\ Due /\ phase = "sim"
      /\ delayed # <<>> /\ delayed' = Tail(delayed) /\ Distinct(delayed)
      /\ thr' = [thr EXCEPT ![h].state = "ACTIVE"]
      /\ UNCHANGED <<pool, allNext, now, phase>>
  BY DEF PopDelayed, Between, Due, ThreadsInv, TypeOK, Placed
<1>2. /\ Len(delayed) \in Nat /\ Len(delayed) >= 1 /\ h = delayed[1] /\ h \in ToSet(delayed)
      /\ Tail(delayed) \in Seq(Thread) /\ Len(Tail(delayed)) = Len(delayed) - 1
      /\ \A i \in 1..(Len(delayed) - 1) : Tail(delayed)[i] = delayed[i + 1]
      /\ ToSet(delayed') = ToSet(delayed) \ {h}
  BY <1>1, TailDistinct
<1>3. /\ h \in Live /\ h \in Thread /\ Live' = Live /\ Live \subseteq Thread
      /\ \A t \in Live : Clock(t) \in Nat /\ thr[t].time \in SimTime
      /\ ToSet(delayed) \subseteq Live
      /\ \A t \in ToSet(delayed) : \E i \in DOMAIN delayed : t = delayed[i]
      /\ DOMAIN delayed = 1..Len(delayed)
  BY <1>1, <1>2, PoolEqual, LiveType, DelayedTimes DEF Placed
<1>4. Clock(h) <= Full(now)
  <2>1. now \in SimTime
    BY DEF ThreadsInv, TypeOK
  <2> QED BY <1>1, <1>3, <2>1, TimeCmpLECorrect DEF Due, Clock
<1>5. \A t \in ToSet(delayed) : Clock(h) <= Clock(t)
  <2> SUFFICES ASSUME NEW i \in DOMAIN delayed, delayed[i] \in ToSet(delayed)
               PROVE  Clock(h) <= Clock(delayed[i])
    BY <1>3
  <2>1. 1 \in DOMAIN delayed /\ (i = 1 \/ 1 < i)
    BY <1>2, <1>3
  <2> QED BY <1>2, <1>3, <2>1 DEF Times, DelayedInOrder, Clock
<1>6. \A t \in Undelayed : Clock(t) <= Clock(h)
  BY <1>2 DEF Times
<1> HIDE DEF h
<1>7. \A t \in Thread : /\ thr'[t].state = IF t = h THEN "ACTIVE" ELSE thr[t].state
                        /\ thr'[t].time = thr[t].time /\ thr'[t].curr = thr[t].curr
                        /\ thr'[t].parent = thr[t].parent
  <2> DEFINE r == [thr[h] EXCEPT !.state = "ACTIVE"]
  <2>1. /\ r.state = "ACTIVE" /\ r.time = thr[h].time /\ r.curr = thr[h].curr
        /\ r.parent = thr[h].parent
    BY <1>1, <1>3 DEF ThreadRec
  <2>2. thr' = [thr EXCEPT ![h] = r]
    BY <1>1, <1>3
  <2> HIDE DEF r
  <2> QED BY <1>1, <1>3, <2>1, <2>2
<1>8. /\ Undelayed' = Undelayed \cup {h} /\ Undelayed \subseteq Live
      /\ \A t \in Live : Full(thr'[t].time) = Clock(t)
  BY <1>2, <1>3, <1>7 DEF Undelayed, Clock
<1>9. Times'
  <2>1. DelayedInOrder'
    <3> SUFFICES ASSUME NEW i \in DOMAIN delayed', NEW j \in DOMAIN delayed', i < j
                 PROVE  Full(thr'[delayed'[i]].time) <= Full(thr'[delayed'[j]].time)
      BY DEF DelayedInOrder
    <3>1. DOMAIN delayed' = 1..(Len(delayed) - 1)
      BY <1>1, <1>2
    <3>2. i \in 1..(Len(delayed) - 1) /\ j \in 1..(Len(delayed) - 1)
      BY <3>1
    <3>3. i + 1 \in DOMAIN delayed /\ j + 1 \in DOMAIN delayed /\ i + 1 < j + 1
      BY <1>2, <1>3, <3>2
    <3>4. delayed'[i] = delayed[i + 1] /\ delayed'[j] = delayed[j + 1]
      BY <1>1, <1>2, <3>2
    <3>5. delayed[i + 1] \in Live /\ delayed[j + 1] \in Live
      BY <1>3, <3>3 DEF ToSet
    <3>6. Clock(delayed[i + 1]) <= Clock(delayed[j + 1])
      BY <3>3 DEF Times, DelayedInOrder, Clock
    <3> QED BY <1>8, <3>4, <3>5, <3>6
  <2>2. \A t \in ToSet(delayed') : thr'[t].time = FinalTime \/ Full(thr'[t].time) < Word
    BY <1>2, <1>3, <1>7 DEF Times, Clock
  <2>3. \A t \in Undelayed', u \in ToSet(delayed') : Full(thr'[t].time) <= Full(thr'[u].time)
    <3> SUFFICES ASSUME NEW t \in Undelayed', NEW u \in ToSet(delayed')
                 PROVE  Clock(t) <= Clock(u)
      BY <1>2, <1>3, <1>8
    <3>1. u \in ToSet(delayed)
      BY <1>2
    <3> QED BY <1>5, <1>8, <3>1 DEF Times
  <2>4. ~now.final => \A t \in Undelayed' : Full(thr'[t].time) <= Full(now)
    BY <1>3, <1>4, <1>8 DEF Times
  <2>5. NoneOverdue'
    BY <1>1 DEF NoneOverdue
  <2> QED BY <1>1, <2>1, <2>2, <2>3, <2>4, <2>5 DEF Times, Clock
<1>10. TimelyLast'
  <2>1. \A t \in Live : thr[t].state # "ACTIVE"
    BY <1>1, NothingActive
  <2>2. \A t \in Timely' : t = h
    BY <1>3, <1>7, <2>1 DEF Timely
  <2>3. \A t \in Undelayed' : Full(thr'[t].time) <= Full(thr'[h].time)
    BY <1>3, <1>6, <1>8
  <2> QED BY <2>2, <2>3 DEF TimelyLast, Latest, Clock
<1>11. CallsShareTime' /\ ContinuousAlone'
  BY <1>1, <1>3, <1>7, NoCallsOrder
<1>12. WaitsForChange'
  BY <1>1, <1>3, <1>7 DEF WaitsForChange
<1> QED BY <1>9, <1>10, <1>11, <1>12

(* The assignments at the end of a timestep wake what waits for a change at *)
(* the time of the simulation, which everything delayed is after.           *)
LEMMA PostAssignKeepsOrder ==
  ASSUME ThreadsInv, OrderInv, PostAssign
  PROVE  OrderInv'
<1> USE DEF OrderInv
<1>1. /\ TypeOK /\ Placed /\ thr \in [Thread -> ThreadRec] /\ now \in SimTime
      /\ phase = "post" /\ active = <<>> /\ frames = <<>> /\ frames' = <<>>
      /\ phase' = Resting /\ UNCHANGED <<pool, allNext, delayed, now>>
  BY DEF PostAssign, ThreadsInv, TypeOK, Chained, Times
<1>2. PICK S \in SUBSET PostSignals : \E q \in SetToSeqs(Woken(S)) :
        active' = active \o q /\ thr' = Pushed(thr, q, now)
  BY DEF PostAssign
<1>3. PICK q \in SetToSeqs(Woken(S)) : active' = active \o q /\ thr' = Pushed(thr, q, now)
  BY <1>2
<1>4. Live' = Live /\ Live \subseteq Thread /\ Undelayed' = Undelayed /\ Undelayed \subseteq Live
  BY <1>1, PoolEqual, LiveType DEF Undelayed
<1>5. ToSet(q) \subseteq {u \in Live : thr[u].state = "WAITING"}
  <2>1. Woken(S) \subseteq {u \in Live : thr[u].state = "WAITING"}
    BY DEF Woken
  <2>2. Woken(S) \in SUBSET Thread /\ IsFiniteSet(Woken(S))
    BY <1>1, <1>4, <2>1, LiveType, FS_Subset
  <2>3. ToSet(q) = Woken(S)
    BY <2>2, EnumerationDistinct
  <2> QED BY <2>1, <2>3
<1>6. \A u \in Thread :
        /\ thr'[u].state = IF u \in ToSet(q) THEN "ACTIVE" ELSE thr[u].state
        /\ thr'[u].curr = thr[u].curr /\ thr'[u].parent = thr[u].parent
        /\ thr'[u].time \in {thr[u].time, now}
        /\ u \notin ToSet(q) => thr'[u].time = thr[u].time
        /\ u \in ToSet(q) /\ Op[thr[u].curr] \in {"EVENT", "COMB", "WAIT"} => thr'[u].time = now
  BY <1>1, <1>3, PushedEffect, PushedTimes
<1>7. /\ \A t \in Live : Clock(t) \in Nat
      /\ \A t \in ToSet(delayed) : t \in Live /\ \E i \in DOMAIN delayed : t = delayed[i]
      /\ Full(now) \in Nat
  BY <1>1, DelayedTimes, FullType
<1>8. /\ \A t \in ToSet(delayed) : thr'[t].time = thr[t].time /\ Full(thr'[t].time) = Clock(t)
      /\ \A t \in Live : Full(thr'[t].time) \in {Clock(t), Full(now)}
  BY <1>1, <1>4, <1>5, <1>6, <1>7 DEF Placed, Clock
<1>9. \A t \in ToSet(delayed) : Clock(t) > Full(now)
  BY <1>1, <1>7 DEF Times, NoneOverdue, Clock
<1>10. ~now.final => \A t \in Undelayed : Full(thr'[t].time) <= Full(now)
  BY <1>4, <1>7, <1>8 DEF Times
<1>11. Times'
  <2>1. DelayedInOrder'
    <3>1. \A i \in DOMAIN delayed : delayed[i] \in ToSet(delayed)
      BY <1>1, DelayedTimes
    <3> QED BY <1>1, <1>8, <3>1 DEF Times, DelayedInOrder, Clock
  <2>2. \A t \in Undelayed', u \in ToSet(delayed') : Full(thr'[t].time) <= Full(thr'[u].time)
    <3> SUFFICES ASSUME NEW t \in Undelayed, NEW u \in ToSet(delayed)
                 PROVE  Full(thr'[t].time) <= Clock(u)
      BY <1>1, <1>4, <1>8
    <3>1. Clock(t) <= Clock(u) /\ Full(now) < Clock(u)
      BY <1>7, <1>9 DEF Times
    <3>2. Clock(t) \in Nat /\ Clock(u) \in Nat
      BY <1>4, <1>7
    <3> QED BY <1>4, <1>7, <1>8, <3>1, <3>2
  <2>3. phase' \notin {"read", "post"} /\ (phase' = "idle" => ~now.final)
    BY <1>1 DEF Resting
  <2>4. NoneOverdue'
    BY <2>3 DEF NoneOverdue
  <2> QED BY <1>1, <1>4, <1>8, <1>10, <2>1, <2>2, <2>3, <2>4 DEF Times, Clock
<1>12. TimelyLast'
  <2> SUFFICES ASSUME ~now.final, NEW t \in Timely', NEW u \in Undelayed
               PROVE  Full(thr'[u].time) <= Full(thr'[t].time)
    BY <1>1, <1>4 DEF TimelyLast, Latest, Clock
  <2>1. t \in Live /\ thr'[t].state = "ACTIVE" /\ thr'[t].curr \notin Cont
    BY <1>4 DEF Timely
  <2>2. t \in ToSet(q)
    BY <1>1, <1>4, <1>6, <2>1, NothingActive
  <2>3. thr'[t].time = now
    BY <1>4, <1>5, <1>6, <2>1, <2>2 DEF WaitsForChange
  <2> QED BY <1>10, <2>3
<1>13. CallsShareTime' /\ ContinuousAlone'
  BY <1>1, <1>4, <1>6, NoCallsOrder
<1>14. WaitsForChange'
  BY <1>1, <1>4, <1>6 DEF WaitsForChange
<1> QED BY <1>11, <1>12, <1>13, <1>14

(* While the database is read everything is at time 0, but for final blocks. *)
LEMMA StartBlockKeepsOrder ==
  ASSUME TimelyDesign, ThreadsInv, OrderInv, StartBlock
  PROVE  OrderInv'
<1> USE DEF OrderInv
<1>1. /\ TypeOK /\ Placed /\ PoolOnce /\ thr \in [Thread -> ThreadRec] /\ phase = "read"
      /\ delayed \in Seq(Thread)
      /\ frames = <<>> /\ frames' = <<>> /\ UNCHANGED <<now, phase>>
  BY DEF StartBlock, ThreadsInv, TypeOK, Chained
<1> DEFINE s == Head(toAdd)
           zero == TimeOf(0, FALSE)
<1>2. Full(now) = 0 /\ ~now.final
  BY <1>1 DEF Times
<1>3. zero \in SimTime /\ Full(zero) = 0
  <2>1. 0 \in Nat /\ 0 < Word /\ FALSE \in BOOLEAN
    BY WordAssumption
  <2> QED BY <2>1, OneWord
<1>4. FinalTime \in SimTime /\ Full(FinalTime) \in Nat /\ Word \in Nat /\ 0 < Word
  BY FinalTimeType, FullType, WordAssumption
<1>5. PICK t \in Thread :
        /\ Alloc(t)
        /\ \/ \E tm \in {zero, FinalTime} : StartDelayed(t, s, tm)
           \/ StartActive(t, s)
  BY DEF StartBlock
<1>6. t \notin Live /\ Live' = Live \cup {t} /\ Live \subseteq Thread /\ \A u \in Live : u # t
  BY <1>1, <1>5, AllocLive, LiveType
<1> DEFINE Started(st, tm) ==
             /\ thr' = [thr EXCEPT ![t] = NewThread(NULL, s, st, tm)]
             /\ st = "ACTIVE" => tm = zero /\ delayed' = delayed
             /\ st = "DELAYED" => delayed' = Insert(delayed, t, tm)
<1>7. PICK st \in {"ACTIVE", "DELAYED"}, tm \in {zero, FinalTime} : Started(st, tm)
  <2>1. CASE StartActive(t, s)
    <3>1. Started("ACTIVE", zero)
      BY <2>1 DEF StartActive
    <3> HIDE DEF Started
    <3> QED BY <3>1
  <2>2. CASE \E tm \in {zero, FinalTime} : StartDelayed(t, s, tm)
    <3>1. PICK tm \in {zero, FinalTime} : StartDelayed(t, s, tm)
      BY <2>2
    <3>2. Started("DELAYED", tm)
      BY <3>1 DEF StartDelayed
    <3> HIDE DEF Started
    <3> QED BY <3>2
  <2> QED BY <1>5, <2>1, <2>2
<1>8. /\ tm \in SimTime /\ Ordinary(tm) /\ Full(tm) \in Nat
      /\ tm = FinalTime \/ Full(tm) < Word
      /\ st = "ACTIVE" => Full(tm) = 0
  <2> HIDE DEF zero
  <2> QED BY <1>3, <1>4, <1>7, FullType DEF Ordinary
<1> HIDE DEF s, zero
<1>9. /\ \A u \in Thread : u # t => thr'[u] = thr[u]
      /\ thr'[t].time = tm /\ thr'[t].parent = NULL /\ thr'[t].state = st
  BY <1>1, <1>7 DEF NewThread
<1>10. /\ \A u \in Undelayed : Clock(u) = 0
       /\ \A u \in ToSet(delayed) : u \in Live /\ Clock(u) \in Nat
  <2>1. \A u \in Live : Clock(u) \in Nat
    BY <1>1, DelayedTimes
  <2>2. \A u \in Undelayed : u \in Live /\ Clock(u) <= 0
    BY <1>2 DEF Times, Undelayed
  <2> QED BY <1>1, <2>1, <2>2 DEF Placed
<1>11. \A u \in Live : thr'[u] = thr[u] /\ Full(thr'[u].time) = Clock(u)
  BY <1>6, <1>9 DEF Clock
<1>12. t \notin ToSet(delayed)
  BY <1>6, <1>10
<1>13. /\ DelayedInOrder'
       /\ ToSet(delayed') = ToSet(delayed) \cup (IF st = "DELAYED" THEN {t} ELSE {})
  <2>1. CASE st = "ACTIVE"
    <3>1. delayed' = delayed /\ \A i \in DOMAIN delayed : delayed[i] \in Live
      BY <1>7, <1>10, <2>1 DEF ToSet
    <3> QED BY <1>11, <2>1, <3>1 DEF Times, DelayedInOrder, Clock
  <2>2. CASE st = "DELAYED"
    <3>1. delayed' = Insert(delayed, t, tm)
      BY <1>7, <2>2
    <3>2. \A u \in ToSet(delayed) : thr'[u].time = thr[u].time
      BY <1>10, <1>11
    <3>3. Word > 1
      BY DEF TimelyDesign
    <3> QED BY <1>1, <1>8, <1>9, <1>12, <2>2, <3>1, <3>2, <3>3, InsertOrdered
  <2> QED BY <2>1, <2>2
<1>14. \A u \in Undelayed' : Full(thr'[u].time) = 0
  BY <1>6, <1>7, <1>8, <1>9, <1>10, <1>11, <1>13 DEF Undelayed
<1>15. \A u \in ToSet(delayed') : Full(thr'[u].time) \in Nat
  BY <1>8, <1>9, <1>10, <1>11, <1>13
<1>16. Times'
  <2>1. \A u \in ToSet(delayed') : thr'[u].time = FinalTime \/ Full(thr'[u].time) < Word
    BY <1>8, <1>9, <1>10, <1>11, <1>13 DEF Times
  <2>2. \A u \in Undelayed', v \in ToSet(delayed') : Full(thr'[u].time) <= Full(thr'[v].time)
    BY <1>14, <1>15
  <2>3. NoneOverdue'
    BY <1>1 DEF NoneOverdue
  <2> QED BY <1>1, <1>2, <1>13, <1>14, <2>1, <2>2, <2>3 DEF Times, Clock
<1>17. TimelyLast'
  <2>1. \A u \in Timely' : u \in Undelayed'
    <3>1. \A u \in Live' : thr'[u].state = "ACTIVE" => u \notin ToSet(delayed')
      BY <1>1, <1>6, <1>7, <1>9, <1>11, <1>12, <1>13 DEF Placed
    <3> QED BY <3>1 DEF Timely, Undelayed
  <2> QED BY <1>14, <2>1 DEF TimelyLast, Latest, Clock
<1>18. CallsShareTime' /\ ContinuousAlone'
  BY <1>1, <1>6, <1>9, <1>11, NoCallsOrder
<1>19. WaitsForChange'
  BY <1>1, <1>2, <1>6, <1>7, <1>9, <1>11 DEF WaitsForChange
<1> QED BY <1>16, <1>17, <1>18, <1>19

-----------------------------------------------------------------------------
(* The order of times is kept by every step *)

LEMMA OrderInit == Init => OrderInv
<1> SUFFICES ASSUME Init PROVE OrderInv
  OBVIOUS
<1>1. /\ pool = <<>> /\ allNext = NULL /\ active = <<>> /\ delayed = <<>> /\ frames = <<>>
      /\ now = TimeOf(0, FALSE) /\ phase = "read"
  BY DEF Init
<1>2. ToSet(<<>>) = {} /\ DOMAIN <<>> = {} /\ Len(<<>>) = 0
  BY DEF ToSet
<1>3. Live = {} /\ Undelayed = {}
  BY <1>1, <1>2 DEF Live, Undelayed
<1>4. Full(now) = 0 /\ ~now.final /\ 0 < Word /\ 0 <= MaxTime
  <2>1. 0 \in Nat /\ 0 < Word /\ FALSE \in BOOLEAN /\ 0 <= MaxTime
    BY WordAssumption, DesignAssumption
  <2> QED BY <1>1, <2>1, OneWord
<1>5. Times
  <2>1. DelayedInOrder /\ NoneOverdue
    BY <1>1, <1>2 DEF DelayedInOrder, NoneOverdue
  <2> QED BY <1>1, <1>2, <1>3, <1>4, <2>1 DEF Times
<1>6. TimelyLast /\ WaitsForChange
  BY <1>3 DEF TimelyLast, Timely, WaitsForChange
<1>7. CallsShareTime /\ ContinuousAlone
  BY <1>1, <1>2, <1>3 DEF CallsShareTime, ContinuousAlone
<1> QED BY <1>5, <1>6, <1>7 DEF OrderInv

LEMMA OrderNext ==
  ASSUME StructuredDesign, TimelyDesign, ThreadsInv, Undisturbed, OrderInv, [Next]_vars
  PROVE  OrderInv'
<1>1. CASE StartBlock
  BY <1>1, StartBlockKeepsOrder
<1>2. CASE EndRead \/ (\E n \in 0..MaxTime : Timestep(n)) \/ FinalTimestep
  BY <1>2, TimestepKeepsOrder
<1>3. CASE EndPass
  BY <1>3, EndPassKeepsOrder
<1>4. CASE PopDelayed
  BY <1>4, PopDelayedKeepsOrder
<1>5. CASE PostAssign
  BY <1>5, PostAssignKeepsOrder
<1>6. CASE BeginThread
  BY <1>6, BeginThreadKeepsOrder
<1>7. CASE CallFunction
  BY <1>7, CallFunctionKeepsOrder
<1>8. CASE ExecAssign \/ ExecEvent \/ ExecDelayEnd \/ ExecJoin \/ ExecDisable \/ ExecFinish
  BY <1>8, PlainKeepsOrder
<1>9. CASE ExecDelayStart
  BY <1>9, DelayStartKeepsOrder
<1>10. CASE ExecCall \/ ExecFork
  BY <1>10, SpawnKeepsOrder
<1>11. CASE EndThread
  BY <1>11, EndThreadKeepsOrder
<1>12. CASE SwitchThread
  BY <1>12, SwitchKeepsOrder
<1>13. CASE Terminated \/ UNCHANGED vars
  <2>1. UNCHANGED vars
    BY <1>13 DEF Terminated
  <2>2. UNCHANGED <<pool, allNext>> /\ thr' = thr /\ frames' = frames /\ delayed' = delayed
        /\ active' = active /\ now' = now /\ phase' = phase
    BY <2>1 DEF vars
  <2>3. Live' = Live /\ Undelayed' = Undelayed
    BY <2>2, PoolEqual DEF Undelayed
  <2>4. Timely' = Timely
    BY <2>2, <2>3 DEF Timely
  <2>5. Times' /\ TimelyLast'
    BY <2>2, <2>3, <2>4
    DEF OrderInv, Times, TimelyLast, Latest, Clock, DelayedInOrder, NoneOverdue
  <2>6. CallsShareTime' /\ ContinuousAlone' /\ WaitsForChange'
    BY <2>2, <2>3 DEF OrderInv, CallsShareTime, ContinuousAlone, WaitsForChange
  <2> QED BY <2>5, <2>6 DEF OrderInv
<1> QED BY <1>1, <1>2, <1>3, <1>4, <1>5, <1>6, <1>7, <1>8, <1>9, <1>10, <1>11, <1>12, <1>13
        DEF Next, Simulate, SimThread

(* What runs, what waits and what is delayed keep the order of their times  *)
(* in every design whose times fit in one word, whatever the dumpfile and   *)
(* however many threads there are.                                          *)
THEOREM OrderAlways ==
  ASSUME StructuredDesign, TimelyDesign
  PROVE  Spec => []OrderInv
<1>1. Init => OrderInv
  BY OrderInit
<1>2. ThreadsInv /\ Undisturbed /\ OrderInv /\ [Next]_vars => OrderInv'
  BY OrderNext
<1> QED BY <1>1, <1>2, ThreadsAlways, PTL DEF Spec

(* Threads are served in the order of their times: the delayed queue is     *)
(* "in simulation time order" and nothing that may run is later than a      *)
(* delay that is still to end.                                              *)
THEOREM TimesAlways ==
  ASSUME StructuredDesign, TimelyDesign
  PROVE  Spec => []TimesInOrder
<1>1. ThreadsInv /\ OrderInv => TimesInOrder
  <2> SUFFICES ASSUME ThreadsInv, OrderInv PROVE TimesInOrder
    OBVIOUS
  <2>1. ToSet(active) \subseteq Undelayed
    BY DEF ThreadsInv, Placed, Undelayed
  <2>2. /\ \A i \in DOMAIN active : active[i] \in ToSet(active)
        /\ \A i \in DOMAIN delayed : delayed[i] \in ToSet(delayed)
    BY DEF ToSet
  <2>3. ActiveBeforeDelayed
    BY <2>1, <2>2 DEF OrderInv, Times, ActiveBeforeDelayed, Clock
  <2> QED BY <2>3 DEF OrderInv, Times, TimesInOrder
<1> QED BY <1>1, ThreadsAlways, OrderAlways, PTL

(* No timestep ends with a delay that is due: sim_simulate serves them all  *)
(* before the assignments at the end of the timestep.                       *)
THEOREM OverdueAlways ==
  ASSUME StructuredDesign, TimelyDesign
  PROVE  Spec => []NoneOverdue
<1>1. OrderInv => NoneOverdue
  BY DEF OrderInv, Times
<1> QED BY <1>1, OrderAlways, PTL

(* Only the second loop of sim_simulate takes a thread off the delayed      *)
(* queue.                                                                   *)
LEMMA DelayedStay ==
  ASSUME ThreadsInv, ThreadsInv', [Next]_vars, ~PopDelayed
  PROVE  \A t \in Thread : thr[t].state = "DELAYED" => thr'[t].state = "DELAYED"
<1>1. Placed /\ Placed' /\ delayed \in Seq(Thread)
  BY DEF ThreadsInv, TypeOK
<1>2. SUFFICES ToSet(delayed) \subseteq ToSet(delayed')
  BY <1>1 DEF Placed
<1>3. ASSUME NEW t \in Thread, NEW tm, delayed' = Insert(delayed, t, tm)
      PROVE  ToSet(delayed) \subseteq ToSet(delayed')
  <2>1. InsertPos(delayed, tm) + 1 \in 1..(Len(delayed) + 1)
    BY <1>1, InsertPosType
  <2> QED BY <1>1, <1>3, <2>1, InsertDistinct DEF Insert
<1>4. CASE StartBlock
  BY <1>3, <1>4 DEF StartBlock, StartDelayed, StartActive
<1>5. CASE ExecDelayStart
  <2>1. Executing({"DELAY"})
    BY <1>5 DEF ExecDelayStart, Evaluating
  <2>2. Top.thr \in Thread
    BY <2>1, ExecutingType DEF ThreadsInv
  <2> QED BY <1>3, <1>5, <2>2 DEF ExecDelayStart
<1>6. CASE delayed' = delayed
  BY <1>6
<1> QED BY <1>4, <1>5, <1>6
    DEF Next, Simulate, SimThread, EndRead, Timestep, FinalTimestep, EndPass, PostAssign,
        Terminated, vars, BeginThread, CallFunction, ExecAssign, ExecEvent, ExecDelayEnd,
        ExecCall, ExecFork, ExecJoin, ExecDisable, ExecFinish, EndThread, SwitchThread

(* A final block starts in the last pass, when only final blocks are left.  *)
THEOREM FinalBlocksAlways ==
  ASSUME StructuredDesign, TimelyDesign
  PROVE  Spec => FinalBlocksLast
<1> DEFINE FinalStart == \A t \in Thread :
             thr[t].state = "DELAYED" /\ thr'[t].state = "ACTIVE" /\ thr[t].time = FinalTime
               => now = FinalTime /\ \A i \in DOMAIN delayed : thr[delayed[i]].time = FinalTime
<1>1. ThreadsInv /\ OrderInv /\ ThreadsInv' /\ [Next]_vars => FinalStart
  <2> SUFFICES ASSUME ThreadsInv, OrderInv, ThreadsInv', [Next]_vars, NEW t \in Thread,
                      thr[t].state = "DELAYED", thr'[t].state = "ACTIVE", thr[t].time = FinalTime
               PROVE  now = FinalTime /\ \A i \in DOMAIN delayed : thr[delayed[i]].time = FinalTime
    OBVIOUS
  <2>1. PopDelayed
    BY DelayedStay
  <2> DEFINE h == Head(delayed)
  <2>2. /\ TypeOK /\ Placed /\ Times /\ now \in SimTime /\ thr \in [Thread -> ThreadRec]
        /\ delayed \in Seq(Thread) /\ delayed # <<>> /\ Distinct(delayed)
        /\ TimeCmpLE(thr[h].time, now) /\ thr' = [thr EXCEPT ![h].state = "ACTIVE"]
    BY <2>1 DEF PopDelayed, Due, ThreadsInv, TypeOK, Placed, OrderInv
  <2>3. h = delayed[1] /\ Len(delayed) >= 1 /\ DOMAIN delayed = 1..Len(delayed) /\ h \in Thread
    BY <2>2, TailDistinct
  <2>4. t = h
    BY <2>2, <2>3
  <2>5. Word > 1 /\ FinalTime \in SimTime
    BY FinalTimeType DEF TimelyDesign
  <2>6. Full(FinalTime) <= Full(now)
    BY <2>2, <2>4, <2>5, TimeCmpLECorrect
  <2>7. now = FinalTime
    <3>1. Full(now) \in Nat /\ Full(FinalTime) \in Nat
      BY <2>2, <2>5, FullType
    <3>2. Full(now) < Word => Full(now) < Full(FinalTime)
      BY <2>2, <2>5, FinalIsLast
    <3> QED BY <2>2, <2>6, <3>1, <3>2 DEF Times
  <2>8. ASSUME NEW i \in DOMAIN delayed PROVE thr[delayed[i]].time = FinalTime
    <3>1. /\ Ordinary(thr[delayed[i]].time) /\ thr[delayed[i]].time \in SimTime
      BY <2>2, DelayedTimes DEF Ordinary
    <3>2. Full(FinalTime) <= Full(thr[delayed[i]].time)
      <4>1. 1 \in DOMAIN delayed /\ (i = 1 \/ 1 < i)
        BY <2>3
      <4>2. Full(thr[delayed[1]].time) = Full(FinalTime) /\ Full(FinalTime) \in Nat
        BY <2>3, <2>4, <2>5, FullType
      <4>3. 1 < i => Full(thr[delayed[1]].time) <= Full(thr[delayed[i]].time)
        BY <2>2, <4>1 DEF Times, DelayedInOrder
      <4> QED BY <4>1, <4>2, <4>3
    <3>3. ~(Full(thr[delayed[i]].time) < Word)
      <4>1. Full(thr[delayed[i]].time) < Word => Full(thr[delayed[i]].time) < Full(FinalTime)
        BY <2>5, <3>1, FinalIsLast
      <4>2. Full(thr[delayed[i]].time) \in Nat /\ Full(FinalTime) \in Nat
        BY <2>5, <3>1, FullType
      <4> QED BY <3>2, <4>1, <4>2
    <3> QED BY <3>1, <3>3 DEF Ordinary
  <2> QED BY <2>7, <2>8
<1>2. [][FinalStart]_vars <=> FinalBlocksLast
  BY DEF FinalBlocksLast
<1> HIDE DEF FinalStart
<1> QED BY <1>1, <1>2, ThreadsAlways, OrderAlways, PTL DEF Spec
=============================================================================
