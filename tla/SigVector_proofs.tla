-------------------------- MODULE SigVector_proofs --------------------------
(****************************************************************************)
(* Toggle coverage is exact for vectors of any width, unsigned longs of any *)
(* size and any number of assignments; and, at the end of the module, so is *)
(* what an expression of one operator records of its evaluations (ExprOp).  *)
(****************************************************************************)
EXTENDS SigVector, TLAPS

(* The planes hold bits of the vector, and the history its values. *)
Shape ==
  /\ is_2state \in BOOLEAN /\ net \in BOOLEAN /\ set \in BOOLEAN
  /\ ~(is_2state /\ net)
  /\ vall \subseteq Bits /\ valh \subseteq Bits
  /\ last \in [Bits -> {"none", "0", "1"}]
  /\ is_2state => valh = {}

(* A bit of a four-valued vector that is 0 or 1 was assigned. *)
Known == ~is_2state => Bits \ valh \subseteq misc

IInv == Shape /\ Known /\ HoldsLast /\ TogglesExact

(* What an assignment may be given: bits of the assigned part. *)
Input(fl, fh, lsb, msb) ==
  /\ lsb..msb \subseteq Bits
  /\ fl \subseteq lsb..msb /\ fh \subseteq lsb..msb
  /\ is_2state => fh = {}

(* The masks of the elements that differ lie in the assigned part and leave *)
(* out no bit that changes.                                                 *)
LEMMA AssignedBits ==
  ASSUME NEW fl, NEW fh, NEW lsb, NEW msb
  PROVE  /\ Assigned(fl, fh, lsb, msb) \subseteq lsb..msb
         /\ \A b \in lsb..msb : b \notin Assigned(fl, fh, lsb, msb) =>
              (b \in fl <=> b \in vall) /\ (b \in fh <=> b \in valh)
<1> DEFINE M(i) == Mask(i, lsb, msb)
<1>1. \A i : M(i) \subseteq lsb..msb
  BY DEF Mask
<1>2. ASSUME NEW b \in lsb..msb, b \notin Assigned(fl, fh, lsb, msb)
      PROVE  (b \in fl <=> b \in vall) /\ (b \in fh <=> b \in valh)
  <2> DEFINE i == b \div UL_BITS
  <2>1. b \in M(i)
    BY DEF Mask
  <2>2. ~Differs(fl, fh, M(i))
    BY <1>2, <2>1 DEF Assigned
  <2> QED BY <2>1, <2>2 DEF Differs
<1> QED BY <1>1, <1>2 DEF Assigned

(* The toggles of one assignment are those of the history. *)
LEMMA AssignToggles ==
  ASSUME NEW fl, NEW fh, NEW lsb, NEW msb, IInv, Input(fl, fh, lsb, msb),
         Assign(fl, fh, lsb, msb)
  PROVE  TogglesExact'
<1> DEFINE m == Assigned(fl, fh, lsb, msb)
           R == lsb..msb
<1>1. /\ m \subseteq R /\ R \subseteq Bits
      /\ \A b \in R \ m : (b \in fl <=> b \in vall) /\ (b \in fh <=> b \in valh)
  BY AssignedBits DEF Input
<1>2. /\ tog01' = IF type = "MEM" \/ set THEN tog01 \cup Goes01(fl, fh, m) ELSE tog01
      /\ tog10' = IF type = "MEM" \/ set THEN tog10 \cup Goes10(fl, fh, m) ELSE tog10
  BY DEF Assign, SetCoverageAndAssign
<1>3. /\ rose' = rose \cup {b \in IF type = "MEM" \/ set THEN R \ (vall \cap valh) ELSE {} :
                                last[b] = "0" /\ b \in fl \ fh}
      /\ fell' = fell \cup {b \in IF type = "MEM" \/ set THEN R \ (vall \cap valh) ELSE {} :
                                last[b] = "1" /\ b \notin fl \cup fh}
  BY DEF Assign, Recorded
<1>4. ASSUME NEW b \in Bits
      PROVE  b \in Goes01(fl, fh, m) <=> (b \in R \ (vall \cap valh) /\ last[b] = "0" /\ b \in fl \ fh)
  <2>1. CASE b \notin valh
    BY <2>1, <1>1 DEF IInv, HoldsLast, Goes01, Tvalx
  <2>2. CASE b \in valh
    BY <2>2, <1>1 DEF IInv, Shape, HoldsLast, Goes01, Tvalx
  <2> QED BY <2>1, <2>2
<1>5. ASSUME NEW b \in Bits
      PROVE  b \in Goes10(fl, fh, m) <=> (b \in R \ (vall \cap valh) /\ last[b] = "1" /\ b \notin fl \cup fh)
  <2>1. CASE b \notin valh
    BY <2>1, <1>1 DEF IInv, HoldsLast, Goes10, Tvalx
  <2>2. CASE b \in valh
    BY <2>2, <1>1 DEF IInv, HoldsLast, Goes10, Tvalx
  <2> QED BY <2>1, <2>2
<1>6. Goes01(fl, fh, m) \subseteq Bits /\ Goes10(fl, fh, m) \subseteq Bits
  BY <1>1 DEF Goes01, Goes10
<1>7. CASE type = "MEM" \/ set
  <2>1. Goes01(fl, fh, m) = {b \in R \ (vall \cap valh) : last[b] = "0" /\ b \in fl \ fh}
    BY <1>1, <1>4, <1>6
  <2>2. Goes10(fl, fh, m) = {b \in R \ (vall \cap valh) : last[b] = "1" /\ b \notin fl \cup fh}
    BY <1>1, <1>5, <1>6
  <2> QED BY <1>2, <1>3, <1>7, <2>1, <2>2 DEF IInv, TogglesExact
<1>8. CASE ~(type = "MEM" \/ set)
  BY <1>2, <1>3, <1>8 DEF IInv, TogglesExact
<1> QED BY <1>7, <1>8

(* XHOLD and MISC still tell what the history tells of an x. *)
LEMMA AssignHolds ==
  ASSUME NEW fl, NEW fh, NEW lsb, NEW msb, IInv, Input(fl, fh, lsb, msb),
         Assign(fl, fh, lsb, msb), UNCHANGED kind
  PROVE  Shape' /\ Known' /\ HoldsLast'
<1> DEFINE m == Assigned(fl, fh, lsb, msb)
           R == lsb..msb
<1>1. /\ m \subseteq R /\ R \subseteq Bits /\ fl \subseteq R /\ fh \subseteq R
      /\ \A b \in R \ m : (b \in fl <=> b \in vall) /\ (b \in fh <=> b \in valh)
  BY AssignedBits DEF Input
<1>2. /\ vall' = (vall \ m) \cup (fl \cap m)
      /\ valh' = (valh \ m) \cup (fh \cap m)
      /\ xhold' = (xhold \ (m \ valh)) \cup (vall \cap (m \ valh))
      /\ misc' = misc \cup (m \ fh)
      /\ set' = TRUE
  BY DEF Assign, SetCoverageAndAssign, Hold
<1>3. last' = [b \in Bits |-> IF b \in R \ fh THEN (IF b \in fl THEN "1" ELSE "0") ELSE last[b]]
  BY DEF Assign, Recorded
<1>4. Shape'
  <2>1. last' \in [Bits -> {"none", "0", "1"}]
    BY <1>3 DEF IInv, Shape
  <2>2. is_2state' = is_2state /\ net' = net
    BY DEF kind
  <2> QED BY <1>1, <1>2, <2>1, <2>2 DEF IInv, Shape, Input, Bits
<1>5. ASSUME NEW b \in Bits
      PROVE  /\ b \notin valh' => last'[b] = (IF b \in vall' THEN "1" ELSE "0")
             /\ b \in valh' => (b \in misc' <=> last'[b] # "none")
             /\ (b \in valh' /\ b \in misc') => (b \in xhold' <=> last'[b] = "1")
  <2>1. last'[b] = IF b \in R \ fh THEN (IF b \in fl THEN "1" ELSE "0") ELSE last[b]
    BY <1>3
  <2>2. /\ b \notin valh => last[b] = (IF b \in vall THEN "1" ELSE "0")
        /\ b \in valh => (b \in misc <=> last[b] # "none")
        /\ (b \in valh /\ b \in misc) => (b \in xhold <=> last[b] = "1")
    BY DEF IInv, HoldsLast
  <2>3. CASE b \notin m
    BY <1>1, <1>2, <2>1, <2>2, <2>3
  <2>4. CASE b \in m /\ b \notin fh
    BY <1>1, <1>2, <2>1, <2>2, <2>4
  <2>5. CASE b \in m /\ b \in fh /\ b \in valh
    BY <1>1, <1>2, <2>1, <2>2, <2>5
  <2>6. CASE b \in m /\ b \in fh /\ b \notin valh
    <3>1. b \in misc
      BY <2>6 DEF IInv, Known, Input
    <3> QED BY <1>1, <1>2, <2>1, <2>2, <2>6, <3>1
  <2> QED BY <2>3, <2>4, <2>5, <2>6
<1>6. HoldsLast'
  BY <1>5 DEF HoldsLast, Bits
<1>7. Known'
  BY <1>1, <1>2 DEF IInv, Known, Bits, kind
<1> QED BY <1>4, <1>6, <1>7

LEMMA AssignPreserves ==
  ASSUME NEW fl, NEW fh, NEW lsb, NEW msb, IInv, Input(fl, fh, lsb, msb),
         Assign(fl, fh, lsb, msb), UNCHANGED kind
  PROVE  IInv'
BY AssignToggles, AssignHolds DEF IInv

LEMMA InitEstablishes ==
  ASSUME Init
  PROVE  IInv
<1>1. is_2state \in BOOLEAN /\ net \in BOOLEAN /\ ~(is_2state /\ net)
  BY KindAssumption DEF Init
<1>2. Shape
  BY <1>1 DEF Init, Shape, FreshLow, FreshHigh, FreshLast
<1>3. HoldsLast
  BY <1>1 DEF Init, HoldsLast, FreshLow, FreshHigh, FreshLast
<1>4. Known
  BY DEF Init, Known, FreshHigh
<1>5. TogglesExact
  BY DEF Init, TogglesExact
<1> QED BY <1>2, <1>3, <1>4, <1>5 DEF IInv

(* Writing the file puts the vector of the design back. *)
LEMMA WritePreserves ==
  ASSUME IInv, Write
  PROVE  IInv'
<1>1. is_2state' = is_2state /\ net' = net
  BY DEF Write, kind
<1>2. Shape'
  BY <1>1 DEF IInv, Write, Shape, FreshLow, FreshHigh, FreshLast, Bits
<1>3. HoldsLast'
  BY <1>1 DEF IInv, Shape, Write, HoldsLast, FreshLow, FreshHigh, FreshLast, Bits
<1>4. Known'
  BY <1>1 DEF Write, Known, FreshHigh, Bits
<1>5. TogglesExact'
  BY DEF Write, TogglesExact
<1> QED BY <1>2, <1>3, <1>4, <1>5 DEF IInv

(* The parts of a pattern are an input of the assignment. *)
LEMMA PatternInput ==
  ASSUME IInv, NEW p \in Patterns, NEW lsb \in Bits, NEW msb \in lsb..(Width - 1),
         is_2state => High(p, lsb..msb) = {}
  PROVE  Input(Low(p, lsb..msb), High(p, lsb..msb), lsb, msb)
<1>1. lsb..msb \subseteq Bits
  BY WidthAssumption DEF Bits
<1> QED BY <1>1 DEF Input, Low, High

LEMMA VcdPreserves ==
  ASSUME IInv, VcdStep
  PROVE  IInv'
<1>0. PICK p \in Patterns, lsb \in Bits : \E msb \in lsb..(Width - 1) : \E n \in 1..Digits :
        /\ n <= (msb - lsb) + 1
        /\ is_2state => High(p, 0..(n - 1)) = {}
        /\ VcdAssign([i \in 1..n |-> p[n - i]], msb, lsb)
  BY DEF VcdStep
<1>1. PICK msb \in lsb..(Width - 1), n \in 1..Digits :
        /\ n <= (msb - lsb) + 1
        /\ is_2state => High(p, 0..(n - 1)) = {}
        /\ VcdAssign([i \in 1..n |-> p[n - i]], msb, lsb)
  BY <1>0
<1> DEFINE digits == [i \in 1..n |-> p[n - i]]
           bit(b) == Digit(digits, b - lsb)
           fl == {b \in lsb..msb : bit(b) \in {"1", "z"}}
           fh == {b \in lsb..msb : bit(b) \in {"x", "z"}}
<1>2. lsb..msb \subseteq Bits
  BY WidthAssumption DEF Bits
<1>3. n \in Nat /\ n >= 1 /\ Len(digits) = n
  OBVIOUS
<1>4. ASSUME is_2state, NEW b \in lsb..msb
      PROVE  bit(b) \notin {"x", "z"}
  <2>1. \A c \in 0..(n - 1) : p[c] \notin {"x", "z"}
    BY <1>1, <1>4 DEF High
  <2>2. \A i \in 1..n : n - i \in 0..(n - 1) /\ digits[i] = p[n - i]
    BY <1>3
  <2>3. \A i \in 1..n : digits[i] \notin {"x", "z"}
    BY <2>1, <2>2
  <2>4. b - lsb \in Nat /\ (b - lsb < n => n - (b - lsb) \in 1..n) /\ 1 \in 1..n
    BY <1>2, <1>3 DEF Bits
  <2> HIDE DEF digits
  <2>5. CASE b - lsb < n
    BY <2>3, <2>4, <2>5, <1>3 DEF Digit
  <2>6. CASE ~(b - lsb < n)
    BY <2>3, <2>4, <2>6, <1>3 DEF Digit
  <2> QED BY <2>5, <2>6
<1>5. Input(fl, fh, lsb, msb)
  <2> HIDE DEF bit
  <2> QED BY <1>2, <1>4 DEF Input
<1>6. Assign(fl, fh, lsb, msb)
  BY <1>1 DEF VcdAssign
<1>7. UNCHANGED kind
  BY DEF VcdStep, Simulates
<1> HIDE DEF fl, fh
<1> QED BY <1>5, <1>6, <1>7, AssignPreserves

LEMMA SetPreserves ==
  ASSUME IInv, SetStep
  PROVE  IInv'
<1>1. PICK p \in Patterns, width \in 1..Width : SetValue(Low(p, Bits), High(p, Bits), width)
  BY DEF SetStep
<1> DEFINE v == TwoState(Low(p, Bits), High(p, Bits))
           fl == v[1] \cap 0..(width - 1)
           fh == v[2] \cap 0..(width - 1)
<1>2. 0..(width - 1) \subseteq Bits
  BY WidthAssumption DEF Bits
<1>3. is_2state => fh = {}
  BY DEF TwoState
<1>4. Input(fl, fh, 0, Width - 1)
  BY <1>2, <1>3 DEF Input, Bits
<1>5. Assign(fl, fh, 0, Width - 1)
  BY <1>1 DEF SetValue
<1>6. UNCHANGED kind
  BY DEF SetStep, Simulates
<1> HIDE DEF fl, fh
<1> QED BY <1>4, <1>5, <1>6, AssignPreserves

LEMMA PushPreserves ==
  ASSUME IInv, PushStep
  PROVE  IInv'
<1>0. PICK p \in Patterns, lsb \in Bits : \E msb \in lsb..(Width - 1) :
        /\ is_2state => High(p, lsb..msb) = {}
        /\ Assign(Low(p, lsb..msb), High(p, lsb..msb), lsb, msb)
  BY DEF PushStep
<1>1. PICK msb \in lsb..(Width - 1) :
        /\ is_2state => High(p, lsb..msb) = {}
        /\ Assign(Low(p, lsb..msb), High(p, lsb..msb), lsb, msb)
  BY <1>0
<1>2. UNCHANGED kind
  BY DEF PushStep, Simulates
<1> QED BY <1>1, <1>2, PatternInput, AssignPreserves

(* A step that moves neither the vector nor its history. *)
LEMMA OtherPreserves ==
  ASSUME IInv, UNCHANGED <<kind, value, tog01, tog10, last, rose, fell>>
  PROVE  IInv'
BY DEF IInv, Shape, Known, HoldsLast, TogglesExact, kind, value, Bits

LEMMA NextPreserves ==
  ASSUME IInv, [Next]_vars
  PROVE  IInv'
<1>1. CASE VcdStep
  BY <1>1, VcdPreserves
<1>2. CASE SetStep
  BY <1>2, SetPreserves
<1>3. CASE PushStep
  BY <1>3, PushPreserves
<1>4. CASE ReadStep
  BY <1>4, OtherPreserves DEF ReadStep, Simulates
<1>5. CASE Write
  BY <1>5, WritePreserves
<1>6. CASE MergeRead
  BY <1>6, OtherPreserves DEF MergeRead, cover, history
<1>7. CASE MergeNext
  BY <1>7, OtherPreserves DEF MergeNext, cover, history
<1>8. CASE UNCHANGED vars
  BY <1>8, OtherPreserves DEF vars, cover, history
<1> QED BY <1>1, <1>2, <1>3, <1>4, <1>5, <1>6, <1>7, <1>8 DEF Next

(* Toggle coverage is exact: after any series of assignments of any parts   *)
(* of a vector of any width, the toggled bits are those that went from one  *)
(* known value to the other, directly or through x.                         *)
THEOREM TogglesAreExact == Spec => []TogglesExact
<1>1. Init => IInv
  BY InitEstablishes
<1>2. IInv /\ [Next]_vars => IInv'
  BY NextPreserves
<1>3. IInv => TogglesExact
  BY DEF IInv
<1> QED BY <1>1, <1>2, <1>3, PTL DEF Spec

(* XHOLD and MISC hold what an x was, for every vector and every history.   *)
THEOREM HeldValuesAreLast == Spec => []HoldsLast
<1>1. Init => IInv
  BY InitEstablishes
<1>2. IInv /\ [Next]_vars => IInv'
  BY NextPreserves
<1>3. IInv => HoldsLast
  BY DEF IInv
<1> QED BY <1>1, <1>2, <1>3, PTL DEF Spec

-----------------------------------------------------------------------------
(* The files *)

Planes == [tog01 : SUBSET Int, tog10 : SUBSET Int, wr : SUBSET Int, rd : SUBSET Int]
Truths == [rose : SUBSET Int, fell : SUBSET Int, touched : SUBSET Int, altered : SUBSET Int,
           fetched : SUBSET Int]

(* Each file holds the toggles of its simulation. *)
FilesMatch ==
  /\ cdd \in Seq(Planes) /\ truth \in Seq(Truths) /\ Len(cdd) = Len(truth)
  /\ merged \in 0..Len(cdd)
  /\ base \in Planes
  /\ \A i \in 1..Len(cdd) : cdd[i].tog01 = truth[i].rose /\ cdd[i].tog10 = truth[i].fell

CoverShape == DbWrite \in Planes /\ touched \subseteq Int /\ altered \subseteq Int /\ fetched \subseteq Int

IInvFiles == IInv /\ CoverShape /\ FilesMatch /\ MergedExact

(* A simulation step leaves the files alone and adds bits to the planes.    *)
LEMMA AssignShape ==
  ASSUME NEW fl, NEW fh, NEW lsb, NEW msb, CoverShape, lsb..msb \subseteq Bits, Assign(fl, fh, lsb, msb)
  PROVE  CoverShape'
<1> DEFINE m == Assigned(fl, fh, lsb, msb)
<1>1. m \subseteq Int /\ Bits \subseteq Int /\ lsb..msb \subseteq Int
  BY AssignedBits DEF Bits
<1>2. Goes01(fl, fh, m) \subseteq m /\ Goes10(fl, fh, m) \subseteq m
  BY DEF Goes01, Goes10
<1>3. tog01' \subseteq Int /\ tog10' \subseteq Int /\ wr' \subseteq Int /\ rd' \subseteq Int
  BY <1>1, <1>2 DEF CoverShape, DbWrite, Planes, Assign, SetCoverageAndAssign, Written
<1>4. touched' \subseteq Int /\ altered' \subseteq Int /\ fetched' \subseteq Int
  BY <1>1 DEF CoverShape, Assign, Recorded
<1> QED BY <1>3, <1>4 DEF CoverShape, DbWrite, Planes

LEMMA SimulationKeepsFiles ==
  ASSUME IInvFiles, VcdStep \/ SetStep \/ PushStep \/ ReadStep
  PROVE  CoverShape' /\ FilesMatch' /\ MergedExact'
<1>1. UNCHANGED <<cdd, base, merged, truth>>
  BY DEF VcdStep, SetStep, PushStep, ReadStep, Simulates
<1>2. FilesMatch' /\ MergedExact'
  BY <1>1 DEF IInvFiles, FilesMatch, MergedExact
<1>3. \A lsb \in Bits : \A msb \in lsb..(Width - 1) : lsb..msb \subseteq Bits
  BY WidthAssumption DEF Bits
<1>0. CoverShape
  BY DEF IInvFiles
<1>4. CASE VcdStep
  <2>1. PICK lsb \in Bits : \E msb \in lsb..(Width - 1) : \E n, p : VcdAssign([i \in 1..n |-> p[n - i]], msb, lsb)
    BY <1>4 DEF VcdStep
  <2>2. PICK msb \in lsb..(Width - 1) : \E n, p : VcdAssign([i \in 1..n |-> p[n - i]], msb, lsb)
    BY <2>1
  <2>3. PICK fl, fh : Assign(fl, fh, lsb, msb)
    BY <2>2 DEF VcdAssign
  <2>4. lsb..msb \subseteq Bits
    BY <1>3
  <2> QED BY <1>0, <1>2, <2>3, <2>4, AssignShape
<1>5. CASE SetStep
  <2>1. PICK fl, fh : Assign(fl, fh, 0, Width - 1)
    BY <1>5 DEF SetStep, SetValue
  <2>2. 0..(Width - 1) \subseteq Bits
    BY DEF Bits
  <2> QED BY <1>0, <1>2, <2>1, <2>2, AssignShape
<1>6. CASE PushStep
  <2>1. PICK lsb \in Bits : \E msb \in lsb..(Width - 1) : \E fl, fh : Assign(fl, fh, lsb, msb)
    BY <1>6 DEF PushStep
  <2>2. PICK msb \in lsb..(Width - 1) : \E fl, fh : Assign(fl, fh, lsb, msb)
    BY <2>1
  <2>3. PICK fl, fh : Assign(fl, fh, lsb, msb)
    BY <2>2
  <2>4. lsb..msb \subseteq Bits
    BY <1>3
  <2> QED BY <1>0, <1>2, <2>3, <2>4, AssignShape
<1>7. CASE ReadStep
  <2>1. PICK e \in 0..((Width \div Element) - 1) :
          /\ rd' = SetMemRd((e + 1) * Element - 1, e * Element)
          /\ fetched' = fetched \cup {e}
    BY <1>7 DEF ReadStep
  <2>2. rd' \subseteq Int /\ fetched' \subseteq Int
    BY <2>1 DEF SetMemRd, Mask, IInvFiles, CoverShape, DbWrite, Planes
  <2>3. UNCHANGED <<tog01, tog10, wr, touched, altered>>
    BY <1>7 DEF ReadStep
  <2>4. tog01' \subseteq Int /\ tog10' \subseteq Int /\ wr' \subseteq Int /\ touched' \subseteq Int /\ altered' \subseteq Int
    BY <1>0, <2>3 DEF CoverShape, DbWrite, Planes
  <2> QED BY <1>2, <2>2, <2>4 DEF CoverShape, DbWrite, Planes
<1> QED BY <1>2, <1>4, <1>5, <1>6, <1>7

LEMMA WriteKeepsFiles ==
  ASSUME IInvFiles, Write
  PROVE  CoverShape' /\ FilesMatch' /\ MergedExact'
<1> DEFINE t == [rose |-> rose, fell |-> fell, touched |-> touched, altered |-> altered, fetched |-> fetched]
<1>1. /\ cdd' = Append(cdd, DbWrite) /\ truth' = Append(truth, t)
      /\ merged = 0 /\ UNCHANGED <<merged, base>>
  BY DEF Write
<1>2. DbWrite.tog01 = t.rose /\ DbWrite.tog10 = t.fell
  BY DEF IInvFiles, IInv, TogglesExact, DbWrite
<1>3. DbWrite \in Planes /\ t \in Truths
  BY <1>2 DEF IInvFiles, CoverShape, Planes, Truths, DbWrite
<1>4. cdd' \in Seq(Planes) /\ truth' \in Seq(Truths) /\ Len(cdd') = Len(cdd) + 1 /\ Len(truth') = Len(cdd')
  BY <1>1, <1>3 DEF IInvFiles, FilesMatch
<1>5. \A i \in 1..Len(cdd') : cdd'[i].tog01 = truth'[i].rose /\ cdd'[i].tog10 = truth'[i].fell
  <2> TAKE i \in 1..Len(cdd')
  <2>1. CASE i = Len(cdd')
    BY <1>1, <1>2, <1>4, <2>1 DEF IInvFiles, FilesMatch
  <2>2. CASE i # Len(cdd')
    <3>1. i \in 1..Len(cdd) /\ cdd'[i] = cdd[i] /\ truth'[i] = truth[i]
      BY <1>1, <1>4, <2>2 DEF IInvFiles, FilesMatch
    <3> QED BY <3>1 DEF IInvFiles, FilesMatch
  <2> QED BY <2>1, <2>2
<1>6. FilesMatch'
  BY <1>1, <1>4, <1>5 DEF IInvFiles, FilesMatch
<1>7. MergedExact'
  BY <1>1 DEF MergedExact
<1>8. CoverShape'
  BY DEF Write, CoverShape, DbWrite, Planes
<1> QED BY <1>6, <1>7, <1>8

LEMMA MergeKeepsFiles ==
  ASSUME IInvFiles, MergeRead \/ MergeNext, FileBits = UL_BITS
  PROVE  CoverShape' /\ FilesMatch' /\ MergedExact'
<1>1. /\ UNCHANGED <<cover, cdd, history, truth>>
      /\ merged' = merged + 1 /\ merged' \in 1..Len(cdd)
  BY BoundAssumption DEF MergeRead, MergeNext, IInvFiles, FilesMatch
<1>2. CoverShape'
  BY <1>1 DEF IInvFiles, CoverShape, DbWrite, Planes, cover, history
<1>3. \A plane : {Place(b) : b \in plane} = plane
  BY DEF Place
<1>4. cdd[merged'] \in Planes /\ cdd[merged'].tog01 = truth[merged'].rose
      /\ cdd[merged'].tog10 = truth[merged'].fell
  BY <1>1 DEF IInvFiles, FilesMatch
<1>5. /\ DOMAIN base = {"tog01", "tog10", "wr", "rd"}
      /\ base' = [p \in DOMAIN base |-> (IF merged = 0 THEN {} ELSE base[p]) \cup cdd[merged'][p]]
  <2>1. DOMAIN base = {"tog01", "tog10", "wr", "rd"}
    BY DEF IInvFiles, FilesMatch, Planes
  <2>2. CASE MergeRead
    <3>1. merged = 0 /\ merged' = 1 /\ base' = [p \in DOMAIN base |-> DbRead(cdd[1][p])]
      BY <2>2 DEF MergeRead
    <3> QED BY <1>3, <2>1, <3>1 DEF DbRead
  <2>3. CASE MergeNext
    <3>1. merged # 0 /\ base' = [p \in DOMAIN base |-> DbMerge(base[p], cdd[merged'][p])]
      BY <1>1, <2>3 DEF MergeNext, IInvFiles, FilesMatch
    <3> QED BY <1>3, <2>1, <3>1 DEF DbMerge
  <2> QED BY <2>1, <2>2, <2>3
<1>6. FilesMatch'
  <2>1. \A p \in DOMAIN base : base'[p] \subseteq Int
    BY <1>4, <1>5 DEF IInvFiles, FilesMatch, Planes
  <2>2. base' \in Planes
    BY <1>5, <2>1 DEF Planes
  <2> QED BY <1>1, <2>2 DEF IInvFiles, FilesMatch
<1>7. MergedExact'
  <2>1. /\ base'.tog01 = (IF merged = 0 THEN {} ELSE base.tog01) \cup truth[merged + 1].rose
        /\ base'.tog10 = (IF merged = 0 THEN {} ELSE base.tog10) \cup truth[merged + 1].fell
    BY <1>1, <1>4, <1>5
  <2>2. merged \in Nat /\ 1..(merged + 1) = (1..merged) \cup {merged + 1}
    BY DEF IInvFiles, FilesMatch
  <2> DEFINE k == merged + 1
  <2>3. /\ UNION {truth[i].rose : i \in 1..k} = (UNION {truth[i].rose : i \in 1..merged}) \cup truth[k].rose
        /\ UNION {truth[i].fell : i \in 1..k} = (UNION {truth[i].fell : i \in 1..merged}) \cup truth[k].fell
    <3>1. 1..k = (1..merged) \cup {k}
      BY <2>2
    <3> HIDE DEF k
    <3> DEFINE N == 1..merged
    <3>2. 1..k = N \cup {k}
      BY <3>1
    <3> HIDE DEF N
    <3>3. UNION {truth[i].rose : i \in N \cup {k}} = (UNION {truth[i].rose : i \in N}) \cup truth[k].rose
      OBVIOUS
    <3>4. UNION {truth[i].fell : i \in N \cup {k}} = (UNION {truth[i].fell : i \in N}) \cup truth[k].fell
      OBVIOUS
    <3> QED BY <3>2, <3>3, <3>4 DEF N
  <2>4. CASE merged = 0
    <3>1. 1..merged = {}
      BY <2>4
    <3> QED BY <1>1, <2>1, <2>3, <2>4, <3>1 DEF MergedExact
  <2>5. CASE merged > 0
    <3> DEFINE allRose == UNION {truth[i].rose : i \in 1..merged}
               allFell == UNION {truth[i].fell : i \in 1..merged}
               thenRose == UNION {truth[i].rose : i \in 1..k}
               thenFell == UNION {truth[i].fell : i \in 1..k}
    <3>1. base.tog01 = allRose /\ base.tog10 = allFell
      BY <2>5 DEF IInvFiles, MergedExact
    <3>2. thenRose = allRose \cup truth[k].rose /\ thenFell = allFell \cup truth[k].fell
      BY <2>3
    <3>3. base'.tog01 = base.tog01 \cup truth[k].rose /\ base'.tog10 = base.tog10 \cup truth[k].fell
      BY <2>1, <2>5
    <3>4. k = merged' /\ truth' = truth
      BY <1>1
    <3> HIDE DEF allRose, allFell, k
    <3>5. base'.tog01 = thenRose /\ base'.tog10 = thenFell
      BY <3>1, <3>2, <3>3
    <3> QED BY <3>4, <3>5 DEF MergedExact
  <2> QED BY <2>2, <2>4, <2>5
<1> QED BY <1>2, <1>6, <1>7

(* A merge of any number of files, written and read by programs with the    *)
(* same unsigned long, has exactly the toggles of their simulations.        *)
THEOREM MergeIsExact == FileBits = UL_BITS => (Spec => []MergedExact)
<1> SUFFICES ASSUME FileBits = UL_BITS PROVE Spec => []MergedExact
  OBVIOUS
<1>1. Init => IInvFiles
  <2> SUFFICES ASSUME Init PROVE IInvFiles
    OBVIOUS
  <2>1. CoverShape
    BY DEF Init, CoverShape, DbWrite, Planes
  <2>2. FilesMatch
    BY DEF Init, FilesMatch, Planes
  <2>3. MergedExact
    BY DEF Init, MergedExact
  <2> QED BY <2>1, <2>2, <2>3, InitEstablishes DEF IInvFiles
<1>2. IInvFiles /\ [Next]_vars => IInvFiles'
  <2> SUFFICES ASSUME IInvFiles, [Next]_vars PROVE IInvFiles'
    OBVIOUS
  <2>1. IInv'
    BY NextPreserves DEF IInvFiles
  <2>2. CoverShape' /\ FilesMatch' /\ MergedExact'
    <3>1. CASE UNCHANGED vars
      BY <3>1 DEF vars, cover, history, IInvFiles, CoverShape, DbWrite, FilesMatch, MergedExact
    <3> QED BY <3>1, SimulationKeepsFiles, WriteKeepsFiles, MergeKeepsFiles DEF Next
  <2> QED BY <2>1, <2>2 DEF IInvFiles
<1>3. IInvFiles => MergedExact
  BY DEF IInvFiles
<1> QED BY <1>1, <1>2, <1>3, PTL DEF Spec

-----------------------------------------------------------------------------
(* The elements of a memory *)

Elements == 0..((Width \div Element) - 1)

BitsOf(E) == {b \in Int : b \div Element \in E}

(* The planes of a memory against what was done to it: a bit that changed   *)
(* is written, a written one was assigned, and the elements read are those  *)
(* that were fetched, all of their bits.                                    *)
MemMatch(p, t) ==
  /\ t.altered \subseteq p.wr /\ p.wr \subseteq t.touched
  /\ p.rd = BitsOf(t.fetched) /\ t.fetched \subseteq Elements

Now == [rose |-> rose, fell |-> fell, touched |-> touched, altered |-> altered, fetched |-> fetched]

MemMerged ==
  LET S == 1..merged IN
  /\ UNION {truth[i].altered : i \in S} \subseteq base.wr
  /\ base.wr \subseteq UNION {truth[i].touched : i \in S}
  /\ base.rd = UNION {BitsOf(truth[i].fetched) : i \in S}

IInvElements ==
  /\ IInvFiles
  /\ type = "MEM" => /\ MemMatch(DbWrite, Now)
                     /\ \A i \in 1..Len(cdd) : MemMatch(cdd[i], truth[i])
                     /\ merged > 0 => MemMerged

(* The bits of an element are the range that a read marks. *)
LEMMA ElementRange ==
  ASSUME NEW e \in Int
  PROVE  (e * Element)..((e + 1) * Element - 1) = BitsOf({e})
<1>1. Element \in Nat \ {0}
  BY ElementAssumption
<1>2. e * Element \in Int /\ (e + 1) * Element = e * Element + Element
  BY <1>1
<1>3. ASSUME NEW b \in Int
      PROVE  b \div Element = e <=> e * Element <= b /\ b <= e * Element + Element - 1
  <2> DEFINE q == b \div Element
             r == b % Element
  <2>1. q \in Int /\ r \in 0..(Element - 1) /\ b = q * Element + r
    BY <1>1
  <2> HIDE DEF q, r
  <2>2. CASE q = e
    BY <1>1, <1>2, <2>1, <2>2
  <2>3. CASE q < e
    <3>1. q + 1 <= e /\ e - (q + 1) \in Nat
      BY <2>1, <2>3
    <3>2. (e - (q + 1)) * Element >= 0
      BY <1>1, <3>1
    <3>3. (e - (q + 1)) * Element = e * Element - q * Element - Element
      BY <1>1, <2>1
    <3>4. q * Element \in Int
      BY <1>1, <2>1
    <3> QED BY <1>1, <1>2, <2>1, <2>3, <3>2, <3>3, <3>4
  <2>4. CASE e < q
    <3>1. q - (e + 1) \in Nat
      BY <2>1, <2>4
    <3>2. (q - (e + 1)) * Element >= 0
      BY <1>1, <3>1
    <3>3. (q - (e + 1)) * Element = q * Element - e * Element - Element
      BY <1>1, <2>1
    <3>4. q * Element \in Int
      BY <1>1, <2>1
    <3> QED BY <1>1, <1>2, <2>1, <2>4, <3>2, <3>3, <3>4
  <2> QED BY <2>1, <2>2, <2>3, <2>4 DEF q
<1> QED BY <1>1, <1>2, <1>3 DEF BitsOf

(* No element has a word between its first and its last one. *)
ShortElements ==
  \A e \in Elements : ((e + 1) * Element - 1) \div UL_BITS <= (e * Element) \div UL_BITS + 1

LEMMA WordsInOrder ==
  ASSUME NEW a \in Int, NEW b \in Int, a <= b
  PROVE  a \div UL_BITS <= b \div UL_BITS
<1> DEFINE q == a \div UL_BITS
           r == b \div UL_BITS
<1>1. /\ UL_BITS \in Nat \ {0} /\ q \in Int /\ r \in Int
      /\ q * UL_BITS <= a /\ b < (r + 1) * UL_BITS
  BY WidthAssumption
<1> HIDE DEF q, r
<1>2. CASE r < q
  <2>1. q - (r + 1) \in Nat
    BY <1>1, <1>2
  <2>2. (q - (r + 1)) * UL_BITS >= 0
    BY <1>1, <2>1
  <2>3. (q - (r + 1)) * UL_BITS = q * UL_BITS - (r + 1) * UL_BITS
    BY <1>1
  <2>4. q * UL_BITS \in Int /\ (r + 1) * UL_BITS \in Int
    BY <1>1
  <2> QED BY <1>1, <2>2, <2>3, <2>4
<1>3. q <= r
  BY <1>1, <1>2
<1> QED BY <1>3 DEF q, r

(* A read of a short element marks its bits. *)
LEMMA ReadMarks ==
  ASSUME ShortElements, NEW e \in Elements, type = "MEM"
  PROVE  SetMemRd((e + 1) * Element - 1, e * Element) = rd \cup BitsOf({e})
<1> DEFINE lsb == e * Element
           msb == (e + 1) * Element - 1
<1>1. e \in Int /\ lsb \in Int /\ msb \in Int /\ UL_BITS \in Nat \ {0}
  BY ElementAssumption, WidthAssumption DEF Elements
<1>2. msb \div UL_BITS <= lsb \div UL_BITS + 1
  BY DEF ShortElements
<1>3. lsb..msb = BitsOf({e})
  BY <1>1, ElementRange
<1> HIDE DEF lsb, msb
<1> DEFINE low == lsb \div UL_BITS
           high == msb \div UL_BITS
<1>4. ASSUME NEW b \in lsb..msb PROVE b \div UL_BITS = low \/ b \div UL_BITS = high
  <2>1. low <= b \div UL_BITS /\ b \div UL_BITS <= high
    BY <1>1, WordsInOrder
  <2>2. low \in Int /\ high \in Int /\ b \div UL_BITS \in Int
    BY <1>1
  <2> HIDE DEF low, high
  <2>3. high <= low + 1
    BY <1>2 DEF low, high
  <2> QED BY <2>1, <2>2, <2>3
<1>5. ~(high > low + 1)
  <2>1. low \in Int /\ high \in Int
    BY <1>1
  <2> QED BY <1>2, <2>1
<1>6. SetMemRd(msb, lsb) = rd \cup Mask(low, lsb, msb) \cup Mask(high, lsb, msb)
  BY <1>5 DEF SetMemRd
<1>7. Mask(low, lsb, msb) \cup Mask(high, lsb, msb) = lsb..msb
  BY <1>4 DEF Mask
<1>8. SetMemRd(msb, lsb) = rd \cup BitsOf({e})
  BY <1>3, <1>6, <1>7
<1> QED BY <1>8 DEF msb, lsb

(* An assignment marks what changes and only what is assigned. *)
LEMMA AssignMarks ==
  ASSUME NEW fl, NEW fh, NEW lsb, NEW msb, type = "MEM", MemMatch(DbWrite, Now),
         Assign(fl, fh, lsb, msb)
  PROVE  MemMatch(DbWrite, Now)'
<1> DEFINE m == Assigned(fl, fh, lsb, msb)
           change == {b \in lsb..msb : (b \in fl) # (b \in vall) \/ (b \in fh) # (b \in valh)}
<1>1. m \subseteq lsb..msb /\ change \subseteq m
  BY AssignedBits
<1>2. wr' = wr \cup m /\ touched' = touched \cup lsb..msb /\ altered' = altered \cup change
  BY DEF Assign, SetCoverageAndAssign, Recorded, Written
<1>3. rd' = rd /\ fetched' = fetched
  BY DEF Assign
<1> HIDE DEF m, change
<1>4. altered \subseteq wr /\ wr \subseteq touched /\ rd = BitsOf(fetched) /\ fetched \subseteq Elements
  BY DEF MemMatch, DbWrite, Now
<1>5. altered' \subseteq wr' /\ wr' \subseteq touched' /\ rd' = BitsOf(fetched') /\ fetched' \subseteq Elements
  BY <1>1, <1>2, <1>3, <1>4
<1> QED BY <1>5 DEF MemMatch, DbWrite, Now, Elements, BitsOf

LEMMA SimulationKeepsElements ==
  ASSUME ShortElements, IInvElements, VcdStep \/ SetStep \/ PushStep \/ ReadStep, type = "MEM"
  PROVE  MemMatch(DbWrite, Now)'
<1>1. MemMatch(DbWrite, Now)
  BY DEF IInvElements
<1>2. CASE PushStep
  <2>1. PICK lsb, msb, fl, fh : Assign(fl, fh, lsb, msb)
    BY <1>2 DEF PushStep
  <2> QED BY <1>1, <2>1, AssignMarks
<1>3. CASE ReadStep
  <2>1. PICK e \in Elements :
          /\ rd' = SetMemRd((e + 1) * Element - 1, e * Element)
          /\ fetched' = fetched \cup {e}
    BY <1>3 DEF ReadStep, Elements
  <2>2. UNCHANGED <<wr, touched, altered>>
    BY <1>3 DEF ReadStep
  <2>4. rd' = rd \cup BitsOf({e})
    BY <2>1, ReadMarks
  <2>5. BitsOf(fetched) \cup BitsOf({e}) = BitsOf(fetched \cup {e})
    BY DEF BitsOf
  <2>6. altered \subseteq wr /\ wr \subseteq touched /\ rd = BitsOf(fetched) /\ fetched \subseteq Elements
    BY <1>1 DEF MemMatch, DbWrite, Now
  <2>7. altered' \subseteq wr' /\ wr' \subseteq touched' /\ rd' = BitsOf(fetched') /\ fetched' \subseteq Elements
    BY <2>1, <2>2, <2>4, <2>5, <2>6
  <2> QED BY <2>7 DEF MemMatch, DbWrite, Now, Elements, BitsOf
<1> QED BY <1>2, <1>3 DEF VcdStep, SetStep

(* The file has what the run did, and the next run begins with nothing. *)
LEMMA WriteKeepsElements ==
  ASSUME IInvElements, Write, type = "MEM"
  PROVE  /\ MemMatch(DbWrite, Now)'
         /\ \A i \in 1..Len(cdd') : MemMatch(cdd'[i], truth'[i])
<1>1. cdd' = Append(cdd, DbWrite) /\ truth' = Append(truth, Now)
  BY DEF Write, Now
<1>2. cdd \in Seq(Planes) /\ truth \in Seq(Truths) /\ Len(cdd) = Len(truth)
      /\ DbWrite \in Planes /\ MemMatch(DbWrite, Now)
      /\ \A i \in 1..Len(cdd) : MemMatch(cdd[i], truth[i])
  BY DEF IInvElements, IInvFiles, FilesMatch, CoverShape
<1>3. Now \in Truths
  <2>1. rose = tog01 /\ fell = tog10
    BY DEF IInvElements, IInvFiles, IInv, TogglesExact
  <2>2. tog01 \subseteq Int /\ tog10 \subseteq Int
    BY <1>2 DEF Planes, DbWrite
  <2>3. touched \subseteq Int /\ altered \subseteq Int /\ fetched \subseteq Int
    BY DEF IInvElements, IInvFiles, CoverShape
  <2> QED BY <2>1, <2>2, <2>3 DEF Now, Truths
<1>4. ASSUME NEW i \in 1..Len(cdd') PROVE MemMatch(cdd'[i], truth'[i])
  <2> DEFINE p == DbWrite
             t == Now
  <2>1. Len(cdd') = Len(cdd) + 1 /\ Len(cdd) \in Nat /\ p \in Planes /\ t \in Truths
        /\ cdd' = Append(cdd, p) /\ truth' = Append(truth, t) /\ MemMatch(p, t)
    BY <1>1, <1>2, <1>3
  <2> HIDE DEF p, t
  <2>2. CASE i = Len(cdd) + 1
    <3>1. cdd'[i] = p /\ truth'[i] = t
      BY <1>2, <2>1, <2>2
    <3> QED BY <2>1, <3>1
  <2>3. CASE i # Len(cdd) + 1
    <3>1. i \in 1..Len(cdd)
      BY <2>1, <2>3
    <3>2. cdd'[i] = cdd[i] /\ truth'[i] = truth[i]
      BY <1>2, <2>1, <3>1
    <3> QED BY <1>2, <3>1, <3>2
  <2> QED BY <2>2, <2>3
<1>5. wr' = {} /\ rd' = {} /\ touched' = {} /\ altered' = {} /\ fetched' = {}
  BY DEF Write
<1>6. MemMatch(DbWrite, Now)'
  BY <1>5 DEF MemMatch, DbWrite, Now, BitsOf, Elements
<1> QED BY <1>4, <1>6

(* The merge joins the planes of the files. *)
LEMMA MergeKeepsElements ==
  ASSUME IInvElements, MergeRead \/ MergeNext, FileBits = UL_BITS, type = "MEM"
  PROVE  MemMerged'
<1>1. /\ UNCHANGED <<cdd, truth>>
      /\ merged' = merged + 1 /\ merged' \in 1..Len(cdd) /\ merged \in Nat
  BY BoundAssumption DEF MergeRead, MergeNext, IInvElements, IInvFiles, FilesMatch
<1>2. \A plane : {Place(b) : b \in plane} = plane
  BY DEF Place
<1>3. DOMAIN base = {"tog01", "tog10", "wr", "rd"}
  BY DEF IInvElements, IInvFiles, FilesMatch, Planes
<1> DEFINE k == merged + 1
           N == 1..merged
           K == 1..k
           p == cdd[k]
           t == truth[k]
<1>4. K = N \cup {k} /\ k \in K /\ (merged = 0 => N = {}) /\ k \in 1..Len(cdd)
  BY <1>1
<1>5. MemMatch(p, t)
  BY <1>4 DEF IInvElements
<1>6. /\ base'.wr = (IF merged = 0 THEN {} ELSE base.wr) \cup p.wr
      /\ base'.rd = (IF merged = 0 THEN {} ELSE base.rd) \cup p.rd
  <2>1. CASE MergeRead
    <3>1. merged = 0 /\ base' = [q \in DOMAIN base |-> DbRead(p[q])]
      BY <2>1, <1>1 DEF MergeRead
    <3> HIDE DEF p
    <3> QED BY <1>2, <1>3, <3>1 DEF DbRead
  <2>2. CASE MergeNext
    <3>1. merged # 0 /\ base' = [q \in DOMAIN base |-> DbMerge(base[q], p[q])]
      BY <2>2, <1>1 DEF MergeNext
    <3> HIDE DEF p
    <3> QED BY <1>2, <1>3, <3>1 DEF DbMerge
  <2> QED BY <2>1, <2>2
<1>7. /\ t.altered \subseteq p.wr /\ p.wr \subseteq t.touched /\ p.rd = BitsOf(t.fetched)
  BY <1>5 DEF MemMatch
<1>8. merged = 0 \/ MemMerged
  BY <1>1 DEF IInvElements
<1> DEFINE alteredN == UNION {truth[i].altered : i \in N}
           touchedN == UNION {truth[i].touched : i \in N}
           fetchedN == UNION {BitsOf(truth[i].fetched) : i \in N}
<1>9. /\ alteredN \subseteq IF merged = 0 THEN {} ELSE base.wr
      /\ (IF merged = 0 THEN {} ELSE base.wr) \subseteq touchedN
      /\ (IF merged = 0 THEN {} ELSE base.rd) = fetchedN
  <2>1. CASE merged = 0
    <3>1. N = {}
      BY <1>4, <2>1
    <3> HIDE DEF N
    <3> QED BY <2>1, <3>1
  <2>2. CASE merged # 0
    BY <1>8, <2>2 DEF MemMerged
  <2> QED BY <2>1, <2>2
<1> HIDE DEF N, k, K, p
<1>10. /\ UNION {truth[i].altered : i \in N \cup {k}} = alteredN \cup t.altered
       /\ UNION {truth[i].touched : i \in N \cup {k}} = touchedN \cup t.touched
       /\ UNION {BitsOf(truth[i].fetched) : i \in N \cup {k}} = fetchedN \cup BitsOf(t.fetched)
  OBVIOUS
<1> HIDE DEF alteredN, touchedN, fetchedN, t
<1>11. /\ UNION {truth[i].altered : i \in K} \subseteq base'.wr
       /\ base'.wr \subseteq UNION {truth[i].touched : i \in K}
       /\ base'.rd = UNION {BitsOf(truth[i].fetched) : i \in K}
  BY <1>4, <1>6, <1>7, <1>9, <1>10
<1>12. K = 1..merged' /\ truth' = truth
  BY <1>1 DEF K, k
<1> QED BY <1>11, <1>12 DEF MemMerged, BitsOf

LEMMA ElementsNext ==
  ASSUME ShortElements, IInvElements, [Next]_vars, FileBits = UL_BITS
  PROVE  IInvElements'
<1>1. type' = type
  BY DEF Next, VcdStep, SetStep, PushStep, ReadStep, Simulates, Write, MergeRead, MergeNext, vars, kind
<1>2. IInvFiles'
  <2>1. IInv'
    BY NextPreserves DEF IInvElements, IInvFiles
  <2>2. IInvFiles
    BY DEF IInvElements
  <2>3. CoverShape' /\ FilesMatch' /\ MergedExact'
    <3>1. CASE UNCHANGED vars
      BY <2>2, <3>1 DEF vars, cover, history, IInvFiles, CoverShape, DbWrite, FilesMatch, MergedExact
    <3> QED BY <2>2, <3>1, SimulationKeepsFiles, WriteKeepsFiles, MergeKeepsFiles DEF Next
  <2> QED BY <2>1, <2>3 DEF IInvFiles
<1>3. ASSUME type = "MEM"
      PROVE  /\ MemMatch(DbWrite, Now)'
             /\ (\A i \in 1..Len(cdd) : MemMatch(cdd[i], truth[i]))'
             /\ (merged > 0 => MemMerged)'
  <2>1. /\ MemMatch(DbWrite, Now) /\ \A i \in 1..Len(cdd) : MemMatch(cdd[i], truth[i])
        /\ merged > 0 => MemMerged
    BY <1>3 DEF IInvElements
  <2>2. CASE VcdStep \/ SetStep \/ PushStep \/ ReadStep
    <3>1. UNCHANGED <<cdd, base, merged, truth>>
      BY <2>2 DEF VcdStep, SetStep, PushStep, ReadStep, Simulates
    <3>2. MemMatch(DbWrite, Now)'
      BY <1>3, <2>2, SimulationKeepsElements
    <3> QED BY <2>1, <3>1, <3>2 DEF MemMerged, MemMatch, BitsOf, Elements
  <2>3. CASE Write
    <3>1. merged' = 0
      BY <2>3 DEF Write
    <3>2. /\ MemMatch(DbWrite, Now)'
          /\ \A i \in 1..Len(cdd') : MemMatch(cdd'[i], truth'[i])
      BY <1>3, <2>3, WriteKeepsElements
    <3> QED BY <3>1, <3>2 DEF MemMatch, BitsOf, Elements
  <2>4. CASE MergeRead \/ MergeNext
    <3>1. UNCHANGED <<cdd, truth, cover, history>>
      BY <2>4 DEF MergeRead, MergeNext
    <3>2. MemMerged'
      BY <1>3, <2>4, MergeKeepsElements
    <3>3. MemMatch(DbWrite, Now)'
      BY <2>1, <3>1 DEF MemMatch, DbWrite, Now, cover, history, BitsOf, Elements
    <3> QED BY <2>1, <3>1, <3>2, <3>3 DEF MemMatch, BitsOf, Elements
  <2>5. CASE UNCHANGED vars
    BY <2>1, <2>5 DEF vars, cover, history, MemMatch, MemMerged, DbWrite, Now, BitsOf, Elements
  <2> QED BY <2>2, <2>3, <2>4, <2>5 DEF Next
<1> QED BY <1>1, <1>2, <1>3 DEF IInvElements

(* The elements that the planes of the merged file show are those that the  *)
(* simulations wrote and read.                                              *)
LEMMA MergedElements ==
  ASSUME IInvElements
  PROVE  ElementsSound
<1> SUFFICES ASSUME merged > 0, type = "MEM"
    PROVE  /\ UNION {ElementsOf(truth[i].altered) : i \in 1..merged} \subseteq Hit(base.wr)
           /\ Hit(base.wr) \subseteq UNION {ElementsOf(truth[i].touched) : i \in 1..merged}
           /\ Hit(base.rd) = UNION {truth[i].fetched : i \in 1..merged}
  BY DEF ElementsSound
<1>1. /\ UNION {truth[i].altered : i \in 1..merged} \subseteq base.wr
      /\ base.wr \subseteq UNION {truth[i].touched : i \in 1..merged}
      /\ base.rd = UNION {BitsOf(truth[i].fetched) : i \in 1..merged}
  BY DEF IInvElements, MemMerged
<1>2. /\ base.wr \subseteq Int
      /\ \A i \in 1..merged : /\ truth[i].altered \subseteq Int
                              /\ truth[i].fetched \subseteq Elements
  <2>1. /\ base \in Planes /\ truth \in Seq(Truths) /\ merged \in 0..Len(cdd)
        /\ Len(truth) = Len(cdd) /\ Len(cdd) \in Nat
    BY DEF IInvElements, IInvFiles, FilesMatch
  <2>2. ASSUME NEW i \in 1..merged
        PROVE  truth[i] \in Truths /\ i \in 1..Len(cdd)
    <3>1. i \in 1..Len(truth)
      BY <2>1
    <3> QED BY <2>1, <3>1
  <2>3. \A i \in 1..Len(cdd) : truth[i].fetched \subseteq Elements
    BY DEF IInvElements, MemMatch
  <2> QED BY <2>1, <2>2, <2>3 DEF Planes, Truths
<1>3. \A e \in Elements : e \in Int
  BY DEF Elements
<1>4. ASSUME NEW P
      PROVE  Hit(P) = {e \in Elements : \E b \in P : b \in Int /\ b \div Element = e}
  <2>1. \A e \in Elements : (e * Element)..((e + 1) * Element - 1) = BitsOf({e})
    BY <1>3, ElementRange
  <2>2. Hit(P) = {e \in Elements : P \cap BitsOf({e}) # {}}
    BY <2>1 DEF Hit, Elements
  <2> QED BY <2>2 DEF BitsOf
<1>5. \A B : ElementsOf(B) = {e \in Elements : \E b \in B : b \div Element = e}
  BY DEF ElementsOf, Elements
<1>6. UNION {ElementsOf(truth[i].altered) : i \in 1..merged} \subseteq Hit(base.wr)
  <2> SUFFICES ASSUME NEW i \in 1..merged, NEW e \in ElementsOf(truth[i].altered)
               PROVE  e \in Hit(base.wr)
    OBVIOUS
  <2>1. PICK b \in truth[i].altered : b \div Element = e
    BY <1>5
  <2>2. e \in Elements
    BY <1>5
  <2>3. b \in base.wr /\ b \in Int
    BY <1>1, <1>2
  <2> QED BY <1>4, <2>1, <2>2, <2>3
<1>7. Hit(base.wr) \subseteq UNION {ElementsOf(truth[i].touched) : i \in 1..merged}
  <2> SUFFICES ASSUME NEW e \in Hit(base.wr)
               PROVE  \E i \in 1..merged : e \in ElementsOf(truth[i].touched)
    OBVIOUS
  <2>1. e \in Elements
    BY <1>4
  <2>2. PICK b \in base.wr : b \div Element = e
    BY <1>4
  <2>3. PICK i \in 1..merged : b \in truth[i].touched
    BY <1>1
  <2> QED BY <1>5, <2>1, <2>2, <2>3
<1>8. Hit(base.rd) \subseteq UNION {truth[i].fetched : i \in 1..merged}
  <2> SUFFICES ASSUME NEW e \in Hit(base.rd)
               PROVE  \E i \in 1..merged : e \in truth[i].fetched
    OBVIOUS
  <2>1. PICK b \in base.rd : b \div Element = e
    BY <1>4
  <2>2. PICK i \in 1..merged : b \in BitsOf(truth[i].fetched)
    BY <1>1
  <2> QED BY <2>1, <2>2 DEF BitsOf
<1>9. UNION {truth[i].fetched : i \in 1..merged} \subseteq Hit(base.rd)
  <2> SUFFICES ASSUME NEW i \in 1..merged, NEW e \in truth[i].fetched PROVE e \in Hit(base.rd)
    OBVIOUS
  <2>1. e \in Elements /\ e \in Int
    BY <1>2, <1>3
  <2> DEFINE b == e * Element
  <2>2. b \in Int /\ b <= b /\ b <= (e + 1) * Element - 1
    BY <2>1, ElementAssumption
  <2>3. b \in b..((e + 1) * Element - 1)
    BY <2>1, <2>2, ElementAssumption
  <2>4. b \in BitsOf({e})
    BY <2>1, <2>3, ElementRange
  <2>5. b \div Element = e /\ b \in Int
    BY <2>4 DEF BitsOf
  <2>6. b \in BitsOf(truth[i].fetched)
    BY <2>5 DEF BitsOf
  <2>7. b \in base.rd
    BY <1>1, <2>6
  <2> HIDE DEF b
  <2> QED BY <1>4, <2>1, <2>5, <2>7
<1> QED BY <1>6, <1>7, <1>8, <1>9

(* After a merge an element of a memory is written or read as the           *)
(* simulations did it, whoever shares its words: one that changed has been  *)
(* written, one that nothing assigned has not, and one is read exactly when *)
(* some simulation read it.  The elements span two words at most            *)
(* (vector_set_mem_rd_ulong marks other bits of longer ones, see            *)
(* WidePatterns in MCVector).                                               *)
THEOREM ElementsAreSound == ShortElements /\ FileBits = UL_BITS => (Spec => []ElementsSound)
<1> SUFFICES ASSUME ShortElements, FileBits = UL_BITS PROVE Spec => []ElementsSound
  OBVIOUS
<1>1. Init => IInvElements
  <2> SUFFICES ASSUME Init PROVE IInvElements
    OBVIOUS
  <2>1. CoverShape /\ FilesMatch /\ MergedExact
    BY DEF Init, CoverShape, DbWrite, FilesMatch, Planes, MergedExact
  <2>2. IInvFiles
    BY <2>1, InitEstablishes DEF IInvFiles
  <2>3. MemMatch(DbWrite, Now)
    BY DEF Init, MemMatch, DbWrite, Now, BitsOf
  <2>4. Len(cdd) = 0 /\ merged = 0
    BY DEF Init
  <2> QED BY <2>2, <2>3, <2>4 DEF IInvElements
<1>2. IInvElements /\ [Next]_vars => IInvElements'
  BY ElementsNext
<1>3. IInvElements => ElementsSound
  BY MergedElements
<1> QED BY <1>1, <1>2, <1>3, PTL DEF Spec
-----------------------------------------------------------------------------
(* An expression with one operator (ExprOp), of any operator, shape and      *)
(* number of evaluations.                                                    *)

CONSTANTS Ops, Shapes, Firsts, MaxEvaluations

VARIABLES op, shape, left, right, l, h, is_set, eval_a, eval_b, eval_c, eval_d, suppl, evaluations, seen, was

Op == INSTANCE ExprOp WITH MaxSteps <- MaxEvaluations, set <- is_set, steps <- evaluations

(* ShapeAssumption of ExprOp; its WordAssumption is part of WidthAssumption. *)
ShapesGiven ==
  \A s \in Shapes : /\ s[1] \in Nat \ {0} /\ s[3] \in Nat \ {0} /\ s[5] \in Nat \ {0}
                    /\ s[2] \in BOOLEAN /\ s[4] \in BOOLEAN

(* The bits of a vector are among those of its elements. *)
LEMMA RoomHolds ==
  ASSUME NEW w \in Nat
  PROVE  0..(w - 1) \subseteq Op!Room(w)
<1> DEFINE q == Op!UL_DIV(w - 1)
<1>1. CASE w = 0
  <2>1. 0..(w - 1) = {}
    BY <1>1
  <2> QED BY <2>1
<1>2. CASE w # 0
  <2>1. q \in Int /\ w - 1 < (q + 1) * UL_BITS
    BY <1>2, WidthAssumption DEF Op!UL_DIV
  <2>2. Op!Room(w) = 0..((q + 1) * UL_BITS - 1)
    BY DEF Op!Room, Op!UL_SIZE
  <2>3. (q + 1) * UL_BITS \in Int
    BY <2>1, WidthAssumption
  <2> HIDE DEF q
  <2> QED BY <2>1, <2>2, <2>3
<1> QED BY <1>1, <1>2

AnyDigit == {"0", "1", "x"}

(* The cases of EvalsExact one by one. *)
EvalsAre(c) ==
  /\ op \in Op!AndComb =>
       Op!EvalIs(c, Op!Had(c, {"0"}, AnyDigit, AnyDigit), Op!Had(c, AnyDigit, {"0"}, AnyDigit),
                    Op!Had(c, {"1"}, {"1"}, AnyDigit), FALSE)
  /\ op \in Op!OrComb =>
       Op!EvalIs(c, Op!Had(c, {"1"}, AnyDigit, AnyDigit), Op!Had(c, AnyDigit, {"1"}, AnyDigit),
                    Op!Had(c, {"0"}, {"0"}, AnyDigit), FALSE)
  /\ op \in Op!OtherComb =>
       Op!EvalIs(c, Op!Had(c, {"0"}, {"0"}, AnyDigit), Op!Had(c, {"0"}, {"1"}, AnyDigit),
                    Op!Had(c, {"1"}, {"0"}, AnyDigit), Op!Had(c, {"1"}, {"1"}, AnyDigit))
  /\ op = "CLOG2" => Op!EvalIs(c, FALSE, FALSE, FALSE, FALSE)
  /\ op \notin Op!AndComb \cup Op!OrComb \cup Op!OtherComb \cup {"CLOG2"} =>
       Op!EvalIs(c, Op!Had(c, AnyDigit, AnyDigit, {"0"}), Op!Had(c, AnyDigit, AnyDigit, {"1"}), FALSE, FALSE)

LEMMA EvalsByOperator ==
  ASSUME NEW c
  PROVE  Op!EvalsAt(c) <=> EvalsAre(c)
<1>1. CASE op \in Op!AndComb
  BY <1>1 DEF Op!EvalsAt, EvalsAre, AnyDigit, Op!AndComb, Op!OrComb, Op!OtherComb
<1>2. CASE op \in Op!OrComb
  BY <1>2 DEF Op!EvalsAt, EvalsAre, AnyDigit, Op!AndComb, Op!OrComb, Op!OtherComb
<1>3. CASE op \in Op!OtherComb
  BY <1>3 DEF Op!EvalsAt, EvalsAre, AnyDigit, Op!AndComb, Op!OrComb, Op!OtherComb
<1>4. CASE op = "CLOG2"
  BY <1>4 DEF Op!EvalsAt, EvalsAre, AnyDigit, Op!AndComb, Op!OrComb, Op!OtherComb
<1>5. CASE op \notin Op!AndComb \cup Op!OrComb \cup Op!OtherComb \cup {"CLOG2"}
  BY <1>5 DEF Op!EvalsAt, EvalsAre, AnyDigit, Op!AndComb, Op!OrComb, Op!OtherComb
<1> QED BY <1>1, <1>2, <1>3, <1>4, <1>5

(* What an expression tells of itself and remembers. *)
TruthOf ==
  /\ evaluations = 0 => suppl = {} /\ was = {}
  /\ "true" \in suppl <=> "1" \in was
  /\ "false" \in suppl <=> "0" \in was
  /\ is_set => evaluations > 0 /\ Op!Whole(Op!value) \in was
  /\ evaluations > 0 => /\ "eval_t" \in suppl <=> Op!Whole(Op!value) = "1"
                        /\ "eval_f" \in suppl <=> Op!Whole(Op!value) = "0"

EvaluationInv ==
  /\ shape \in Shapes /\ evaluations \in Nat
  /\ \A c \in 0..(Op!tw - 1) : EvalsAre(c)
  /\ op # "CLOG2" => TruthOf

LEMMA WidthOf ==
  ASSUME ShapesGiven, shape \in Shapes
  PROVE  Op!tw \in Nat /\ 0..(Op!tw - 1) \subseteq Op!Room(Op!tw)
<1>1. /\ shape[1] \in Nat \ {0} /\ shape[3] \in Nat \ {0} /\ shape[5] \in Nat \ {0}
      /\ UL_BITS \in Nat
  BY WidthAssumption DEF ShapesGiven
<1>2. Op!tw \in Nat
  BY <1>1 DEF Op!tw, Op!Width
<1> QED BY <1>2, RoomHolds

LEMMA DigitOf ==
  ASSUME NEW v, NEW c
  PROVE  /\ Op!Digit(v, c) \in AnyDigit
         /\ Op!Digit(v, c) = "0" <=> c \notin v.h /\ c \notin v.l
         /\ Op!Digit(v, c) = "1" <=> c \notin v.h /\ c \in v.l
BY DEF Op!Digit, AnyDigit

Among(S, c, as, bs, vs) == \E s \in S : s[1] = c /\ s[2] \in as /\ s[3] \in bs /\ s[4] \in vs

(* The history of an evaluation, bit by bit. *)
Row(a, b, v, w) == {<<d, Op!Digit(a, d), Op!Digit(b, d), Op!Digit(v, d)>> : d \in 0..(w - 1)}

(* One more evaluation. *)
LEMMA AmongGrows ==
  ASSUME NEW S, NEW a, NEW b, NEW v, NEW w, NEW c \in 0..(w - 1), NEW as, NEW bs, NEW vs
  PROVE  Among(S \cup Row(a, b, v, w), c, as, bs, vs) <=>
           Among(S, c, as, bs, vs) \/ (Op!Digit(a, c) \in as /\ Op!Digit(b, c) \in bs /\ Op!Digit(v, c) \in vs)
<1> DEFINE new(d) == <<d, Op!Digit(a, d), Op!Digit(b, d), Op!Digit(v, d)>>
           G == Row(a, b, v, w)
<1>1. \A s : s \in G <=> \E d \in 0..(w - 1) : s = new(d)
  BY DEF Row
<1>2. \A d : new(d)[1] = d /\ new(d)[2] = Op!Digit(a, d) /\ new(d)[3] = Op!Digit(b, d) /\ new(d)[4] = Op!Digit(v, d)
  OBVIOUS
<1> HIDE DEF new, G
<1>3. ASSUME Among(S \cup G, c, as, bs, vs), ~Among(S, c, as, bs, vs)
      PROVE  Op!Digit(a, c) \in as /\ Op!Digit(b, c) \in bs /\ Op!Digit(v, c) \in vs
  <2>1. PICK s \in G : s[1] = c /\ s[2] \in as /\ s[3] \in bs /\ s[4] \in vs
    BY <1>3 DEF Among
  <2>2. PICK d \in 0..(w - 1) : s = new(d)
    BY <1>1, <2>1
  <2>3. new(d)[1] = d /\ new(d)[2] = Op!Digit(a, d) /\ new(d)[3] = Op!Digit(b, d) /\ new(d)[4] = Op!Digit(v, d)
    BY <1>2
  <2>4. d = c
    BY <2>1, <2>2, <2>3
  <2> QED BY <2>1, <2>2, <2>3, <2>4
<1>4. Among(S, c, as, bs, vs) => Among(S \cup G, c, as, bs, vs)
  BY DEF Among
<1>5. ASSUME Op!Digit(a, c) \in as, Op!Digit(b, c) \in bs, Op!Digit(v, c) \in vs
      PROVE  Among(S \cup G, c, as, bs, vs)
  <2>1. new(c) \in G
    BY <1>1
  <2> QED BY <1>2, <1>5, <2>1 DEF Among
<1> QED BY <1>3, <1>4, <1>5 DEF G

(* The bits are set as the digits of the operands, or of the value, are. *)
LEMMA EvalsStep ==
  ASSUME ShapesGiven, shape \in Shapes, NEW a, NEW b, NEW junk, Op!Evaluate(a, b, junk),
         NEW c \in 0..(Op!tw - 1), EvalsAre(c)
  PROVE  EvalsAre(c)'
<1>1. /\ op' = op /\ Op!tw' = Op!tw /\ Op!Evals(a, b)
      /\ seen' = seen \cup Row(a, b, Op!value', Op!tw)
  BY DEF Op!Evaluate, Op!Operate, Row, Op!tw
<1>2. ASSUME NEW as, NEW bs, NEW vs
      PROVE  Op!Had(c, as, bs, vs)' <=>
               Op!Had(c, as, bs, vs) \/ (Op!Digit(a, c) \in as /\ Op!Digit(b, c) \in bs /\ Op!Digit(Op!value', c) \in vs)
  <2>1. Op!Had(c, as, bs, vs) <=> Among(seen, c, as, bs, vs)
    BY DEF Op!Had, Among
  <2>2. Op!Had(c, as, bs, vs)' <=> Among(seen', c, as, bs, vs)
    BY DEF Op!Had, Among
  <2>3. Among(seen \cup Row(a, b, Op!value', Op!tw), c, as, bs, vs) <=>
          Among(seen, c, as, bs, vs) \/ (Op!Digit(a, c) \in as /\ Op!Digit(b, c) \in bs /\ Op!Digit(Op!value', c) \in vs)
    BY AmongGrows
  <2> QED BY <1>1, <2>1, <2>2, <2>3
<1>3. /\ Op!Digit(a, c) \in AnyDigit /\ Op!Digit(b, c) \in AnyDigit /\ Op!Digit(Op!value', c) \in AnyDigit
      /\ Op!Digit(a, c) = "0" <=> c \notin a.h /\ c \notin a.l
      /\ Op!Digit(a, c) = "1" <=> c \notin a.h /\ c \in a.l
      /\ Op!Digit(b, c) = "0" <=> c \notin b.h /\ c \notin b.l
      /\ Op!Digit(b, c) = "1" <=> c \notin b.h /\ c \in b.l
      /\ Op!Digit(Op!value', c) = "0" <=> c \notin h' /\ c \notin l'
      /\ Op!Digit(Op!value', c) = "1" <=> c \notin h' /\ c \in l'
  <2>1. Op!value'.l = l' /\ Op!value'.h = h'
    BY DEF Op!value
  <2> QED BY <2>1, DigitOf
<1>4. c \in Op!Room(Op!tw)
  BY WidthOf
<1>5. CASE op \in Op!AndComb
  <2>1. Op!AndEvals(a, b)
    BY <1>1, <1>5 DEF Op!Evals, Op!AndComb, Op!OrComb, Op!OtherComb
  <2>2. /\ c \in eval_a' <=> c \in eval_a \/ Op!Digit(a, c) = "0"
        /\ c \in eval_b' <=> c \in eval_b \/ Op!Digit(b, c) = "0"
        /\ c \in eval_c' <=> c \in eval_c \/ (Op!Digit(a, c) = "1" /\ Op!Digit(b, c) = "1")
        /\ eval_d' = eval_d
    BY <1>3, <1>4, <2>1 DEF Op!AndEvals
  <2>3. Op!EvalIs(c, Op!Had(c, {"0"}, AnyDigit, AnyDigit), Op!Had(c, AnyDigit, {"0"}, AnyDigit),
                     Op!Had(c, {"1"}, {"1"}, AnyDigit), FALSE)
    BY <1>5 DEF EvalsAre
  <2>4. Op!EvalIs(c, Op!Had(c, {"0"}, AnyDigit, AnyDigit), Op!Had(c, AnyDigit, {"0"}, AnyDigit),
                     Op!Had(c, {"1"}, {"1"}, AnyDigit), FALSE)'
    BY <1>2, <1>3, <2>2, <2>3 DEF Op!EvalIs
  <2> QED BY <1>1, <1>5, <2>4 DEF EvalsAre, Op!AndComb, Op!OrComb, Op!OtherComb
<1>6. CASE op \in Op!OrComb
  <2>1. Op!OrEvals(a, b)
    BY <1>1, <1>6 DEF Op!Evals, Op!AndComb, Op!OrComb, Op!OtherComb
  <2>2. /\ c \in eval_a' <=> c \in eval_a \/ Op!Digit(a, c) = "1"
        /\ c \in eval_b' <=> c \in eval_b \/ Op!Digit(b, c) = "1"
        /\ c \in eval_c' <=> c \in eval_c \/ (Op!Digit(a, c) = "0" /\ Op!Digit(b, c) = "0")
        /\ eval_d' = eval_d
    BY <1>3, <1>4, <2>1 DEF Op!OrEvals
  <2>3. Op!EvalIs(c, Op!Had(c, {"1"}, AnyDigit, AnyDigit), Op!Had(c, AnyDigit, {"1"}, AnyDigit),
                     Op!Had(c, {"0"}, {"0"}, AnyDigit), FALSE)
    BY <1>6 DEF EvalsAre
  <2>4. Op!EvalIs(c, Op!Had(c, {"1"}, AnyDigit, AnyDigit), Op!Had(c, AnyDigit, {"1"}, AnyDigit),
                     Op!Had(c, {"0"}, {"0"}, AnyDigit), FALSE)'
    BY <1>2, <1>3, <2>2, <2>3 DEF Op!EvalIs
  <2> QED BY <1>1, <1>6, <2>4 DEF EvalsAre, Op!AndComb, Op!OrComb, Op!OtherComb
<1>7. CASE op \in Op!OtherComb
  <2>1. Op!OtherEvals(a, b)
    BY <1>1, <1>7 DEF Op!Evals, Op!AndComb, Op!OrComb, Op!OtherComb
  <2>2. /\ c \in eval_a' <=> c \in eval_a \/ (Op!Digit(a, c) = "0" /\ Op!Digit(b, c) = "0")
        /\ c \in eval_b' <=> c \in eval_b \/ (Op!Digit(a, c) = "0" /\ Op!Digit(b, c) = "1")
        /\ c \in eval_c' <=> c \in eval_c \/ (Op!Digit(a, c) = "1" /\ Op!Digit(b, c) = "0")
        /\ c \in eval_d' <=> c \in eval_d \/ (Op!Digit(a, c) = "1" /\ Op!Digit(b, c) = "1")
    BY <1>3, <1>4, <2>1 DEF Op!OtherEvals
  <2>3. Op!EvalIs(c, Op!Had(c, {"0"}, {"0"}, AnyDigit), Op!Had(c, {"0"}, {"1"}, AnyDigit),
                     Op!Had(c, {"1"}, {"0"}, AnyDigit), Op!Had(c, {"1"}, {"1"}, AnyDigit))
    BY <1>7 DEF EvalsAre
  <2>4. Op!EvalIs(c, Op!Had(c, {"0"}, {"0"}, AnyDigit), Op!Had(c, {"0"}, {"1"}, AnyDigit),
                     Op!Had(c, {"1"}, {"0"}, AnyDigit), Op!Had(c, {"1"}, {"1"}, AnyDigit))'
    BY <1>2, <1>3, <2>2, <2>3 DEF Op!EvalIs
  <2> QED BY <1>1, <1>7, <2>4 DEF EvalsAre, Op!AndComb, Op!OrComb, Op!OtherComb
<1>8. CASE op = "CLOG2"
  <2>1. UNCHANGED Op!evals
    BY <1>1, <1>8 DEF Op!Evals, Op!AndComb, Op!OrComb, Op!OtherComb
  <2> QED BY <1>1, <1>8, <2>1 DEF EvalsAre, Op!EvalIs, Op!evals, Op!AndComb, Op!OrComb, Op!OtherComb
<1>9. CASE op \notin Op!AndComb \cup Op!OrComb \cup Op!OtherComb \cup {"CLOG2"}
  <2>1. Op!UnaryEvals
    BY <1>1, <1>9 DEF Op!Evals
  <2>2. /\ c \in eval_a' <=> c \in eval_a \/ Op!Digit(Op!value', c) = "0"
        /\ c \in eval_b' <=> c \in eval_b \/ Op!Digit(Op!value', c) = "1"
        /\ eval_c' = eval_c /\ eval_d' = eval_d
    BY <1>3, <1>4, <2>1 DEF Op!UnaryEvals
  <2>3. Op!EvalIs(c, Op!Had(c, AnyDigit, AnyDigit, {"0"}), Op!Had(c, AnyDigit, AnyDigit, {"1"}), FALSE, FALSE)
    BY <1>9 DEF EvalsAre
  <2>4. Op!EvalIs(c, Op!Had(c, AnyDigit, AnyDigit, {"0"}), Op!Had(c, AnyDigit, AnyDigit, {"1"}), FALSE, FALSE)'
    BY <1>2, <1>3, <2>2, <2>3 DEF Op!EvalIs
  <2> QED BY <1>1, <1>9, <2>4 DEF EvalsAre
<1> QED BY <1>5, <1>6, <1>7, <1>8, <1>9

(* expression_set_tf_preclear after the operation. *)
LEMMA TruthStep ==
  ASSUME NEW a, NEW b, NEW junk, Op!Evaluate(a, b, junk), op # "CLOG2", evaluations \in Nat, TruthOf
  PROVE  TruthOf'
<1>1. /\ evaluations' = evaluations + 1 /\ was' = was \cup {Op!Whole(Op!value')} /\ is_set' = TRUE
      /\ suppl' = IF ~(l' # l \/ h' # h) /\ is_set THEN suppl
                  ELSE (suppl \ {"eval_t", "eval_f"})
                       \cup (IF h' # {} THEN {} ELSE IF l' # {} THEN {"true", "eval_t"} ELSE {"false", "eval_f"})
  BY DEF Op!Evaluate, Op!Operate, Op!SetTf
<1>2. evaluations' > 0 /\ evaluations' # 0 /\ Op!Whole(Op!value') \in was'
  BY <1>1
<1>3. Op!Whole(Op!value') = (IF h' # {} THEN "x" ELSE IF l' # {} THEN "1" ELSE "0")
  BY DEF Op!Whole, Op!value
<1>4. CASE l' = l /\ h' = h /\ is_set
  <2>1. Op!Whole(Op!value) = Op!Whole(Op!value') /\ suppl' = suppl
    BY <1>1, <1>3, <1>4 DEF Op!Whole, Op!value
  <2>2. was' = was /\ evaluations > 0
    BY <1>1, <1>4, <2>1 DEF TruthOf
  <2> QED BY <1>2, <2>1, <2>2 DEF TruthOf
<1>5. CASE ~(l' = l /\ h' = h /\ is_set)
  <2>1. suppl' = (suppl \ {"eval_t", "eval_f"})
                   \cup (IF h' # {} THEN {} ELSE IF l' # {} THEN {"true", "eval_t"} ELSE {"false", "eval_f"})
    BY <1>1, <1>5
  <2>2. /\ "true" \in suppl' <=> "true" \in suppl \/ Op!Whole(Op!value') = "1"
        /\ "false" \in suppl' <=> "false" \in suppl \/ Op!Whole(Op!value') = "0"
        /\ "eval_t" \in suppl' <=> Op!Whole(Op!value') = "1"
        /\ "eval_f" \in suppl' <=> Op!Whole(Op!value') = "0"
    BY <1>3, <2>1
  <2> QED BY <1>1, <1>2, <2>2 DEF TruthOf
<1> QED BY <1>4, <1>5

LEMMA InitEvaluations == Op!Init => EvaluationInv
<1> SUFFICES ASSUME Op!Init PROVE EvaluationInv
  OBVIOUS
<1>1. /\ shape \in Shapes /\ is_set = FALSE /\ suppl = {} /\ evaluations = 0 /\ seen = {} /\ was = {}
      /\ eval_a = {} /\ eval_b = {} /\ eval_c = {} /\ eval_d = {}
  BY DEF Op!Init
<1>2. \A c : EvalsAre(c)
  BY <1>1 DEF EvalsAre, Op!EvalIs, Op!Had
<1>3. TruthOf
  BY <1>1 DEF TruthOf
<1> QED BY <1>1, <1>2, <1>3 DEF EvaluationInv

LEMMA NextEvaluations == ShapesGiven /\ EvaluationInv /\ [Op!Next]_(Op!vars) => EvaluationInv'
<1> SUFFICES ASSUME ShapesGiven, EvaluationInv, [Op!Next]_(Op!vars) PROVE EvaluationInv'
  OBVIOUS
<1>1. ASSUME NEW a, NEW b, NEW junk, Op!Evaluate(a, b, junk) PROVE EvaluationInv'
  <2>1. op' = op /\ shape' = shape /\ evaluations' = evaluations + 1 /\ Op!tw' = Op!tw
    BY <1>1 DEF Op!Evaluate, Op!tw
  <2>2. \A c \in 0..(Op!tw' - 1) : EvalsAre(c)'
    BY <1>1, <2>1, EvalsStep DEF EvaluationInv
  <2>3. op # "CLOG2" => TruthOf'
    BY <1>1, TruthStep DEF EvaluationInv
  <2> QED BY <2>1, <2>2, <2>3 DEF EvaluationInv
<1>2. CASE UNCHANGED Op!vars
  <2>1. \A c : EvalsAre(c)' <=> EvalsAre(c)
    BY <1>2 DEF EvalsAre, Op!EvalIs, Op!Had, Op!vars, Op!evals
  <2>2. TruthOf' <=> TruthOf
    BY <1>2 DEF TruthOf, Op!Whole, Op!value, Op!tw, Op!vars
  <2> QED BY <1>2, <2>1, <2>2 DEF EvaluationInv, Op!tw, Op!vars
<1> QED BY <1>1, <1>2 DEF Op!Next, Op!Before, Op!Last

(* Of vectors of any width, in unsigned longs of any size, and after any    *)
(* number of evaluations, the bits that an expression records are those of  *)
(* its evaluations (vector.c:2154-2313, expr.c:1954-1982).                  *)
THEOREM CoverageAlwaysExact == ShapesGiven => (Op!Spec => []Op!CoverageExact)
<1> SUFFICES ASSUME ShapesGiven PROVE Op!Spec => []Op!CoverageExact
  OBVIOUS
<1>1. EvaluationInv => Op!CoverageExact
  <2> SUFFICES ASSUME EvaluationInv PROVE Op!CoverageExact
    OBVIOUS
  <2>1. Op!EvalsExact
    BY EvalsByOperator DEF EvaluationInv, Op!EvalsExact
  <2>2. Op!TruthExact
    BY DEF EvaluationInv, TruthOf, Op!TruthExact
  <2> QED BY <2>1, <2>2 DEF Op!CoverageExact
<1> QED BY <1>1, InitEvaluations, NextEvaluations, PTL DEF Op!Spec
=============================================================================
