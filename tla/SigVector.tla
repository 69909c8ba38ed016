----------------------------- MODULE SigVector -----------------------------
(****************************************************************************)
(* The vector of a signal or a memory (vector.c): its four-valued value and *)
(* the coverage bits beside it, from the assignments of a simulation to the *)
(* coverage file, and the merging of several files.                         *)
(*                                                                          *)
(* A plane of a vector is an array of unsigned longs; here it is the set of *)
(* the positions of its ones, position b being bit b % UL_BITS of element   *)
(* b \div UL_BITS.  A bit is 0, 1, x or z as (VALL, VALH) is (0,0), (1,0),  *)
(* (0,1) or (1,1).                                                          *)
(*                                                                          *)
(* Beside the vector stand what a simulation did to it, bit by bit (last,   *)
(* rose, fell), and to the elements of a memory (touched, altered, fetched).*)
(****************************************************************************)
EXTENDS Integers, Sequences, FiniteSets

CONSTANTS
  UL_BITS,      (* bits of an unsigned long of the program that merges       *)
  FileBits,     (* bits of one of the program that scored: UL_BITS or half   *)
  Width,        (* width of the vector                                       *)
  Element,      (* width of an addressable memory element (pwidth)           *)
  Digits,       (* the longest string of digits in the dumpfile              *)
  Patterns,     (* the values assigned: functions from bits to 0, 1, x, z    *)
  MaxAssign,    (* bound: assignments and reads, all simulations together    *)
  MaxFiles,     (* bound: coverage files                                     *)
  Kinds         (* the signals: <<type, is_2state, whether a net>>           *)

ASSUME WidthAssumption == Width \in Nat \ {0} /\ UL_BITS \in Nat \ {0}
ASSUME BoundAssumption == MaxFiles \in Nat \ {0}
ASSUME FileAssumption == FileBits = UL_BITS \/ 2 * FileBits = UL_BITS
ASSUME PatternAssumption == Patterns \subseteq [0..(Width - 1) -> {"0", "1", "x", "z"}]
ASSUME ElementAssumption == Element \in Nat \ {0}
ASSUME KindAssumption == \A k \in Kinds : k[1] \in {"SIG", "MEM"} /\ k[2] \in BOOLEAN /\ k[3] \in BOOLEAN /\ ~(k[2] /\ k[3])

VARIABLES
  type, is_2state, net,                      (* fixed by the declaration     *)
  vall, valh, xhold, tog01, tog10, misc,     (* planes                       *)
  wr, rd,                                    (* planes of a memory only      *)
  set,                                       (* suppl.set                    *)
  steps,                                     (* bound on the simulation      *)
  cdd,                                       (* the coverage files written   *)
  base,                                      (* what merge holds of them     *)
  merged,                                    (* how many it has read         *)
  last, rose, fell, touched, altered, fetched,       (* history, one run     *)
  truth                                              (* history of each file *)

kind == <<type, is_2state, net>>
value == <<vall, valh, xhold, misc, set>>
cover == <<tog01, tog10, wr, rd>>
history == <<last, rose, fell, touched, altered, fetched>>
vars == <<kind, value, cover, steps, cdd, base, merged, history, truth>>

Bits == 0..(Width - 1)

(* UL_LMASK and UL_HMASK: the part of word i that lies in lsb..msb. *)
Mask(i, lsb, msb) == {b \in lsb..msb : b \div UL_BITS = i}

-----------------------------------------------------------------------------
(* The assignment *)

(* Fault: a bit rises from 1, too. *)
Rises(fl, fh, m) == ((Bits \ valh) \cap (fl \ fh)) \cap m

(* The bits that now go to 1 from 0, or from an x that followed a 0, and    *)
(* the other way round.                                                     *)
Tvalx == (valh \ vall) \cap misc

Goes01(fl, fh, m) == ((Bits \ (vall \cup valh)) \cup (Tvalx \ xhold)) \cap (fl \ fh) \cap m

Goes10(fl, fh, m) == ((vall \ valh) \cup (Tvalx \cap xhold)) \cap (m \ (fl \cup fh))

Differs(fl, fh, m) == fl \cap m # vall \cap m \/ fh \cap m # valh \cap m

(* The masks of the elements whose assigned part differs from the value. *)
Assigned(fl, fh, lsb, msb) ==
  LET elements == {b \div UL_BITS : b \in lsb..msb}
  IN  UNION {Mask(i, lsb, msb) : i \in {j \in elements : Differs(fl, fh, Mask(j, lsb, msb))}}

Hold(m) == LET xmask == m \ valh IN (xhold \ xmask) \cup (vall \cap xmask)

(* Fault: a memory element is written when the vector is. *)
WrittenAll(m) == IF type = "MEM" THEN wr \cup 0..(Width - 1) ELSE wr

Written(m) == IF type = "MEM" THEN wr \cup m ELSE wr

SetCoverageAndAssign(fl, fh, lsb, msb) ==
  LET m == Assigned(fl, fh, lsb, msb) IN
  /\ tog01' = IF type = "MEM" \/ set THEN tog01 \cup Goes01(fl, fh, m) ELSE tog01
  /\ tog10' = IF type = "MEM" \/ set THEN tog10 \cup Goes10(fl, fh, m) ELSE tog10
  /\ vall' = (vall \ m) \cup (fl \cap m)
  /\ valh' = (valh \ m) \cup (fh \cap m)
  /\ xhold' = Hold(m)
  /\ misc' = misc \cup (m \ fh)
  /\ wr' = Written(m)

(* What the simulation did, bit by bit: a bit goes to 1 from 0 when its last *)
(* known value was 0, unless it was z in between until now.                  *)
Recorded(fl, fh, lsb, msb) ==
  LET R      == lsb..msb
      from   == IF type = "MEM" \/ set THEN R \ (vall \cap valh) ELSE {}
      change == {b \in R : (b \in fl) # (b \in vall) \/ (b \in fh) # (b \in valh)}
  IN /\ last' = [b \in Bits |-> IF b \in R \ fh THEN (IF b \in fl THEN "1" ELSE "0") ELSE last[b]]
     /\ rose' = rose \cup {b \in from : last[b] = "0" /\ b \in fl \ fh}
     /\ fell' = fell \cup {b \in from : last[b] = "1" /\ b \notin fl \cup fh}
     /\ touched' = touched \cup R
     /\ altered' = altered \cup change

Assign(fl, fh, lsb, msb) ==
  /\ SetCoverageAndAssign(fl, fh, lsb, msb)
  /\ Recorded(fl, fh, lsb, msb)
  /\ set' = TRUE
  /\ UNCHANGED <<rd, fetched>>

-----------------------------------------------------------------------------
(* What assigns it *)

Scoring == steps < MaxAssign /\ Len(cdd) < MaxFiles /\ merged = 0

Simulates == Scoring /\ steps' = steps + 1 /\ UNCHANGED <<kind, cdd, base, merged, truth>>

(* vector_vcd_assign: the digits of the dumpfile, the last one for bit lsb; *)
(* the first one fills the bits above when it is x or z.                    *)
Digit(digits, b) == IF b < Len(digits) THEN digits[Len(digits) - b]
                    ELSE IF digits[1] \in {"x", "z"} THEN digits[1] ELSE "0"

VcdAssign(digits, msb, lsb) ==
  LET bit(b) == Digit(digits, b - lsb) IN
  Assign({b \in lsb..msb : bit(b) \in {"1", "z"}}, {b \in lsb..msb : bit(b) \in {"x", "z"}}, lsb, msb)

(* A two-state vector has 0 for x and z. *)
TwoState(l, h) == IF is_2state THEN <<l \ h, {}>> ELSE <<l, h>>

(* vector_set_value_ulong: a value of "width" bits, cut or filled with 0. *)
SetValue(l, h, width) ==
  LET v == TwoState(l, h) IN Assign(v[1] \cap 0..(width - 1), v[2] \cap 0..(width - 1), 0, Width - 1)

(* vector_set_mem_rd_ulong: what lies in the words of lsb and of msb.  When  *)
(* there are words between them, the loop over these sets that of msb, all   *)
(* of it, each time.  (Bits above the vector are not written to the file.)   *)
SetMemRd(msb, lsb) ==
  LET low == lsb \div UL_BITS
      high == msb \div UL_BITS
      upper == IF high > low + 1 THEN Mask(high, 0, Width - 1) ELSE Mask(high, lsb, msb)
  IN  IF type = "MEM" THEN rd \cup Mask(low, lsb, msb) \cup upper ELSE rd

Low(p, R) == {b \in R : p[b] \in {"1", "z"}}
High(p, R) == {b \in R : p[b] \in {"x", "z"}}

VcdStep ==
  /\ Simulates
  /\ type = "SIG"
  /\ \E p \in Patterns, lsb \in Bits : \E msb \in lsb..(Width - 1) : \E n \in 1..Digits :
       /\ n <= (msb - lsb) + 1
       /\ is_2state => High(p, 0..(n - 1)) = {}
       /\ VcdAssign([i \in 1..n |-> p[n - i]], msb, lsb)

(* An expression or an array of initial values. *)
SetStep ==
  /\ Simulates
  /\ type = "SIG"
  /\ \E p \in Patterns, width \in 1..Width : SetValue(Low(p, Bits), High(p, Bits), width)

(* vector_part_select_push, without sign extension: bits lsb..msb take those *)
(* of the source as they are, so only 0 and 1 are given to a two-state       *)
(* vector here.                                                              *)
PushStep ==
  /\ Simulates
  /\ \E p \in Patterns, lsb \in Bits : \E msb \in lsb..(Width - 1) :
       /\ is_2state => High(p, lsb..msb) = {}
       /\ Assign(Low(p, lsb..msb), High(p, lsb..msb), lsb, msb)

(* A read of one element by an expression (vector_part_select_pull). *)
ReadStep ==
  /\ Simulates
  /\ type = "MEM"
  /\ \E e \in 0..((Width \div Element) - 1) :
       /\ rd' = SetMemRd((e + 1) * Element - 1, e * Element)
       /\ fetched' = fetched \cup {e}
  /\ UNCHANGED <<value, tog01, tog10, wr, last, rose, fell, touched, altered>>

-----------------------------------------------------------------------------
(* The coverage file *)

(* vector_db_write of a signal: the values are written as the default ones, *)
(* XHOLD and MISC as zero.                                                  *)
DbWrite == [tog01 |-> tog01, tog10 |-> tog10, wr |-> wr, rd |-> rd]

(* The vector of the design before a simulation: a four-valued one is all x *)
(* (a net all z), a two-state one all 0.                                    *)
FreshLow == IF net THEN Bits ELSE {}
FreshHigh == IF is_2state THEN {} ELSE Bits
FreshLast == [b \in Bits |-> IF is_2state THEN "0" ELSE "none"]

(* The next simulation starts from the design file again. *)
Write ==
  /\ merged = 0
  /\ Len(cdd) < MaxFiles
  /\ cdd' = Append(cdd, DbWrite)
  /\ truth' = Append(truth, [rose |-> rose, fell |-> fell, touched |-> touched,
                             altered |-> altered, fetched |-> fetched])
  /\ UNCHANGED <<kind, steps, base, merged>>
  /\ vall' = FreshLow /\ valh' = FreshHigh /\ last' = FreshLast /\ set' = FALSE
  /\ xhold' = {} /\ tog01' = {} /\ tog10' = {} /\ misc' = {} /\ wr' = {} /\ rd' = {}
  /\ rose' = {} /\ fell' = {} /\ touched' = {} /\ altered' = {} /\ fetched' = {}

(* Where bit b of the file goes: the same place, or, from a file written    *)
(* with half-size elements, the upper half for every element but the first. *)
Place(b) ==
  LET i == b \div FileBits IN
  IF FileBits = UL_BITS \/ i = 0 THEN b
  ELSE (i \div 2) * UL_BITS + FileBits + (b % FileBits)

(* vector_db_read: the planes of the first file. *)
DbRead(plane) == {Place(b) : b \in plane}

(* Fault: the first file that is merged replaces what was read. *)
DbMergeReplace(old, plane) == {Place(b) : b \in plane}

(* vector_db_merge: the elements are combined, but the first half-size one  *)
(* is stored over what the base has.                                        *)
DbMerge(old, plane) ==
  LET kept == IF FileBits = UL_BITS THEN old ELSE old \ (0..(UL_BITS - 1))
  IN  kept \cup {Place(b) : b \in plane}

MergeRead ==
  /\ merged = 0 /\ Len(cdd) = MaxFiles
  /\ merged' = 1
  /\ base' = [p \in DOMAIN base |-> DbRead(cdd[1][p])]
  /\ UNCHANGED <<kind, value, cover, steps, cdd, history, truth>>

MergeNext ==
  /\ merged > 0 /\ merged < Len(cdd)
  /\ merged' = merged + 1
  /\ base' = [p \in DOMAIN base |-> DbMerge(base[p], cdd[merged + 1][p])]
  /\ UNCHANGED <<kind, value, cover, steps, cdd, history, truth>>

Init ==
  /\ \E k \in Kinds : type = k[1] /\ is_2state = k[2] /\ net = k[3]
  /\ vall = FreshLow /\ valh = FreshHigh /\ last = FreshLast /\ set = FALSE
  /\ xhold = {} /\ tog01 = {} /\ tog10 = {} /\ misc = {} /\ wr = {} /\ rd = {}
  /\ rose = {} /\ fell = {} /\ touched = {} /\ altered = {} /\ fetched = {}
  /\ steps = 0 /\ cdd = <<>> /\ merged = 0 /\ truth = <<>>
  /\ base = [tog01 |-> {}, tog10 |-> {}, wr |-> {}, rd |-> {}]

Next == VcdStep \/ SetStep \/ PushStep \/ ReadStep \/ Write \/ MergeRead \/ MergeNext

Spec == Init /\ [][Next]_vars

-----------------------------------------------------------------------------
(* Report *)

(* memory_get_stat: an element is hit by one of its bits. *)
Hit(plane) == {e \in 0..((Width \div Element) - 1) :
                 plane \cap ((e * Element)..((e + 1) * Element - 1)) # {}}

-----------------------------------------------------------------------------
(* Properties *)

(* One type invariant. *)
TypeOK ==
  /\ <<type, is_2state, net>> \in Kinds
  /\ \A p \in {vall, valh, xhold, tog01, tog10, misc, wr, rd, rose, fell, touched, altered} : p \subseteq Bits
  /\ set \in BOOLEAN /\ steps \in 0..MaxAssign
  /\ last \in [Bits -> {"none", "0", "1"}]
  /\ fetched \subseteq 0..((Width \div Element) - 1)
  /\ Len(cdd) = Len(truth) /\ Len(cdd) <= MaxFiles /\ merged \in 0..Len(cdd)
  /\ \A p \in DOMAIN base : base[p] \subseteq Nat

(* The two bits a vector keeps of the past of an x: whether the signal bit  *)
(* was ever 0 or 1, and which of them last.  (XHOLD is refreshed only in    *)
(* the elements that change, MISC too.)                                     *)
HoldsLast ==
  \A b \in Bits : /\ b \notin valh => last[b] = (IF b \in vall THEN "1" ELSE "0")
                  /\ b \in valh => (b \in misc <=> last[b] # "none")
                  /\ (b \in valh /\ b \in misc) => (b \in xhold <=> last[b] = "1")

(* Toggle coverage is exact: after any series of assignments, of any parts  *)
(* of the vector, by the dumpfile or by expressions, the toggled bits are   *)
(* those that went from one known value to the other, directly or through   *)
(* x, although whole elements are computed at a time, with masks, and the   *)
(* elements that do not differ are skipped.                                 *)
TogglesExact == tog01 = rose /\ tog10 = fell

(* The merged file has exactly the toggles that some simulation made. *)
MergedExact ==
  merged > 0 => /\ base.tog01 = UNION {truth[i].rose : i \in 1..merged}
                /\ base.tog10 = UNION {truth[i].fell : i \in 1..merged}

ElementsOf(bits) == {b \div Element : b \in bits} \cap 0..((Width \div Element) - 1)

(* After a merge an element of a memory that changed in some simulation has *)
(* been written, one that no simulation assigned has not, and it has been   *)
(* read when some simulation read it, whoever shares its word.  (An element *)
(* of more than two words marks its neighbour as read: see MCVector.)       *)
ElementsSound ==
  (merged > 0 /\ type = "MEM") =>
     /\ UNION {ElementsOf(truth[i].altered) : i \in 1..merged} \subseteq Hit(base.wr)
     /\ Hit(base.wr) \subseteq UNION {ElementsOf(truth[i].touched) : i \in 1..merged}
     /\ Hit(base.rd) = UNION {truth[i].fetched : i \in 1..merged}
=============================================================================
