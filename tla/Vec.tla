-------------------------------- MODULE Vec --------------------------------
(****************************************************************************)
(* The operators of Verilog on four-state vectors (vector.c).               *)
(*                                                                          *)
(* A vector is a record: its width w, whether it is signed, and its two     *)
(* planes l (VALL) and h (VALH), each the set of the positions of its ones. *)
(* A bit is 0, 1, x or z as it is in neither, in l, in h or in both.        *)
(* Position b is bit UL_MOD(b) of element UL_DIV(b) of the array of         *)
(* unsigned longs.                                                          *)
(*                                                                          *)
(* An operator computes the two planes of its result in scratch arrays on   *)
(* the stack, and the bits 0..to of the target take their values.  It is    *)
(* here a record of the planes l and h and of "to"; what the scratch arrays *)
(* hold before is "junk", in both of them, for the bits not written.        *)
(****************************************************************************)
EXTENDS Integers, FiniteSets, FiniteSetsExt

CONSTANT UL_BITS     (* bits of an unsigned long *)

ASSUME WordAssumption == UL_BITS \in Nat \ {0}

UL_DIV(b) == b \div UL_BITS
UL_MOD(b) == b % UL_BITS
UL_SIZE(width) == UL_DIV(width - 1) + 1

(* The bits of the elements of a vector of a width, and of one element. *)
Room(width) == 0..(UL_SIZE(width) * UL_BITS - 1)
Element(i) == (i * UL_BITS)..(i * UL_BITS + UL_BITS - 1)

(* A plane as a number, and back. *)
Number(p) == FoldSet(LAMBDA b, sum : sum + 2^b, 0, p)
Plane(n, bits) == {b \in bits : (n \div 2^b) % 2 = 1}
Shifted(p, n) == {b + n : b \in {c \in p : c + n >= 0}}

Msb(v) == v.w - 1 \in v.l

vector_is_unknown(v) == v.h # {}
vector_is_not_zero(v) == v.l # {}

Computed(l, h, to) == [l |-> l, h |-> h, to |-> to]
Bit(l, h) == Computed(IF l THEN {0} ELSE {}, IF h THEN {0} ELSE {}, 0)

vector_set_to_x(tw) == Computed({}, 0..(tw - 1), tw - 1)

(* A result that is x as soon as an operand is not known. *)
Known(vs, tw, result) == IF \E v \in vs : vector_is_unknown(v) THEN vector_set_to_x(tw) ELSE result

(* vector_to_int, for values of less than 32 bits *)
vector_to_int(v) ==
  Number(v.l \cap Element(0)) - (IF v.signed /\ v.w <= UL_BITS /\ Msb(v) THEN 2^v.w ELSE 0)

-----------------------------------------------------------------------------
(* Bitwise operators: the shorter operand is filled with zeroes. *)

BitwiseAnd(a, b, tw) ==
  Computed((a.l \cap b.l) \ (a.h \cup b.h),
           (a.h \cap b.h) \cup (a.h \cap b.l) \cup (b.h \cap a.l), tw - 1)

BitwiseNand(a, b, tw) ==
  Computed(Room(tw) \ (a.h \cup b.h \cup (a.l \cap b.l)),
           (a.h \cap b.h) \cup (a.h \ b.l) \cup (b.h \ a.l), tw - 1)

BitwiseOr(a, b, tw) ==
  LET ones == (a.l \ a.h) \cup (b.l \ b.h) IN Computed(ones, (a.h \cup b.h) \ ones, tw - 1)

BitwiseNor(a, b, tw) ==
  Computed(Room(tw) \ (a.h \cup b.h \cup a.l \cup b.l),
           (a.h \cap b.h) \cup (a.h \cap b.l) \cup (b.h \cap a.l), tw - 1)

Differing(a, b) == (a.l \ b.l) \cup (b.l \ a.l)

BitwiseXor(a, b, tw) == Computed(Differing(a, b) \ (a.h \cup b.h), a.h \cup b.h, tw - 1)

BitwiseNxor(a, b, tw) == Computed(Room(tw) \ (Differing(a, b) \cup a.h \cup b.h), a.h \cup b.h, tw - 1)

UnaryInv(a, tw, junk) ==
  Computed((0..(a.w - 1) \ (a.l \cup a.h)) \cup (junk \ Room(a.w)), a.h \cup (junk \ Room(a.w)), tw - 1)

-----------------------------------------------------------------------------
(* Comparisons, from the top element down until two elements differ *)

(* Fault: an operand keeps its zeroes above the most significant bit. *)
ZeroExtended(v, n) == v.l \cap 0..(n * UL_BITS - 1)

(* Elements 0..n - 1 of VALL as copy_val_and_sign_extend gives them: UL_LMASK *)
(* of the width is all of the last element when the vector fills it.        *)
Extended(v, n) ==
  LET from == IF UL_MOD(v.w) = 0 THEN v.w - UL_BITS ELSE v.w
      top  == n * UL_BITS - 1
  IN  (v.l \cap 0..top) \cup (IF v.signed /\ Msb(v) THEN from..top ELSE {})

Elements(a, b) == IF UL_SIZE(a.w) < UL_SIZE(b.w) THEN UL_SIZE(b.w) ELSE UL_SIZE(a.w)

Reversed(a, b) == a.signed /\ b.signed /\ Msb(a) # Msb(b)

Order(a, b) ==
  LET n == Elements(a, b)
      x == Number(Extended(a, n))
      y == Number(Extended(b, n))
  IN  IF Reversed(a, b) THEN <<y, x>> ELSE <<x, y>>

OpLt(a, b, tw) == Known({a, b}, tw, Bit(Order(a, b)[1] < Order(a, b)[2], FALSE))
OpLe(a, b, tw) == Known({a, b}, tw, Bit(Order(a, b)[1] <= Order(a, b)[2], FALSE))
OpGt(a, b, tw) == Known({a, b}, tw, Bit(Order(a, b)[1] > Order(a, b)[2], FALSE))
OpGe(a, b, tw) == Known({a, b}, tw, Bit(Order(a, b)[1] >= Order(a, b)[2], FALSE))
OpEq(a, b, tw) == Known({a, b}, tw, Bit(Order(a, b)[1] = Order(a, b)[2], FALSE))
OpNe(a, b, tw) == Known({a, b}, tw, Bit(Order(a, b)[1] # Order(a, b)[2], FALSE))

vector_ceq(a, b) == Extended(a, Elements(a, b)) = Extended(b, Elements(a, b)) /\ a.h = b.h

OpCeq(a, b) == Bit(vector_ceq(a, b), FALSE)
OpCne(a, b) == Bit(~vector_ceq(a, b), FALSE)

Narrower(a, b) == IF a.w < b.w THEN a.w ELSE b.w

(* UL_HMASK of the narrower operand, for every element or for the top one *)
HMask(a, b, i) == {c \in Element(i) : UL_MOD(c) <= UL_MOD(Narrower(a, b) - 1)}

Alike(a, b) ==
  LET n == Elements(a, b) IN
  0..(n * UL_BITS - 1) \ ((Extended(a, n) \ Extended(b, n)) \cup (Extended(b, n) \ Extended(a, n)))

OpCxeq(a, b) ==
  Bit(\A i \in 0..(Elements(a, b) - 1) : HMask(a, b, i) \subseteq Alike(a, b) \cup a.h \cup b.h, FALSE)

OpCzeq(a, b) ==
  LET n == Elements(a, b)
      same == Alike(a, b) \ ((a.h \ b.h) \cup (b.h \ a.h))
      wild == (a.h \cap Extended(a, n)) \cup (b.h \cap Extended(b, n))
      mask(i) == IF i = n - 1 THEN HMask(a, b, i) ELSE Element(i)
  IN  Bit(\A i \in 0..(n - 1) : mask(i) \subseteq same \cup wild, FALSE)

-----------------------------------------------------------------------------
(* Logical and reduction operators *)

Truth(a) == ~vector_is_unknown(a) /\ vector_is_not_zero(a)

OpLor(a, b) == Bit(Truth(a) \/ Truth(b), vector_is_unknown(a) /\ vector_is_unknown(b))
OpLand(a, b) == Bit(Truth(a) /\ Truth(b), vector_is_unknown(a) /\ vector_is_unknown(b))

AllOnes(a, i) == Element(i) \cap 0..(a.w - 1) \subseteq a.l

Above(i) == 0..(i * UL_BITS + UL_BITS - 1)

UnaryAnd(a) == Bit(a.h = {} /\ a.l = 0..(a.w - 1), a.h # {})

(* An element with a 0 counts as long as no element up to it is unknown. *)
UnaryNand(a) ==
  Bit(\E i \in 0..UL_DIV(a.w - 1) : a.h \cap Above(i) = {} /\ ~AllOnes(a, i), a.h # {})

UnaryOr(a) == Bit(a.l \ a.h # {}, a.l \ a.h = {} /\ a.h # {})
UnaryNor(a) == Bit(a.l = {} /\ a.h = {}, a.l \ a.h = {} /\ a.h # {})

Odd(p) == Cardinality(p) % 2 = 1

UnaryXor(a) == Bit(a.h = {} /\ Odd(a.l), a.h # {})
UnaryNxor(a) == Bit(a.h = {} /\ ~Odd(a.l), a.h # {})

(* The first element that is not all 0 decides. *)
UnaryNot(a) ==
  LET busy == {i \in 0..UL_DIV(a.w - 1) : (a.l \cup a.h) \cap Element(i) # {}} IN
  Bit(busy = {}, busy # {} /\ a.h \cap Element(Min(busy)) # {})

-----------------------------------------------------------------------------
(* Shifts: the scratch arrays are written up to the element of "msb". *)

ShiftedLeft(v, n, msb, tw, junk) ==
  LET rest == junk \ Room(msb + 1) IN Computed(Shifted(v.l, n) \cup rest, Shifted(v.h, n) \cup rest, tw - 1)

OpLshift(a, b, tw, junk) == Known({b}, tw,
  LET n == vector_to_int(b) IN ShiftedLeft(a, n, a.w + n - 1, tw, junk))

(* The elements above the result are cleared up to one too many. *)
ShiftedRight(v, n, tw, junk) ==
  IF n < 0 THEN ShiftedLeft(v, 0 - n, v.w - 1 - n, tw, junk)
  ELSE LET clear == IF n > v.w - 1 THEN UL_SIZE(v.w) ELSE UL_SIZE(v.w) + 1
           rest  == junk \ 0..(clear * UL_BITS - 1)
       IN  Computed(Shifted(v.l, 0 - n) \cup rest, Shifted(v.h, 0 - n) \cup rest, tw - 1)

OpRshift(a, b, tw, junk) == Known({b}, tw, ShiftedRight(a, vector_to_int(b), tw, junk))

(* The sign of a signed operand fills the result from the bit that followed. *)
OpArshift(a, b, tw, junk) == Known({b}, tw,
  LET n     == vector_to_int(b)
      plain == ShiftedRight(a, n, tw, junk)
      fill  == {c \in Room(tw) : c > a.w - 1 - n}
      sign(p) == IF a.w - 1 \in p THEN fill ELSE {}
  IN  IF ~a.signed \/ sign(a.l) \cup sign(a.h) = {} THEN plain
      ELSE Computed((plain.l \ fill) \cup sign(a.l), (plain.h \ fill) \cup sign(a.h), tw - 1))

-----------------------------------------------------------------------------
(* Arithmetic *)

(* Fault: only the first element is assigned. *)
SumFirst(x, y, tw) == Computed(Plane((x + y) % 2^UL_BITS, Element(0)), {}, UL_BITS - 1)

(* Element by element with the carry: a sum modulo the room of the target *)
Sum(x, y, tw) == Computed(Plane((x + y) % 2^(UL_SIZE(tw) * UL_BITS), Room(tw)), {}, tw - 1)

OpAdd(a, b, tw) == Known({a, b}, tw,
  Sum(Number(Extended(a, UL_SIZE(tw))), Number(Extended(b, UL_SIZE(tw))), tw))

OpSubtract(a, b, tw) == Known({a, b}, tw,
  Sum(Number(Extended(a, UL_SIZE(tw))), Number(Room(tw) \ Extended(b, UL_SIZE(tw))) + 1, tw))

Word(v) == Number(v.l \cap Element(0))

(* Only the first element of the operands, and of the scratch array *)
OneWord(n, to, junk) == Computed(Plane(n % 2^UL_BITS, Element(0)) \cup (junk \ Element(0)), junk \ Element(0), to)

OpMultiply(a, b, tw, junk) == Known({a, b}, tw, OneWord(Word(a) * Word(b), tw - 1, junk))

OpDivide(a, b, tw) == Known({a, b}, tw,
  IF Word(b) = 0 THEN vector_set_to_x(tw) ELSE OneWord(Word(a) \div Word(b), UL_BITS - 1, {}))

OpModulus(a, b, tw) == Known({a, b}, tw,
  IF Word(b) = 0 THEN vector_set_to_x(tw) ELSE OneWord(Word(a) % Word(b), UL_BITS - 1, {}))

(* A longer operand: the carry runs from element to element up to the width *)
(* of the target.                                                           *)
OpNegate(a, tw, junk) == Known({a}, tw,
  IF a.w <= UL_BITS THEN OneWord(2^UL_BITS - Word(a), tw - 1, junk)
  ELSE LET n == Number(Room(a.w) \ a.l) + 1
       IN  Computed(Plane(n, 0..(tw - 1) \cap Room(a.w)) \cup (junk \ Room(a.w)), junk \ Room(a.w), tw - 1))

(* Concatenation: the bits of b below those of a; b "count" times *)
OpList(a, b) == Computed(b.l \cup Shifted(a.l, b.w), b.h \cup Shifted(a.h, b.w), a.w + b.w - 1)

OpExpand(a, b, tw, junk) ==
  LET count == vector_to_int(a)
      copies(p) == UNION {Shifted(p, i * b.w) : i \in 0..(count - 1)}
      rest == junk \ Room(count * b.w)
  IN  Computed(copies(b.l) \cup rest, copies(b.h) \cup rest, tw - 1)

(* One bit less for a power of two: when the top element has one bit, and   *)
(* the search for another bit below has come to element 0.                  *)
OpClog2(a, tw) == Known({a}, tw,
  LET busy  == {i \in 0..UL_DIV(a.w - 1) : a.l \cap Element(i) # {}}
      top   == Max(busy)
      one   == Cardinality(a.l \cap Element(top)) = 1
      below == busy \ {0, top}
  IN  IF busy = {} THEN Computed({}, {}, tw - 1)
      ELSE LET n == Max(a.l) + 1
           IN  Computed(Plane(IF one /\ below = {} THEN n - 1 ELSE n, Room(tw)), {}, tw - 1))
=============================================================================
