------------------------------- MODULE ExprOp -------------------------------
(****************************************************************************)
(* An expression with one operator (the functions expression_op_func__* of  *)
(* expr.c): each evaluation computes the value from those of its children   *)
(* (Vec), then sets the bits that the combinational logic coverage counts.  *)
(*                                                                          *)
(* The expression keeps its value from one evaluation to the next: what an  *)
(* operator leaves unwritten is there the next time.  "seen" records the    *)
(* bits of the operands and of the value of all evaluations, "was" the      *)
(* values as a whole.                                                       *)
(****************************************************************************)
EXTENDS Vec

CONSTANTS
  Ops,          (* the operators, as EXP_OP_* names them                     *)
  Shapes,       (* widths and signs: <<left, signed, right, signed, target>> *)
  Firsts,       (* the bits, all alike, of the operands of the evaluations   *)
                (* before the last: pairs of 0, 1, x, z                      *)
  MaxSteps      (* bound: evaluations                                        *)

ASSUME ShapeAssumption ==
  \A s \in Shapes : /\ s[1] \in Nat \ {0} /\ s[3] \in Nat \ {0} /\ s[5] \in Nat \ {0}
                    /\ s[2] \in BOOLEAN /\ s[4] \in BOOLEAN

VARIABLES
  op, shape,                     (* the expression                           *)
  left, right,                   (* the vectors of its children              *)
  l, h,                          (* its value                                *)
  set,                           (* value->suppl.set                         *)
  eval_a, eval_b, eval_c, eval_d,(* EVAL_A to EVAL_D, planes of its vector   *)
  suppl,                         (* the bits true, false, eval_t and eval_f  *)
  steps,                         (* how often it was evaluated               *)
  seen, was                      (* history                                  *)

child == <<left, right>>
evals == <<eval_a, eval_b, eval_c, eval_d>>
vars == <<op, shape, child, l, h, set, evals, suppl, steps, seen, was>>

Compares == {"LT", "LE", "GT", "GE", "EQ", "NE"}
Cases    == {"CEQ", "CNE", "CASEX", "CASEZ"}
Reduces  == {"UAND", "UOR", "UXOR", "UNAND", "UNOR", "UNXOR", "UNOT"}
OneBit   == Compares \cup Cases \cup Reduces \cup {"LAND", "LOR"}
Words    == {"MULTIPLY", "DIVIDE", "MOD"}

(* expression_create and expression_set_value size the vector of the value; *)
(* the right hand side of an assignment has the width of its left hand side.*)
Width(o, s) == IF o \in OneBit THEN 1 ELSE IF o = "LIST" THEN s[1] + s[3]
               ELSE IF o = "CLOG2" THEN UL_BITS ELSE IF o = "EXPAND" THEN 2 * s[3] ELSE s[5]

tw == Width(op, shape)

Vectors(w, signed) == [w : {w}, signed : {signed}, l : SUBSET (0..(w - 1)), h : SUBSET (0..(w - 1))]

(* A vector of which all bits are the same. *)
Uniform(w, signed, d) ==
  [w |-> w, signed |-> signed, l |-> IF d \in {"1", "z"} THEN 0..(w - 1) ELSE {},
                               h |-> IF d \in {"x", "z"} THEN 0..(w - 1) ELSE {}]

Result(a, b, junk) ==
  CASE op = "AND" -> BitwiseAnd(a, b, tw)    [] op = "NAND" -> BitwiseNand(a, b, tw)
    [] op = "OR" -> BitwiseOr(a, b, tw)      [] op = "NOR" -> BitwiseNor(a, b, tw)
    [] op = "XOR" -> BitwiseXor(a, b, tw)    [] op = "NXOR" -> BitwiseNxor(a, b, tw)
    [] op = "LT" -> OpLt(a, b, tw)           [] op = "LE" -> OpLe(a, b, tw)
    [] op = "GT" -> OpGt(a, b, tw)           [] op = "GE" -> OpGe(a, b, tw)
    [] op = "EQ" -> OpEq(a, b, tw)           [] op = "NE" -> OpNe(a, b, tw)
    [] op = "CEQ" -> OpCeq(a, b)             [] op = "CNE" -> OpCne(a, b)
    [] op = "CASEX" -> OpCxeq(a, b)          [] op = "CASEZ" -> OpCzeq(a, b)
    [] op = "LOR" -> OpLor(a, b)             [] op = "LAND" -> OpLand(a, b)
    [] op = "UAND" -> UnaryAnd(b)            [] op = "UNAND" -> UnaryNand(b)
    [] op = "UOR" -> UnaryOr(b)              [] op = "UNOR" -> UnaryNor(b)
    [] op = "UXOR" -> UnaryXor(b)            [] op = "UNXOR" -> UnaryNxor(b)
    [] op = "UNOT" -> UnaryNot(b)            [] op = "UINV" -> UnaryInv(b, tw, junk)
    [] op = "LSHIFT" -> OpLshift(a, b, tw, junk)
    [] op = "RSHIFT" -> OpRshift(a, b, tw, junk)
    [] op = "ARSHIFT" -> OpArshift(a, b, tw, junk)
    [] op = "ADD" -> OpAdd(a, b, tw)         [] op = "SUBTRACT" -> OpSubtract(a, b, tw)
    [] op = "MULTIPLY" -> OpMultiply(a, b, tw, junk)
    [] op = "DIVIDE" -> OpDivide(a, b, tw)   [] op = "MOD" -> OpModulus(a, b, tw)
    [] op = "NEGATE" -> OpNegate(b, tw, junk)
    [] op = "LIST" -> OpList(a, b)           [] op = "EXPAND" -> OpExpand(a, b, tw, junk)
    [] op = "CLOG2" -> OpClog2(a, tw)

(* The evaluations of which the code defines an outcome.  The sign of an    *)
(* arithmetic shift is filled in from its bit, which may be below bit 0,    *)
(* and a negation of several elements ends in the last of its operand.      *)
Defined(a, b) ==
  /\ op = "ARSHIFT" /\ a.signed /\ a.w - 1 \in a.l \cup a.h => vector_to_int(b) <= a.w
  /\ op = "NEGATE" /\ b.w > UL_BITS => tw - 1 \in Element(UL_DIV(b.w - 1))

-----------------------------------------------------------------------------
(* Coverage *)

AndComb == {"AND", "NAND", "LAND"}
OrComb == {"OR", "NOR", "LOR"}
OtherComb == {"XOR", "NXOR", "ADD", "SUBTRACT"}

(* Fault: a bit of the right operand that is x counts as 0. *)
AndEvalsLoose(a, b) ==
  /\ eval_a' = eval_a \cup (Room(tw) \ (a.l \cup a.h))
  /\ eval_b' = eval_b \cup (Room(tw) \ b.l)
  /\ eval_c' = eval_c \cup (Room(tw) \cap ((a.l \ a.h) \cap (b.l \ b.h)))
  /\ eval_d' = eval_d

AndEvals(a, b) ==
  /\ eval_a' = eval_a \cup (Room(tw) \ (a.l \cup a.h))
  /\ eval_b' = eval_b \cup (Room(tw) \ (b.l \cup b.h))
  /\ eval_c' = eval_c \cup (Room(tw) \cap ((a.l \ a.h) \cap (b.l \ b.h)))
  /\ eval_d' = eval_d

OrEvals(a, b) ==
  /\ eval_a' = eval_a \cup (Room(tw) \cap (a.l \ a.h))
  /\ eval_b' = eval_b \cup (Room(tw) \cap (b.l \ b.h))
  /\ eval_c' = eval_c \cup (Room(tw) \ (a.l \cup a.h \cup b.l \cup b.h))
  /\ eval_d' = eval_d

OtherEvals(a, b) ==
  LET known == Room(tw) \ (a.h \cup b.h) IN
  /\ eval_a' = eval_a \cup (known \ (a.l \cup b.l))
  /\ eval_b' = eval_b \cup ((known \ a.l) \cap b.l)
  /\ eval_c' = eval_c \cup ((known \cap a.l) \ b.l)
  /\ eval_d' = eval_d \cup (known \cap a.l \cap b.l)

UnaryEvals ==
  /\ eval_a' = eval_a \cup (Room(tw) \ (l' \cup h'))
  /\ eval_b' = eval_b \cup (Room(tw) \cap (l' \ h'))
  /\ UNCHANGED <<eval_c, eval_d>>

Evals(a, b) ==
  CASE op \in AndComb -> AndEvals(a, b) [] op \in OrComb -> OrEvals(a, b)
    [] op \in OtherComb -> OtherEvals(a, b) [] op = "CLOG2" -> UNCHANGED evals
    [] OTHER -> UnaryEvals

(* expression_set_tf_preclear, which "$clog2" leaves out *)
SetTf(changed) ==
  IF op = "CLOG2" THEN UNCHANGED <<set, suppl>>
  ELSE /\ set' = TRUE
       /\ suppl' = IF ~changed /\ set THEN suppl
                   ELSE (suppl \ {"eval_t", "eval_f"})
                        \cup (IF h' # {} THEN {} ELSE IF l' # {} THEN {"true", "eval_t"} ELSE {"false", "eval_f"})

-----------------------------------------------------------------------------
Digit(v, b) == IF b \in v.h THEN "x" ELSE IF b \in v.l THEN "1" ELSE "0"
Whole(v) == IF v.h # {} THEN "x" ELSE IF v.l # {} THEN "1" ELSE "0"
value == [w |-> tw, signed |-> FALSE, l |-> l, h |-> h]

Operate(a, b, junk) ==
  LET r == Result(a, b, junk)
      R == 0..r.to
  IN  /\ l' = (l \ R) \cup (r.l \cap R)
      /\ h' = (h \ R) \cup (r.h \cap R)
      /\ SetTf(l' # l \/ h' # h)
      /\ Evals(a, b)

Evaluate(a, b, junk) ==
  /\ steps < MaxSteps
  /\ Defined(a, b)
  /\ UNCHANGED <<op, shape>>
  /\ steps' = steps + 1
  /\ left' = a /\ right' = b
  /\ Operate(a, b, junk)
  /\ seen' = seen \cup {<<c, Digit(a, c), Digit(b, c), Digit(value', c)>> : c \in 0..(tw - 1)}
  /\ was' = was \cup {Whole(value')}

(* The vectors of the children and of the value start as x. *)
Init ==
  /\ op \in Ops /\ shape \in Shapes
  /\ op = "EXPAND" => shape[1] = 2 /\ ~shape[2]
  /\ left = Uniform(shape[1], shape[2], "x") /\ right = Uniform(shape[3], shape[4], "x")
  /\ l = {} /\ h = 0..(tw - 1)
  /\ set = FALSE /\ suppl = {}
  /\ eval_a = {} /\ eval_b = {} /\ eval_c = {} /\ eval_d = {}
  /\ steps = 0 /\ seen = {} /\ was = {}

Junks == IF op \in {"UINV", "LSHIFT", "RSHIFT", "ARSHIFT", "MULTIPLY", "NEGATE", "EXPAND"}
         THEN {{}, Room(tw)} ELSE {{}}

(* The multiplier of a replication is a constant, 2. *)
Lefts(vs) == IF op = "EXPAND" THEN {[w |-> shape[1], signed |-> shape[2], l |-> {1}, h |-> {}]} ELSE vs

Before == \E d \in Firsts, junk \in Junks : \E a \in Lefts({Uniform(shape[1], shape[2], d[1])}) :
            steps < MaxSteps - 1 /\ Evaluate(a, Uniform(shape[3], shape[4], d[2]), junk)

Last == \E a \in Lefts(Vectors(shape[1], shape[2])), b \in Vectors(shape[3], shape[4]), junk \in Junks :
          steps = MaxSteps - 1 /\ Evaluate(a, b, junk)

Next == Before \/ Last

Spec == Init /\ [][Next]_vars

-----------------------------------------------------------------------------
(* References *)

Signed(v) == Number(v.l) - (IF v.signed /\ v.w - 1 \in v.l THEN 2^v.w ELSE 0)

Holds(p) == IF p THEN 1 ELSE 0

(* What Verilog says of known operands, as a number modulo 2^tw *)
Meaning(a, b) ==
  LET x == Signed(a)  y == Signed(b)  m == Number(a.l)  n == Number(b.l)
      bits(P(_)) == Number({c \in 0..(tw - 1) : P(c)})
  IN CASE op = "AND" -> bits(LAMBDA c : c \in a.l /\ c \in b.l)
       [] op = "OR" -> bits(LAMBDA c : c \in a.l \/ c \in b.l)
       [] op = "NAND" -> bits(LAMBDA c : ~(c \in a.l /\ c \in b.l))
       [] op = "NOR" -> bits(LAMBDA c : ~(c \in a.l \/ c \in b.l))
       [] op = "XOR" -> bits(LAMBDA c : (c \in a.l) # (c \in b.l))
       [] op = "NXOR" -> bits(LAMBDA c : (c \in a.l) = (c \in b.l))
       [] op = "LT" -> Holds(x < y)  [] op = "LE" -> Holds(x <= y)
       [] op = "GT" -> Holds(x > y)  [] op = "GE" -> Holds(x >= y)
       [] op \in {"EQ", "CEQ", "CASEZ", "CASEX"} -> Holds(x = y)
       [] op \in {"NE", "CNE"} -> Holds(x # y)
       [] op = "LOR" -> Holds(m # 0 \/ n # 0)  [] op = "LAND" -> Holds(m # 0 /\ n # 0)
       [] op = "UAND" -> Holds(n = 2^b.w - 1)  [] op = "UNAND" -> Holds(n # 2^b.w - 1)
       [] op = "UOR" -> Holds(n # 0)  [] op \in {"UNOR", "UNOT"} -> Holds(n = 0)
       [] op = "UXOR" -> Cardinality(b.l) % 2  [] op = "UNXOR" -> (Cardinality(b.l) + 1) % 2
       [] op = "UINV" -> 2^b.w - 1 - n
       [] op = "LSHIFT" -> m * 2^n  [] op = "RSHIFT" -> m \div 2^n
       [] op = "ARSHIFT" -> (x \div 2^n) % 2^tw
       [] op = "ADD" -> (x + y) % 2^tw  [] op = "SUBTRACT" -> (x - y) % 2^tw
       [] op = "MULTIPLY" -> m * n
       [] op = "DIVIDE" -> m \div n  [] op = "MOD" -> m % n
       [] op = "NEGATE" -> (0 - n) % 2^tw
       [] op = "LIST" -> m * 2^b.w + n  [] op = "EXPAND" -> n * (2^b.w + 1)
       [] op = "CLOG2" -> Cardinality({k \in 0..m : 2^k < m})

Unknowable(a, b) == op \in {"DIVIDE", "MOD"} /\ Number(b.l) = 0

(* The shapes of which the code does what Verilog says, operator by         *)
(* operator; the others are in README.md, among what was met while          *)
(* modelling.                                                               *)
Filled(v) == v.signed /\ UL_MOD(v.w) = 0
Trusted ==
  LET one == shape[1] <= UL_BITS /\ shape[3] <= UL_BITS /\ tw <= UL_BITS IN
  /\ shape[2] = shape[4] /\ ~Filled(left) /\ ~Filled(right)
  /\ op \in Words => one /\ ~shape[2] /\ tw >= shape[1]
  /\ op \in {"LSHIFT", "RSHIFT", "ARSHIFT"} => ~shape[4] /\ Room(tw) \subseteq Room(shape[1])
  /\ op \in {"UINV", "NEGATE"} => tw <= shape[3]
  /\ op \in {"CASEX", "CASEZ"} => shape[1] = shape[3] /\ (op = "CASEX" => one)
  /\ op = "CLOG2" => shape[1] <= UL_BITS

IsKnown == left.h = {} /\ right.h = {}

Resolved(v) == {w \in Vectors(v.w, v.signed) : w.h = {} /\ w.l \ v.h = v.l \ v.h}

-----------------------------------------------------------------------------
(* Properties *)

(* The value and its coverage stay within the elements of the vector.       *)
TypeOK ==
  /\ left \in Vectors(shape[1], shape[2]) /\ right \in Vectors(shape[3], shape[4])
  /\ l \subseteq Room(tw) /\ h \subseteq 0..(tw - 1)
  /\ eval_a \cup eval_b \cup eval_c \cup eval_d \subseteq Room(tw)
  /\ suppl \subseteq {"true", "false", "eval_t", "eval_f"}

(* A bit of the value that is known is the one that Verilog gives, whatever  *)
(* the operands' bits that are x or z stand for.  Of &&, ||, ~& and ~| this  *)
(* is so for known operands only (vector.c:4209-4267, 3390-3519); ===, !==,  *)
(* casex and casez compare x and z themselves.                               *)
Sound ==
  steps > 0 /\ Trusted
  /\ (op \in {"LAND", "LOR", "NAND", "NOR", "CEQ", "CNE", "CASEX", "CASEZ"} => IsKnown) =>
    \A a \in Resolved(left), b \in Resolved(right) :
      Unknowable(a, b) \/ \A c \in 0..(tw - 1) \ h : (c \in l) = (Meaning(a, b) \div 2^c % 2 = 1)

(* The sum of two known operands is their sum, wrapped around at the width   *)
(* of the value (vector.c:4403-4407).                                        *)
SumExact ==
  steps > 0 /\ op = "ADD" /\ IsKnown => Number(l \cap 0..(tw - 1)) = (Signed(left) + Signed(right)) % 2^tw

(* Known operands give a known value, within its width, whatever the value   *)
(* was before; dividing by 0 gives x.                                        *)
Decisive ==
  steps > 0 /\ Trusted /\ IsKnown =>
    h = (IF Unknowable(left, right) THEN 0..(tw - 1) ELSE {}) /\ l \subseteq 0..(tw - 1)

(* Values are computed element by element with carries between them; what   *)
(* comes out is what Verilog gives, and nothing is left unknown or behind   *)
(* the width that need not be.                                              *)
ValuesExact == Sound /\ Decisive

(* That an evaluation gave bit c of the operands and of the value such digits. *)
Had(c, as, bs, vs) == \E s \in seen : s[1] = c /\ s[2] \in as /\ s[3] \in bs /\ s[4] \in vs

EvalIs(c, a, b, cc, d) ==
  (c \in eval_a <=> a) /\ (c \in eval_b <=> b) /\ (c \in eval_c <=> cc) /\ (c \in eval_d <=> d)

EvalsAt(c) ==
  LET any == {"0", "1", "x"}
      had(as, bs) == Had(c, as, bs, any)
  IN CASE op \in AndComb -> EvalIs(c, had({"0"}, any), had(any, {"0"}), had({"1"}, {"1"}), FALSE)
       [] op \in OrComb -> EvalIs(c, had({"1"}, any), had(any, {"1"}), had({"0"}, {"0"}), FALSE)
       [] op \in OtherComb -> EvalIs(c, had({"0"}, {"0"}), had({"0"}, {"1"}), had({"1"}, {"0"}), had({"1"}, {"1"}))
       [] op = "CLOG2" -> EvalIs(c, FALSE, FALSE, FALSE, FALSE)
       [] OTHER -> EvalIs(c, Had(c, any, any, {"0"}), Had(c, any, any, {"1"}), FALSE, FALSE)

(* The bits EVAL_A to EVAL_D tell, bit by bit, which of the combinations of  *)
(* known operands have occurred in an evaluation: for &, ~& and && a left 0, *)
(* a right 0, two ones; for |, ~| and || a left 1, a right 1, two zeroes;    *)
(* for ^, ~^, + and - each pair; for the others the values 0 and 1           *)
(* (vector.c:2154-2313).                                                     *)
EvalsExact == \A c \in 0..(tw - 1) : EvalsAt(c)

(* An expression tells of itself, for the coverage of its parent, that it is *)
(* true or false, exactly when its value is known, and remembers which it    *)
(* has been (expr.c:1954-1982): an evaluation that changes nothing leaves    *)
(* this alone, one that makes the value x clears it.                         *)
TruthExact ==
  steps > 0 /\ op # "CLOG2" =>
    /\ "eval_t" \in suppl <=> Whole(value) = "1"
    /\ "eval_f" \in suppl <=> Whole(value) = "0"
    /\ "true" \in suppl <=> "1" \in was
    /\ "false" \in suppl <=> "0" \in was

(* What an expression records of its evaluations is what happened in them.  *)
CoverageExact == EvalsExact /\ TruthExact
=============================================================================
