------------------------------ MODULE CombCov ------------------------------
(****************************************************************************)
(* Combinational logic coverage of one statement: the simulation of its     *)
(* expression tree (sim_expr_changed, sim_expression, expression_operate),  *)
(* the CDD of the run, the report on it (combination_get_stats), exclusions *)
(* made on the report, which adjust its numbers (exclude_expr_assign_and_   *)
(* recalc), and the merge with the CDD of another run.                      *)
(*                                                                          *)
(* Values are single bits.  The tree is numbered from its root, 1, down; a  *)
(* COND has the condition on the left and a COND_SEL, which selects one of  *)
(* its own children, on the right, with a lower number than the condition.  *)
(* The root is an IF or the ASSIGN of a continuous assignment, with the     *)
(* expression on its right.  "seen" keeps, for every expression, the values *)
(* that it and its children should have had in the evaluations of the       *)
(* statement, computed from the signals.                                    *)
(****************************************************************************)
EXTENDS Naturals, Sequences, FiniteSets

CONSTANTS
  Trees,             (* sequences of [op, left, right, sig]; no child is 0,  *)
                     (* and the value of a STATIC is its "sig"               *)
  Signals,
  allow_multi_expr,  (* a chain of one AND or OR operator counts as one      *)
  MaxChanges,        (* bound: value changes of signals                      *)
  MaxExcludes        (* bound: exclusions and inclusions                     *)

Leaf == {"SIG", "STATIC"}
Unary == {"UINV", "IF", "ASSIGN"}
Binary == {"AND", "OR", "XOR", "COND", "COND_SEL"}
Bit == {"0", "1", "x"}

(* Every expression but the root is the child of one with a lower number.   *)
IsTree(t) ==
  LET kids(n) == {t[n].left, t[n].right} \ {0}
      N == DOMAIN t
  IN /\ t # <<>>
     /\ t \in Seq([op : Leaf \cup Unary \cup Binary, left : Nat, right : Nat, sig : Signals \cup Bit \cup {""}])
     /\ \A n \in N : /\ kids(n) \subseteq n+1..Len(t)
                     /\ n # 1 => \E p \in N : n \in kids(p)
                     /\ \A p \in N : kids(n) \cap kids(p) # {} => n = p
                     /\ t[n].op \in Leaf => t[n].left = 0 /\ t[n].right = 0
                     /\ t[n].op \in Unary => t[n].left = 0 /\ t[n].right # 0
                     /\ t[n].op \in Binary => t[n].left # 0 /\ t[n].right # 0 /\ t[n].left # t[n].right
                     /\ t[n].op = "SIG" => t[n].sig \in Signals
                     /\ t[n].op = "STATIC" => t[n].sig \in Bit
                     /\ t[n].op = "COND" => t[t[n].right].op = "COND_SEL" /\ t[n].right < t[n].left
                     /\ \A k \in kids(n) : t[k].op = "COND_SEL" => t[n].op = "COND" /\ k = t[n].right
                     /\ t[n].op \in {"IF", "ASSIGN"} <=> n = 1

ASSUME TreesAssumption == \A t \in Trees : IsTree(t)

ASSUME BoundsAssumption == MaxChanges \in Nat /\ MaxExcludes \in Nat

VARIABLES
  tree,           (* the statement                                           *)
  value,          (* the values of the signals                               *)
  exp,            (* the expressions                                         *)
  excluded,       (* stmt->suppl.part.excluded                               *)
  phase,          (* "score", "report" or "merged"                           *)
  stat,           (* the statistics shown: hits, exclusions and total of     *)
                  (* combinations, hits and exclusions of the line           *)
  file,           (* the CDD of the first run                                *)
  changes, excludes,
  seen, excluded_line    (* history *)

vars == <<tree, value, exp, excluded, phase, stat, file, changes, excludes,
          seen, excluded_line>>

None == [none |-> TRUE]
cont == tree[1].op = "ASSIGN"    (* stmt->suppl.part.cont *)
Nodes == DOMAIN tree
Kids(n) == {tree[n].left, tree[n].right} \ {0}
Parent(n) == CHOOSE p \in Nodes : n \in Kids(p)

And(a, b) == IF "0" \in {a, b} THEN "0" ELSE IF "x" \in {a, b} THEN "x" ELSE "1"
Not(a) == CASE a = "0" -> "1" [] a = "1" -> "0" [] a = "x" -> "x"
Or(a, b) == Not(And(Not(a), Not(b)))
Xor(a, b) == IF "x" \in {a, b} THEN "x" ELSE IF a = b THEN "0" ELSE "1"

(* The value of expression n, given those of its children; that of a        *)
(* COND_SEL depends on the left child of its parent.                        *)
Operation(n, val) ==
  LET t == tree[n]
      a == val[t.left]
      b == val[t.right]
      c == val[tree[Parent(n)].left]
  IN CASE t.op = "SIG"    -> value[t.sig]
       [] t.op = "STATIC" -> t.sig
       [] t.op = "AND"    -> And(a, b)
       [] t.op = "OR"     -> Or(a, b)
       [] t.op = "XOR"    -> Xor(a, b)
       [] t.op = "UINV"   -> Not(b)
       [] t.op \in {"COND", "IF", "ASSIGN"} -> b
       [] t.op = "COND_SEL" -> IF c = "1" THEN a ELSE IF c = "0" THEN b ELSE "x"

(****************************************************************************)
(* Simulation.                                                              *)
(****************************************************************************)
(* The mark of its parent p that expression n sets. *)
Marked(e, n, p) == IF tree[p].left = n THEN e[p].left_changed ELSE e[p].right_changed

(* Fault: the climb stops where either mark of the parent is set.           *)
StopsEither(e, n, p) == e[p].left_changed \/ e[p].right_changed

(* The climb stops where the mark it would set is set.                      *)
Stops(e, n, p) == Marked(e, n, p)

(* The expressions reached from leaves S of which the values change.  The   *)
(* climb from one leaf may stop at a mark that the climb from another has   *)
(* just made, above which the rest of the path is marked too.               *)
Reached(e, S) ==
  LET reached[n \in Nodes] == \/ n \in S
                              \/ \E k \in Kids(n) : reached[k] /\ ~Stops(e, k, n)
  IN reached

(* sim_expr_changed: e with the marks that changes of leaves S make.  A     *)
(* COND of which the condition changed is marked on both sides.             *)
Changed(e, S) ==
  LET reached == Reached(e, S)
      comes(k, n) == k # 0 /\ reached[k] /\ ~Stops(e, k, n)
  IN [n \in Nodes |->
        [e[n] EXCEPT !.left_changed = @ \/ n \in S \/ comes(tree[n].left, n),
                     !.right_changed = \/ @ \/ comes(tree[n].right, n)
                                       \/ tree[n].op = "COND" /\ comes(tree[n].left, n)]]

Leaves(s) == {n \in Nodes : tree[n].op = "SIG" /\ tree[n].sig = s}
Statics == {n \in Nodes : tree[n].op = "STATIC"}

(* sim_expression goes down the marks and operates on the way up.  An       *)
(* expression at the root of a continuous assignment is operated only if    *)
(* one of its children changed.                                             *)
Visits ==
  LET visits[n \in Nodes] == \/ n = 1
                             \/ visits[Parent(n)] /\ Marked(exp, n, Parent(n))
  IN visits
Visited == {n \in Nodes : Visits[n]}

Evaluated ==
  LET val[n \in Nodes \cup {0}] ==
        IF n = 0 THEN "x" ELSE IF n \in Visited \/ tree[n].op = "SIG" THEN Operation(n, val) ELSE exp[n].val
  IN val

Same(n) == Evaluated[n] = exp[n].val

Null == {"SIG", "STATIC", "IF", "ASSIGN"}    (* expression_op_func__sig, __null *)

Returns(n) == tree[n].op \in Null \/ ~Same(n)

Operated ==
  {n \in Visited : \/ n # 1 \/ ~cont
                   \/ \E k \in Kids(n) \cap Visited : Returns(k)}

(* expression_set_tf_preclear, and expression_set_tf for a STATIC. *)
SetTf(e, n) ==
  IF ~Returns(n) /\ e.set THEN e
  ELSE [e EXCEPT !.set = TRUE,
                 !.true = @ \/ e.val = "1",   !.eval_t = e.val = "1",
                 !.false = @ \/ e.val = "0",  !.eval_f = e.val = "0"]

(* expression_set_and_eval_NN, or_eval_NN and other_eval_NN, from the bits  *)
(* that the operations of the children left.                                *)
AndEvalNN(l, r) == {nn \in {"01", "10", "11"} : \/ nn = "01" /\ l.eval_f
                                                \/ nn = "10" /\ r.eval_f
                                                \/ nn = "11" /\ l.eval_t /\ r.eval_t}
OrEvalNN(l, r) == {nn \in {"00", "01", "10"} : \/ nn = "00" /\ l.eval_f /\ r.eval_f
                                               \/ nn = "01" /\ r.eval_t
                                               \/ nn = "10" /\ l.eval_t}
OtherEvalNN(l, r) == {nn \in {"00", "01", "10", "11"} : \/ nn = "00" /\ l.eval_f /\ r.eval_f
                                                        \/ nn = "01" /\ l.eval_f /\ r.eval_t
                                                        \/ nn = "10" /\ l.eval_t /\ r.eval_f
                                                        \/ nn = "11" /\ l.eval_t /\ r.eval_t}

EvalNN(n, l, r) == CASE tree[n].op = "AND" -> AndEvalNN(l, r)
                     [] tree[n].op = "OR"  -> OrEvalNN(l, r)
                     [] tree[n].op = "XOR" -> OtherEvalNN(l, r)
                     [] OTHER -> {}

Operate(n, e) ==
  IF n \notin Operated THEN exp[n]
  ELSE LET s == SetTf([exp[n] EXCEPT !.val = Evaluated[n], !.exec_num = TRUE], n)
       IN [s EXCEPT !.eval = @ \cup EvalNN(n, e[tree[n].left], e[tree[n].right])]

Unmarked(e) == [e EXCEPT !.left_changed = FALSE, !.right_changed = FALSE]

Simulated ==
  LET new[n \in Nodes \cup {0}] ==
        IF n = 0 THEN None ELSE IF n \in Visited THEN Unmarked(Operate(n, new)) ELSE exp[n]
  IN new
SimExpression == [n \in Nodes |-> Simulated[n]]

(****************************************************************************)
(* The report.                                                              *)
(****************************************************************************)
Chains == IF allow_multi_expr THEN {"AND", "OR"} ELSE {}

(* An AND below an AND (OR below OR) is counted with the topmost of them.   *)
Inner(n) == n # 1 /\ tree[n].op \in Chains /\ tree[Parent(n)].op = tree[n].op
Chained(n) == Inner(n) \/ \E k \in Kids(n) : Inner(k)

Top == LET top[n \in Nodes] == IF Inner(n) THEN top[Parent(n)] ELSE n IN top

(* expression_is_static_only; there is nothing below a missing child. *)
StaticOnly ==
  LET static[n \in Nodes \cup {0}] ==
        CASE n = 0 -> TRUE
          [] tree[n].op = "STATIC" -> TRUE
          [] tree[n].op = "SIG" -> FALSE
          [] tree[n].op = "COND" -> static[tree[n].right]
          [] OTHER -> static[tree[n].left] /\ static[tree[n].right]
  IN static

(* EXPR_IS_MEASURABLE and EXPR_IS_COMB *)
Measurable(n) ==
  /\ tree[n].op \notin {"STATIC", "COND_SEL", "IF", "ASSIGN"}
  /\ tree[n].op = "SIG" => tree[Parent(n)].op \in {"ASSIGN", "IF", "COND"}

Comb(n) == /\ tree[n].op \in {"AND", "OR", "XOR"}
           /\ ~StaticOnly[tree[n].left] /\ ~StaticOnly[tree[n].right]

Pairs(op) == CASE op = "AND" -> {"01", "10", "11"} [] op = "OR" -> {"00", "01", "10"}
               [] op = "XOR" -> {"00", "01", "10", "11"}

(* The coverage points of an expression.  In a chain every operand has one, *)
(* at the member it is a child of, and the topmost member has one more.     *)
Points(n) ==
  CASE Chained(n) ->
         {nn \in Pairs(tree[n].op) :
            LET left == IF tree[n].op = "AND" THEN "01" ELSE "10"
                right == IF tree[n].op = "AND" THEN "10" ELSE "01"
            IN CASE nn = left -> ~Inner(tree[n].left) [] nn = right -> ~Inner(tree[n].right)
                 [] OTHER -> ~Inner(n)}
    [] ~Chained(n) /\ Measurable(n) /\ ~StaticOnly[n] ->
         IF Comb(n) THEN Pairs(tree[n].op) ELSE {"true", "false"}
    [] OTHER -> {}

Hits(e, n) == {p \in Points(n) : CASE p = "true" -> e[n].true [] p = "false" -> e[n].false
                                    [] OTHER -> p \in e[n].eval}

Ancestors(n) ==    (* and n itself *)
  LET up[m \in Nodes] == IF m = 1 THEN {1} ELSE {m} \cup up[Parent(m)] IN up[n]
Subtree(n) == {m \in Nodes : n \in Ancestors(m)}

ExcludedBelow(e, start, n) == \E m \in Ancestors(n) \cap Subtree(start) : e[m].excluded

(* The coverage points of expressions S, and those that are hit.            *)
PointsOf(S) == UNION {{n} \X Points(n) : n \in S}
HitsOf(e, S) == UNION {{n} \X Hits(e, n) : n \in S}

(* combination_get_tree_stats of the tree below start, of which something   *)
(* above is excluded if "above" is TRUE.                                    *)
TreeStats(e, start, above) ==
  LET S == {n \in Subtree(start) : Top[n] \in Subtree(start)}
      X == {n \in S : above \/ ExcludedBelow(e, start, n)}
  IN [hit      |-> Cardinality(PointsOf(X)) + Cardinality(HitsOf(e, S \ X)),
      excluded |-> Cardinality(PointsOf(X)),
      total    |-> Cardinality(PointsOf(S))]

LineStats(e, ex) == [hit      |-> IF e[1].exec_num \/ ex THEN 1 ELSE 0,
                     excluded |-> IF ex THEN 1 ELSE 0]

(* combination_get_stats and line_get_stats *)
Report(e, ex) == [comb |-> TreeStats(e, 1, ex), line |-> LineStats(e, ex)]

(* The expressions that the report underlines: what misses a point, and all *)
(* of a chain if one of its members does.                                   *)
Underlined(n) ==
  LET p == IF n = 1 THEN n ELSE Parent(n)
      misses(t) == \E m \in Nodes : Top[m] = t /\ ~(Pairs(tree[m].op) \subseteq exp[m].eval)
  IN \/ ~Chained(n) /\ Hits(exp, n) # Points(n)
     \/ Chained(n) /\ Top[n] = n /\ misses(n)
     \/ Chained(p) /\ ~Inner(n) /\ misses(Top[p])

(****************************************************************************)
(* The actions.                                                             *)
(****************************************************************************)
Fresh(t) ==
  [n \in DOMAIN t |->
     [val |-> IF t[n].op = "STATIC" THEN t[n].sig ELSE "x", set |-> FALSE,
      left_changed |-> FALSE, right_changed |-> FALSE, true |-> FALSE, false |-> FALSE,
      eval_t |-> FALSE, eval_f |-> FALSE, eval |-> {}, excluded |-> FALSE, exec_num |-> FALSE]]

Unseen(t) == [n \in DOMAIN t |-> {}]

(* sim_add_statics marks the paths from the constants. *)
Init ==
  /\ tree \in Trees
  /\ value = [s \in Signals |-> "x"]
  /\ exp = Changed(Fresh(tree), Statics)
  /\ phase = "score" /\ excluded = FALSE /\ file = None /\ stat = None
  /\ changes = 0 /\ excludes = 0
  /\ seen = Unseen(tree) /\ excluded_line = FALSE

(* A signal gets another value (vsignal_propagate). *)
Change(s, v) ==
  /\ phase = "score" /\ changes < MaxChanges /\ v # value[s]
  /\ value' = [value EXCEPT ![s] = v]
  /\ exp' = Changed(exp, Leaves(s))
  /\ changes' = changes + 1
  /\ UNCHANGED <<tree, excluded, phase, stat, file, excludes, seen, excluded_line>>

(* What the expressions should be worth. *)
Worth == LET val[n \in Nodes \cup {0}] == IF n = 0 THEN "x" ELSE Operation(n, val) IN val

Pair(l, r) == CASE <<l, r>> = <<"0", "0">> -> "00" [] <<l, r>> = <<"0", "1">> -> "01"
                [] <<l, r>> = <<"1", "0">> -> "10" [] <<l, r>> = <<"1", "1">> -> "11" [] OTHER -> "x"

Facts(l, r, v) ==
  {f \in {[side |-> "left", is |-> l], [side |-> "right", is |-> r],
          [side |-> "both", is |-> Pair(l, r)], [side |-> "value", is |-> v]} : f.is # "x"}

(* The statement is executed. *)
Execute ==
  /\ phase = "score"
  /\ exp' = SimExpression
  /\ seen' = [n \in Nodes |->
                seen[n] \cup Facts(Worth[tree[n].left], Worth[tree[n].right], Worth[n])]
  /\ UNCHANGED <<tree, value, excluded, phase, stat, file, changes, excludes, excluded_line>>

(* expression_db_write writes the bits of ESUPPL_MERGE_MASK; a continuous   *)
(* assignment counts as executed.                                           *)
Written ==
  [n \in Nodes |-> [Fresh(tree)[n] EXCEPT
     !.true = exp[n].true, !.false = exp[n].false, !.eval = exp[n].eval, !.excluded = exp[n].excluded,
     !.exec_num = exp[n].exec_num \/ (n = 1 /\ cont)]]

(* The run ends, its CDD is written and read by the report command. *)
EndRun ==
  /\ phase = "score"
  /\ exp' = Written
  /\ value' = [s \in Signals |-> "x"]
  /\ phase' = "report" /\ stat' = Report(Written, excluded)
  /\ UNCHANGED <<tree, excluded, file, changes, excludes, seen, excluded_line>>

(* exclude_is_parent_excluded, of the expression itself too *)
ParentExcluded(e, n) == \E m \in Ancestors(n) : e[m].excluded

(* Fault: the numbers are taken after the expression is excluded.           *)
RecalculatedLate(n, ex) ==
  LET e == [exp EXCEPT ![n].excluded = ex]
      s == TreeStats(e, n, ParentExcluded(e, n))
      line == IF n = 1 /\ ~exp[1].exec_num THEN 1 ELSE 0
      plus(a, b) == IF ex THEN a + b ELSE a - b
  IN [comb |-> [hit      |-> plus(stat.comb.hit, s.total - s.hit),
                excluded |-> plus(stat.comb.excluded, s.total - s.excluded),
                total    |-> stat.comb.total],
      line |-> [hit      |-> plus(stat.line.hit, line),
                excluded |-> plus(stat.line.excluded, line)]]

(* The numbers after expression n is excluded (ex) or included. *)
Recalculated(n, ex) ==
  LET e == IF ex THEN exp ELSE [exp EXCEPT ![n].excluded = FALSE]
      s == TreeStats(e, n, ParentExcluded(e, n))
      line == IF n = 1 /\ ~exp[1].exec_num THEN 1 ELSE 0
      plus(a, b) == IF ex THEN a + b ELSE a - b
  IN [comb |-> [hit      |-> plus(stat.comb.hit, s.total - s.hit),
                excluded |-> plus(stat.comb.excluded, s.total - s.excluded),
                total    |-> stat.comb.total],
      line |-> [hit      |-> plus(stat.line.hit, line),
                excluded |-> plus(stat.line.excluded, line)]]

(* exclude_expr_assign_and_recalc *)
Exclude(n, ex, set_line) ==
  /\ phase # "score" /\ excludes < MaxExcludes
  /\ stat' = Recalculated(n, ex)
  /\ exp' = [exp EXCEPT ![n].excluded = ex]
  /\ excluded' = IF n = 1 THEN ex /\ set_line ELSE excluded
  /\ excluded_line' = IF set_line THEN ex ELSE excluded_line
  /\ excludes' = excludes + 1
  /\ UNCHANGED <<tree, value, phase, file, changes, seen>>

(* A click on an underlined expression, or on a line that was not executed. *)
ExcludeComb(n) == n # 1 /\ Underlined(n) /\ Exclude(n, ~exp[n].excluded, FALSE)
ExcludeLine == ~exp[1].exec_num /\ Exclude(1, ~excluded, TRUE)

(* The CDD is saved, with its exclusions, and the design simulated again. *)
NextRun ==
  /\ phase = "report" /\ file = None
  /\ file' = [exp |-> exp, excluded |-> excluded, seen |-> seen, excluded_line |-> excluded_line]
  /\ exp' = Changed(Fresh(tree), Statics)
  /\ phase' = "score" /\ excluded' = FALSE /\ stat' = None
  /\ seen' = Unseen(tree) /\ excluded_line' = FALSE
  /\ UNCHANGED <<tree, value, changes, excludes>>

(* Fault: the combinations of the other CDD are lost.                       *)
MergedExpEval(a, b) ==
  [a EXCEPT !.true = @ \/ b.true, !.false = @ \/ b.false,
            !.excluded = @ \/ b.excluded, !.exec_num = @ \/ b.exec_num]

(* expression_db_merge: the bits of ESUPPL_MERGE_MASK, without those that   *)
(* are not in the CDD; the greater execution number.                        *)
MergedExp(a, b) ==
  [a EXCEPT !.true = @ \/ b.true, !.false = @ \/ b.false, !.eval = @ \cup b.eval,
            !.excluded = @ \/ b.excluded, !.exec_num = @ \/ b.exec_num]

(* funit_db_merge does not merge statements: what is excluded is that of    *)
(* the CDD read first, either of the two.                                   *)
Merge ==
  /\ phase = "report" /\ file # None
  /\ LET merged == [n \in Nodes |-> MergedExp(exp[n], file.exp[n])]
     IN \E first \in {excluded, file.excluded} :
          /\ exp' = merged /\ excluded' = first /\ stat' = Report(merged, first)
  /\ phase' = "merged"
  /\ seen' = [n \in Nodes |-> seen[n] \cup file.seen[n]]
  /\ excluded_line' = (excluded_line \/ file.excluded_line)
  /\ file' = None
  /\ UNCHANGED <<tree, value, changes, excludes>>

Next ==
  \/ \E s \in Signals, v \in {"0", "1", "x"} : Change(s, v)
  \/ Execute \/ EndRun
  \/ \E n \in Nodes : ExcludeComb(n)
  \/ ExcludeLine
  \/ NextRun \/ Merge

Spec == Init /\ [][Next]_vars

(****************************************************************************)
(* Properties.                                                              *)
(****************************************************************************)
ExpType == [val : Bit, set : BOOLEAN, left_changed : BOOLEAN, right_changed : BOOLEAN,
            true : BOOLEAN, false : BOOLEAN, eval_t : BOOLEAN, eval_f : BOOLEAN,
            eval : SUBSET {"00", "01", "10", "11"}, excluded : BOOLEAN, exec_num : BOOLEAN]

(* The types of the variables; a hit or excluded number never drops below   *)
(* zero, where the unsigned integers of struct statistic_s wrap around, and *)
(* never exceeds the total.                                                 *)
TypeOK ==
  /\ tree \in Trees /\ value \in [Signals -> Bit] /\ exp \in [Nodes -> ExpType]
  /\ excluded \in BOOLEAN /\ phase \in {"score", "report", "merged"}
  /\ changes \in 0..MaxChanges /\ excludes \in 0..MaxExcludes
  /\ (stat = None) <=> (phase = "score")
  /\ stat # None => /\ stat.comb.excluded \in 0..stat.comb.hit /\ stat.comb.hit \in 0..stat.comb.total
                    /\ stat.line.excluded \in 0..stat.line.hit /\ stat.line.hit \in 0..1

(* Whatever the order of value changes and executions, an expression below  *)
(* which nothing is marked has the value that the signals give it now: no   *)
(* mark is lost where sim_expr_changed stops climbing.  A COND_SEL depends  *)
(* on the condition too, for which its parent is marked on the left.        *)
UnmarkedCurrent ==
  phase = "score" =>
    \A n \in Nodes : /\ ~exp[n].left_changed /\ ~exp[n].right_changed /\ tree[n].op # "SIG"
                     /\ tree[n].op = "COND_SEL" => ~exp[Parent(n)].left_changed
                     => exp[n].val = Worth[n]

(* The combinations recorded for an operator are those its operands had in  *)
(* the executions of the statement, in this run and in the merged one.      *)
EvalsExact ==
  \A n \in Nodes :
    LET was(s, v) == [side |-> s, is |-> v] \in seen[n]
    IN /\ tree[n].op = "AND" => exp[n].eval = {nn \in {"01", "10", "11"} :
                                                 \/ nn = "01" /\ was("left", "0")
                                                 \/ nn = "10" /\ was("right", "0")
                                                 \/ nn = "11" /\ was("both", "11")}
       /\ tree[n].op = "OR"  => exp[n].eval = {nn \in {"00", "01", "10"} :
                                                 \/ nn = "00" /\ was("both", "00")
                                                 \/ nn = "01" /\ was("right", "1")
                                                 \/ nn = "10" /\ was("left", "1")}
       /\ tree[n].op = "XOR" => exp[n].eval = {nn \in {"00", "01", "10", "11"} : was("both", nn)}
       /\ tree[n].op \notin {"AND", "OR", "XOR"} => exp[n].eval = {}

(* An expression counts as having been true (false) if it was.              *)
TruthExact ==
  \A n \in Nodes : /\ exp[n].true = ([side |-> "value", is |-> "1"] \in seen[n])
                    /\ exp[n].false = ([side |-> "value", is |-> "0"] \in seen[n])

(* What the run, and the merge, record of each expression is what happened. *)
CoverageExact == EvalsExact /\ TruthExact

(* After any sequence of exclusions and inclusions, of nested expressions   *)
(* too, the adjusted numbers are those a new report would show.             *)
StatExact == stat # None => stat = Report(exp, excluded)

(* chapter_gui_line.xml:105-108: the exclusion of a line is preserved when  *)
(* its CDD is merged with another.                                          *)
LineExclusionsMerged == stat # None => excluded = excluded_line
=============================================================================
