------------------------------ MODULE FuncCall ------------------------------
(***************************************************************************)
(* Calls of functions from within expressions.                             *)
(*                                                                         *)
(* sim_expression (sim.c) walks down an expression where changed bits are  *)
(* set and evaluates on the way up.  A port of a function is assigned when *)
(* the walk passes its PASSIGN; the call itself runs the statements of the *)
(* function in the middle of the walk, which evaluates other expressions,  *)
(* or the same ones again.  An automatic unit that calls puts its          *)
(* variables, the values of its expressions and their changed bits aside   *)
(* (reentrant.c) at its first PASSIGN and takes them back when the call    *)
(* has returned.                                                           *)
(*                                                                         *)
(* The C stack is the variable stack: calls of sim_thread and              *)
(* sim_expression, the innermost last.                                     *)
(***************************************************************************)
EXTENDS Integers, SequencesExt, FiniteSetsExt, Functions

CONSTANTS
  NULL,
  Unit,          \* modules, functions, named blocks
  UnitKind,      \* [Unit -> {"MODULE", "FUNCTION", "AFUNCTION", "ANAMED_BLOCK"}]
  ParentUnit,    \* [Unit -> Unit \cup {NULL}]
  Var,           \* signals
  VarUnit,       \* [Var -> Unit]
  Ports,         \* [Unit -> Seq(Var)]: input ports in the order they are declared
  Result,        \* [Unit -> Var \cup {NULL}]: the variable named like the function
  First,         \* [Unit -> Exp \cup {NULL}]: root of the first statement
  Exp,           \* expressions; a statement is its root expression
  ExpUnit,       \* [Exp -> Unit]
  Kind,          \* [Exp -> ExpKind]
  Left, Right,   \* [Exp -> Exp \cup {NULL}]; the left-hand side of BASSIGN is its Sig
  Sig,           \* [Exp -> Var \cup {NULL}]: the signal of SIG, BASSIGN
  Callee,        \* [Exp -> Unit \cup {NULL}]: the unit of FUNC_CALL, NB_CALL
  NextTrue,      \* [Exp -> Exp \cup {NULL}], for roots
  NextFalse,
  Blocks,        \* units whose statements run when a signal they read has changed
  Dumped,        \* signals that get their values from the dumpfile
  DumpVal,       \* the values these take
  Val,           \* values, X among them
  X,
  Apply(_, _, _),   \* Apply(e, l, r): value of the operator or constant e
  Meaning(_, _)     \* Meaning(f, args): what function f returns

ExpKind == {"SIG", "STATIC", "OP", "PLIST", "PASSIGN", "FUNC_CALL", "NB_CALL", "BASSIGN", "IF"}
UnitKinds == {"MODULE", "FUNCTION", "AFUNCTION", "ANAMED_BLOCK"}
Side == {"left", "right"}

ASSUME CallAssumption ==
  /\ UnitKind \in [Unit -> UnitKinds] /\ ParentUnit \in [Unit -> Unit \cup {NULL}]
  /\ VarUnit \in [Var -> Unit] /\ ExpUnit \in [Exp -> Unit] /\ Kind \in [Exp -> ExpKind]
  /\ Left \in [Exp -> Exp \cup {NULL}] /\ Right \in [Exp -> Exp \cup {NULL}]
  /\ Sig \in [Exp -> Var \cup {NULL}] /\ Callee \in [Exp -> Unit \cup {NULL}]
  /\ Dumped \subseteq Var /\ Blocks \subseteq Unit /\ X \in Val /\ DumpVal \subseteq Val

VARIABLES
  val,       \* values of the signals
  ev,        \* values of the expressions that own a vector
  changed,   \* pairs <<e, side>>: left_changed and right_changed bits
  evalT,     \* expressions whose eval_t bit is set
  stack,     \* calls of sim_thread and sim_expression in progress
  woken,     \* blocks in the active queue
  phase      \* "dump" while values of the dumpfile are assigned, then "run"

vars == <<val, ev, changed, evalT, stack, woken, phase>>

-----------------------------------------------------------------------------
(* Expressions *)

Parent == [e \in Exp |-> IF \E p \in Exp : e \in {Left[p], Right[p]}
                         THEN CHOOSE p \in Exp : e \in {Left[p], Right[p]} ELSE NULL]

SideOf(e) == IF Left[Parent[e]] = e THEN "left" ELSE "right"

(* The PASSIGN expressions of a call, in the order bind_task_function_ports *)
(* finds them.                                                              *)
RECURSIVE Arguments(_)
Arguments(e) == IF Kind[e] = "PLIST" THEN Append(Arguments(Left[e]), Right[e]) ELSE <<e>>

RECURSIVE CallOf(_)
CallOf(e) == IF Kind[e] = "FUNC_CALL" THEN e ELSE CallOf(Parent[e])

(* Mutant: the list is walked from its right end. *)
PortOfReversed(e) ==
  LET call == CallOf(e)
      args == Reverse(Arguments(Left[call]))
  IN  Ports[Callee[call]][CHOOSE i \in DOMAIN args : args[i] = e]

(* The port an argument is bound to. *)
PortOf(e) ==
  LET call == CallOf(e)
      args == Arguments(Left[call])
  IN  Ports[Callee[call]][CHOOSE i \in DOMAIN args : args[i] = e]

(* The vector an expression points at. *)
RECURSIVE Value(_)
Value(e) == CASE Kind[e] = "SIG" -> val[Sig[e]]
              [] Kind[e] = "STATIC" -> Apply(e, X, X)
              [] Kind[e] \in {"BASSIGN", "IF"} -> Value(Right[e])
              [] OTHER -> ev[e]

Operand(e) == IF e = NULL THEN X ELSE Value(e)

(* sim_expr_changed: sets the bits on the way to the root, and stops at the  *)
(* first bit that is set already.                                            *)
RECURSIVE Climb(_, _)
Climb(e, bits) ==
  IF Parent[e] = NULL \/ <<Parent[e], SideOf(e)>> \in bits THEN bits
  ELSE Climb(Parent[e], bits \cup {<<Parent[e], SideOf(e)>>})

ExprChanged(e, bits) == Climb(e, bits \cup {<<e, "left">>})

(* vsignal_propagate: all the expressions of the signal but FUNC_CALL and    *)
(* PASSIGN.  (Those on a left-hand side are never evaluated from here.)      *)
Propagate(v, bits) ==
  FoldSet(ExprChanged, bits, {e \in Exp : Kind[e] = "SIG" /\ Sig[e] = v})

(* Blocks that wait for a signal: every block that is not running. *)
Running == {stack[i].unit : i \in {j \in DOMAIN stack : stack[j].type = "thread"}}

RECURSIVE Below(_)
Below(e) == IF e = NULL THEN {} ELSE {e} \cup Below(Left[e]) \cup Below(Right[e])

WaitingFor(v) ==
  {u \in Blocks \ Running : \E e \in Exp : ExpUnit[e] = u /\ Kind[e] = "SIG" /\ Sig[e] = v}

-----------------------------------------------------------------------------
(* The frame of an automatic unit (reentrant.c) *)

IsAutomatic(u) == UnitKind[u] \in {"AFUNCTION", "ANAMED_BLOCK"}

(* Mutant: the named block alone. *)
FrameUnitsNoParents(u) == IF IsAutomatic(u) THEN {u} ELSE {}

(* A named block, and the units around it up to the function. *)
FrameUnits(u) ==
  LET units[v \in Unit] == IF ~IsAutomatic(v) THEN {}
                           ELSE {v} \cup IF UnitKind[v] = "ANAMED_BLOCK" THEN units[ParentUnit[v]] ELSE {}
  IN  units[u]

FrameVars(u) == {v \in Var : VarUnit[v] \in FrameUnits(u)}
FrameExps(u) == {e \in Exp : ExpUnit[e] \in FrameUnits(u)}
FrameBits(u) == FrameExps(u) \X Side

(* reentrant_store_data_bits copies all of it and clears the bits. *)
Store(u) == [val     |-> Restrict(val, FrameVars(u)),
             ev      |-> Restrict(ev, FrameExps(u)),
             changed |-> changed \cap FrameBits(u),
             evalT   |-> evalT \cap FrameExps(u)]

(* reentrant_restore_data_bits: all of it but the value of the call. *)
Restored(f, ren, new) == [k \in DOMAIN f |-> IF k \in DOMAIN ren THEN ren[k] ELSE new[k]]

-----------------------------------------------------------------------------
(* Frames of the C stack.  "before" is a history variable: the signals when  *)
(* the evaluation of the expression began.                                   *)
ThreadFrame(u) == [type |-> "thread", unit |-> u, exp |-> First[u], at |-> "exec",
                   ren |-> NULL, before |-> NULL]

ExpFrame(e) == [type |-> "exp", unit |-> ExpUnit[e], exp |-> e, at |-> "left",
                ren |-> NULL, before |-> val]

Top == Last(stack)
Depth == Len(stack)
Below1 == Front(stack)
At(type, stage) == stack # <<>> /\ Top.type = type /\ Top.at = stage

Goto(stage) == [stack EXCEPT ![Depth].at = stage]

(* The thread the innermost expression is evaluated for. *)
CurrThread == CHOOSE i \in DOMAIN stack :
                /\ stack[i].type = "thread"
                /\ \A j \in DOMAIN stack : j > i => stack[j].type = "exp"

TypeOK ==
  /\ val \in [Var -> Val]
  /\ ev \in [Exp -> Val]
  /\ changed \subseteq Exp \X Side
  /\ evalT \subseteq Exp
  /\ \A i \in DOMAIN stack : stack[i].type \in {"thread", "exp"}
  /\ woken \subseteq Blocks
  /\ phase \in {"dump", "run"}

(* sim_add_statics marks what depends on a constant; everything else is x    *)
(* and unmarked until it changes.                                            *)
Init ==
  /\ val = [v \in Var |-> X]
  /\ ev = [e \in Exp |-> X]
  /\ changed = FoldSet(ExprChanged, {}, {e \in Exp : Kind[e] = "STATIC"})
  /\ evalT = {}
  /\ stack = <<>>
  /\ woken = {}
  /\ phase = "dump"

-----------------------------------------------------------------------------
(* sim_thread *)

Dump(v, x) ==
  /\ phase = "dump" /\ x # val[v]
  /\ val' = [val EXCEPT ![v] = x]
  /\ changed' = Propagate(v, changed)
  /\ woken' = woken \cup WaitingFor(v)
  /\ UNCHANGED <<ev, evalT, stack, phase>>

Simulate ==
  /\ phase = "dump" /\ woken # {}
  /\ phase' = "run"
  /\ UNCHANGED <<val, ev, changed, evalT, stack, woken>>

EndSimulate ==
  /\ phase = "run" /\ stack = <<>> /\ woken = {}
  /\ phase' = "dump"
  /\ UNCHANGED <<val, ev, changed, evalT, stack, woken>>

(* Mutant: the block stays in the active queue. *)
RunBlockAgain(u) ==
  /\ phase = "run" /\ stack = <<>> /\ u \in woken
  /\ stack' = <<ThreadFrame(u)>>
  /\ UNCHANGED <<val, ev, changed, evalT, woken, phase>>

RunBlock(u) ==
  /\ phase = "run" /\ stack = <<>> /\ u \in woken
  /\ woken' = woken \ {u}
  /\ stack' = <<ThreadFrame(u)>>
  /\ UNCHANGED <<val, ev, changed, evalT, phase>>

Execute ==
  /\ At("thread", "exec") /\ Top.exp # NULL
  /\ stack' = Append(Goto("next"), ExpFrame(Top.exp))
  /\ UNCHANGED <<val, ev, changed, evalT, woken, phase>>

NextStatement ==
  /\ At("thread", "next")
  /\ stack' = [stack EXCEPT ![Depth].at = "exec",
                            ![Depth].exp = IF Top.exp \in evalT THEN NextTrue[Top.exp]
                                                                ELSE NextFalse[Top.exp]]
  /\ UNCHANGED <<val, ev, changed, evalT, woken, phase>>

EndThread ==
  /\ At("thread", "exec") /\ Top.exp = NULL
  /\ stack' = Below1
  /\ UNCHANGED <<val, ev, changed, evalT, woken, phase>>

-----------------------------------------------------------------------------
(* sim_expression: the left side, the right side, the operation *)

Child(e, side) == IF side = "left" THEN Left[e] ELSE Right[e]

Descend(side, next) ==
  /\ At("exp", side)
  /\ IF <<Top.exp, side>> \in changed
     THEN /\ changed' = changed \ {<<Top.exp, side>>}
          /\ LET c == Child(Top.exp, side)
             IN  stack' = IF c = NULL THEN Goto(next) ELSE Append(Goto(next), ExpFrame(c))
     ELSE stack' = Goto(next) /\ UNCHANGED changed
  /\ UNCHANGED <<val, ev, evalT, woken, phase>>

DescendLeft == Descend("left", "right")
DescendRight == Descend("right", "operate")

Operating(kinds) == At("exp", "operate") /\ Kind[Top.exp] \in kinds

(* SIG, STATIC and PLIST have nothing to do. *)
OperateNull ==
  /\ Operating({"SIG", "STATIC", "PLIST"})
  /\ stack' = Below1
  /\ UNCHANGED <<val, ev, changed, evalT, woken, phase>>

OperateOp ==
  /\ Operating({"OP"})
  /\ ev' = [ev EXCEPT ![Top.exp] = Apply(Top.exp, Operand(Left[Top.exp]), Operand(Right[Top.exp]))]
  /\ stack' = Below1
  /\ UNCHANGED <<val, changed, evalT, woken, phase>>

(* expression_op_func__null sets eval_t from the value, x being neither true *)
(* nor false.                                                                *)
OperateIf ==
  /\ Operating({"IF"})
  /\ evalT' = IF Value(Top.exp) \in {0, X} THEN evalT \ {Top.exp} ELSE evalT \cup {Top.exp}
  /\ stack' = Below1
  /\ UNCHANGED <<val, ev, changed, woken, phase>>

OperateAssign ==
  /\ Operating({"BASSIGN"})
  /\ LET v == Sig[Top.exp]
         x == Value(Top.exp)
     IN  /\ val' = [val EXCEPT ![v] = x]
         /\ changed' = IF x # val[v] THEN Propagate(v, changed) ELSE changed
         /\ woken' = IF x # val[v] THEN woken \cup WaitingFor(v) ELSE woken
  /\ stack' = Below1
  /\ UNCHANGED <<ev, evalT, phase>>

(* The first PASSIGN of a call from an automatic unit puts the frame aside.  *)
(* The port gets the value of the argument and marks its readers, changed or *)
(* not.                                                                      *)
OperatePassign ==
  /\ Operating({"PASSIGN"})
  /\ LET t == CurrThread
         u == stack[t].unit
         saves == stack[t].ren = NULL /\ IsAutomatic(u)
         bits == IF saves THEN changed \ FrameBits(u) ELSE changed
         v == PortOf(Top.exp)
     IN  /\ stack' = IF saves THEN [Below1 EXCEPT ![t].ren = Store(u)] ELSE Below1
         /\ evalT' = IF saves THEN evalT \ FrameExps(u) ELSE evalT
         /\ val' = [val EXCEPT ![v] = Value(Right[Top.exp])]
         /\ changed' = Propagate(v, bits)
  /\ UNCHANGED <<ev, woken, phase>>

Call ==
  /\ Operating({"FUNC_CALL", "NB_CALL"})
  /\ stack' = Append(Goto("return"), ThreadFrame(Callee[Top.exp]))
  /\ UNCHANGED <<val, ev, changed, evalT, woken, phase>>

(* Mutant: the value of the call comes back with the frame. *)
ReturnFunctionLoses ==
  /\ At("exp", "return") /\ Kind[Top.exp] = "FUNC_CALL"
  /\ LET t == CurrThread
         u == stack[t].unit
         ren == IF stack[t].ren = NULL THEN Store(u) ELSE stack[t].ren
         ev1 == [ev EXCEPT ![Top.exp] = val[Result[Callee[Top.exp]]]]
     IN  /\ ev' = Restored(ev, ren.ev, ev1)
         /\ val' = Restored(val, ren.val, val)
         /\ changed' = (changed \ FrameBits(u)) \cup ren.changed
         /\ evalT' = (evalT \ FrameExps(u)) \cup ren.evalT
         /\ stack' = [Below1 EXCEPT ![t].ren = NULL]
  /\ UNCHANGED <<woken, phase>>

(* The value is copied before the frame of the caller comes back. *)
ReturnFunction ==
  /\ At("exp", "return") /\ Kind[Top.exp] = "FUNC_CALL"
  /\ LET t == CurrThread
         u == stack[t].unit
         ren == stack[t].ren
         ev1 == [ev EXCEPT ![Top.exp] = val[Result[Callee[Top.exp]]]]
     IN  IF ren = NULL
         THEN /\ ev' = ev1 /\ stack' = Below1
              /\ UNCHANGED <<val, changed, evalT>>
         ELSE /\ ev' = [Restored(ev, ren.ev, ev1) EXCEPT ![Top.exp] = ev1[Top.exp]]
              /\ val' = Restored(val, ren.val, val)
              /\ changed' = (changed \ FrameBits(u)) \cup ren.changed
              /\ evalT' = (evalT \ FrameExps(u)) \cup ren.evalT
              /\ stack' = [Below1 EXCEPT ![t].ren = NULL]
  /\ UNCHANGED <<woken, phase>>

ReturnBlock ==
  /\ At("exp", "return") /\ Kind[Top.exp] = "NB_CALL"
  /\ stack' = Below1
  /\ UNCHANGED <<val, ev, changed, evalT, woken, phase>>

Step ==
  \/ Simulate \/ EndSimulate \/ (\E u \in Blocks : RunBlock(u))
  \/ Execute \/ NextStatement \/ EndThread
  \/ DescendLeft \/ DescendRight
  \/ OperateNull \/ OperateOp \/ OperateIf \/ OperateAssign \/ OperatePassign
  \/ Call \/ ReturnFunction \/ ReturnBlock

Next == Step \/ \E v \in Dumped, x \in DumpVal : Dump(v, x)

(* sim_simulate runs the block it has begun; the dumpfile may stop. *)
Spec == Init /\ [][Next]_vars /\ WF_vars(Step)

-----------------------------------------------------------------------------
(* What calls mean *)

(* The value of an expression over given signals. *)
RECURSIVE Ref(_, _)
Ref(e, sigs) ==
  CASE e = NULL -> X
    [] Kind[e] = "SIG" -> sigs[Sig[e]]
    [] Kind[e] \in {"BASSIGN", "IF", "PASSIGN"} -> Ref(Right[e], sigs)
    [] Kind[e] = "FUNC_CALL" ->
         LET args == Arguments(Left[e])
         IN  Meaning(Callee[e], [i \in DOMAIN args |-> Ref(args[i], sigs)])
    [] OTHER -> Apply(e, Ref(Left[e], sigs), Ref(Right[e], sigs))

(* A function that begins to run finds in its ports the arguments of the     *)
(* call, over the variables the caller had when the evaluation of the call   *)
(* began, however many calls the arguments themselves have made.             *)
CallsSeeArguments ==
  At("exp", "operate") /\ Kind[Top.exp] = "FUNC_CALL" =>
    \A i \in DOMAIN Ports[Callee[Top.exp]] :
      val[Ports[Callee[Top.exp]][i]] = Ref(Arguments(Left[Top.exp])[i], Top.before)

Around(u) ==
  LET units[v \in Unit] == {v} \cup IF ParentUnit[v] = NULL THEN {} ELSE units[ParentUnit[v]]
  IN  units[u]

(* When a call has returned, the variables of the caller are what they were  *)
(* before it, also when caller and callee are the same function.             *)
CallerKeepsVariables ==
  [][ReturnFunction =>
       \A v \in Var : VarUnit[v] \in Around(Top.unit) => val'[v] = Top.before[v]]_vars

(* A statement of a module that has been executed has assigned what its      *)
(* right-hand side means over the values of its signals now, although only   *)
(* the marked parts of it have been evaluated.                               *)
AssignmentsExact ==
  At("thread", "next") /\ Kind[Top.exp] = "BASSIGN" /\ UnitKind[Top.unit] = "MODULE" =>
    val[Sig[Top.exp]] = Ref(Top.exp, val)

(* Every call returns: the simulator comes back to the dumpfile. *)
CallsReturn == []<>(phase = "dump" /\ stack = <<>>)
=============================================================================
