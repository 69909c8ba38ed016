------------------------------ MODULE NonBlock ------------------------------
(***************************************************************************)
(* What becomes of values at the end of a timestep: the dumpfile's values are *)
(* kept in the symbol table (symtable.c) until db_do_timestep has run the  *)
(* threads, then assigned, and after them the non-blocking assignments     *)
(* that the threads have queued (sim.c).  Only elements of memories are    *)
(* assigned non-blocking by the simulator; everything else that is in the  *)
(* dumpfile takes its value from there.                                    *)
(*                                                                         *)
(* The memory is one vector.  Each assignment in the source has one        *)
(* structure (nonblock_assign) that is queued when it is executed.         *)
(***************************************************************************)
EXTENDS MemDesign

CONSTANT None  \* no value in the symbol table

ASSUME NoneAssumption == None \notin Int

(* The values a signal may be given. *)
Becomes(sig) ==
  ValuesOf[sig] \cup UNION {ValuesOf[t] : t \in UNION {SignalsOf[y] : y \in {z \in Symbol : sig \in SignalsOf[z]}}}

(* Designs whose non-blocking assignments the simulator performs as Verilog *)
(* does: each is executed once in a timestep, since it has one structure;   *)
(* the storage of a plain right-hand side does not change before the end of *)
(* the timestep; an index does not become unknown, which would leave the    *)
(* position of the last one; it is not one above the highest of a memory in *)
(* ascending order, which the test for it misses.                           *)
DeferrableDesign ==
  /\ \A s \in Stmt \ Blocking : Executions[s] <= 1
  /\ \A s \in Plain \ Blocking : Data[s] \notin Local \cup UNION {SignalsOf[y] : y \in Symbol}
  /\ \A s \in Stmt : Unknown \notin Becomes(Index[s])
  /\ Descending \/ \A s \in Stmt : FirstIndex + Size \notin Becomes(Index[s])

VARIABLES
  val,      \* values of the signals
  vec,      \* the vector of the memory: values of its elements, by lowest bit
  currLsb,  \* dim->curr_lsb of the left-hand sides
  rhs,      \* value vectors of the right-hand sides that have their own
  lhsLsb,   \* lhs_lsb of the nonblock_assign structures
  added,    \* those whose bit "added" is set
  queue,    \* nba_queue, as far as it has not been performed
  table,    \* values kept in the symbol table
  postsim,  \* timestep_tab, as far as it has not been assigned
  runs,     \* executions of each statement in this timestep (a bound)
  simulate, \* FALSE once $finish has been run
  phase,    \* where the reader and db_do_timestep are
  dumped    \* history: the last value of each symbol in the dumpfile

vars == <<val, vec, currLsb, rhs, lhsLsb, added, queue, table, postsim, runs, simulate, phase, dumped>>

(* The lowest bits of the elements. *)
Offset == {e * Width : e \in Element}

Values == {Unknown} \cup UNION {ValuesOf[s] : s \in Signal}

TypeOK ==
  /\ val \in [Signal -> Values]
  /\ vec \in [Offset -> Int]
  /\ currLsb \in [Stmt -> Int]
  /\ rhs \in [Stmt -> Int]
  /\ lhsLsb \in [Stmt -> Offset]
  /\ added \subseteq Stmt \ Blocking
  /\ queue \in Seq(Stmt \ Blocking)
  /\ table \in [Symbol -> Values \cup {None}]
  /\ postsim \in Seq(Symbol)
  /\ runs \in [Stmt -> Nat]
  /\ simulate \in BOOLEAN
  /\ phase \in {"values", "run", "assign", "nba"}
  /\ dumped \in [Symbol -> Values \cup {None}]

Init ==
  /\ val = [s \in Signal |-> Unknown]
  /\ vec = [o \in Offset |-> Unknown]
  /\ currLsb = [s \in Stmt |-> -1]
  /\ rhs = [s \in Stmt |-> Unknown]
  /\ lhsLsb = [s \in Stmt |-> 0]  \* not read before it is set
  /\ added = {} /\ queue = <<>>
  /\ table = [y \in Symbol |-> None] /\ postsim = <<>>
  /\ runs = [s \in Stmt |-> 0]
  /\ simulate = TRUE
  /\ phase = "values"
  /\ dumped = [y \in Symbol |-> None]

-----------------------------------------------------------------------------
(* The symbol table *)

(* Faults: the first value of a timestep is kept; a symbol is queued for    *)
(* every value.                                                             *)
KeptFirst(y, v) == [table EXCEPT ![y] = IF @ = None THEN v ELSE @]

Kept(y, v) == [table EXCEPT ![y] = v]

QueuedAgain(y) == Append(postsim, y)

Queued(y) == IF table[y] = None THEN Append(postsim, y) ELSE postsim

(* symtable_set_value, for a value change in the dumpfile. *)
SetValue(y, v) ==
  /\ phase = "values"
  /\ table' = Kept(y, v)
  /\ postsim' = Queued(y)
  /\ dumped' = [dumped EXCEPT ![y] = v]
  /\ UNCHANGED <<val, vec, currLsb, rhs, lhsLsb, added, queue, runs, simulate, phase>>

(* One round of the loop of symtable_assign. *)
AssignSymbol ==
  /\ phase = "assign" /\ postsim # <<>>
  /\ val' = [s \in Signal |-> IF s \in SignalsOf[Head(postsim)] THEN table[Head(postsim)] ELSE val[s]]
  /\ table' = [table EXCEPT ![Head(postsim)] = None]
  /\ postsim' = Tail(postsim)
  /\ UNCHANGED <<vec, currLsb, rhs, lhsLsb, added, queue, runs, simulate, phase, dumped>>

-----------------------------------------------------------------------------
(* Assignments to the memory *)

VWidth == Size * Width

(* The position of the element that the value i selects (expression_assign, *)
(* EXP_OP_SBIT_SEL); dim_be is true for memories declared in ascending      *)
(* order.  An unknown index leaves the position as it is.                   *)
SelectedLsb(i, stale) ==
  LET intval == (i - FirstIndex) * Width
  IN  IF i = Unknown THEN stale
      ELSE IF intval < 0 THEN -1
      ELSE IF Descending
           THEN IF intval >= VWidth THEN -1 ELSE intval
           ELSE IF intval > VWidth THEN -1 ELSE VWidth - (intval + Width)

(* vector_part_select_push.  Positions outside of the vector would write   *)
(* far behind a local array.                                                *)
Push(lsb, v) == [vec EXCEPT ![lsb] = v]

(* The value in rhs_vec: the storage of a signal, or of an expression.     *)
RhsVec(s) == IF s \in Plain THEN val[Data[s]] ELSE rhs[s]

(* Fault: the last structure queued is the first to be performed.           *)
EnqueuedFront(s) == IF s \in added THEN queue ELSE <<s>> \o queue

(* sim_add_nonblock_assign *)
Enqueued(s) == IF s \in added THEN queue ELSE Append(queue, s)

(* A thread executes an assignment: the right-hand side is evaluated, then  *)
(* the index, then the value is pushed or the assignment queued.            *)
Execute(s) ==
  /\ phase = "run" /\ runs[s] < Executions[s]
  /\ runs' = [runs EXCEPT ![s] = @ + 1]
  /\ rhs' = IF s \in Plain THEN rhs ELSE [rhs EXCEPT ![s] = Right(s, val[Data[s]])]
  /\ LET lsb == SelectedLsb(val[Index[s]], currLsb[s]) IN
       /\ currLsb' = [currLsb EXCEPT ![s] = lsb]
       /\ IF lsb = -1 THEN UNCHANGED <<vec, lhsLsb, added, queue>>
          ELSE IF s \in Blocking
          THEN vec' = Push(lsb, Right(s, val[Data[s]])) /\ UNCHANGED <<lhsLsb, added, queue>>
          ELSE /\ lhsLsb' = [lhsLsb EXCEPT ![s] = lsb]
               /\ queue' = Enqueued(s)
               /\ added' = added \cup {s}
               /\ UNCHANGED vec
  /\ UNCHANGED <<val, table, postsim, simulate, phase, dumped>>

(* A block assigns a variable of its own (a loop counts its index). *)
SetLocal(sig, v) ==
  /\ phase = "run"
  /\ val' = [val EXCEPT ![sig] = v]
  /\ UNCHANGED <<vec, currLsb, rhs, lhsLsb, added, queue, table, postsim, runs, simulate, phase, dumped>>

(* One round of the loop of sim_perform_nba. *)
PerformNba ==
  /\ phase = "nba" /\ queue # <<>>
  /\ vec' = Push(lhsLsb[Head(queue)], RhsVec(Head(queue)))
  /\ added' = added \ {Head(queue)}
  /\ queue' = Tail(queue)
  /\ UNCHANGED <<val, currLsb, rhs, lhsLsb, table, postsim, runs, simulate, phase, dumped>>

-----------------------------------------------------------------------------
(* db_do_timestep *)

Timestep ==
  /\ phase = "values" /\ simulate
  /\ phase' = "run"
  /\ UNCHANGED <<val, vec, currLsb, rhs, lhsLsb, added, queue, table, postsim, runs, simulate, dumped>>

(* $finish: nothing is assigned any more, though a reader may go on.        *)
Finish ==
  /\ phase = "run"
  /\ simulate' = FALSE
  /\ phase' = "values"
  /\ runs' = [s \in Stmt |-> 0]
  /\ UNCHANGED <<val, vec, currLsb, rhs, lhsLsb, added, queue, table, postsim, dumped>>

(* The three steps at the end of a timestep, each when the one before is    *)
(* over: simulate, assign the stored values, perform the assignments.       *)
EndOfPhase ==
  /\ \/ phase = "run"    /\ phase' = "assign"
     \/ phase = "assign" /\ postsim = <<>> /\ phase' = "nba"
     \/ phase = "nba"    /\ queue = <<>>   /\ phase' = "values"
  /\ runs' = [s \in Stmt |-> 0]
  /\ UNCHANGED <<val, vec, currLsb, rhs, lhsLsb, added, queue, table, postsim, simulate, dumped>>

Next ==
  \/ \E y \in Symbol : \E v \in UNION {ValuesOf[s] : s \in SignalsOf[y]} : SetValue(y, v)
  \/ Timestep
  \/ \E s \in Stmt : Execute(s)
  \/ \E sig \in Local : \E v \in ValuesOf[sig] : SetLocal(sig, v)
  \/ Finish
  \/ AssignSymbol
  \/ PerformNba
  \/ EndOfPhase

Spec == Init /\ [][Next]_vars

-----------------------------------------------------------------------------
(* Properties *)

(* nba_queue has room for each structure once, timestep_tab for each symbol *)
(* once, and neither is checked when something is added: what is queued is  *)
(* marked, what is marked is queued, and nothing is queued twice, whether   *)
(* the timestep is performed or cut short by $finish.                       *)
Distinct(q) == \A i, j \in DOMAIN q : q[i] = q[j] => i = j

QueuesFit ==
  /\ Range(queue) = added /\ Distinct(queue)
  /\ Range(postsim) = {y \in Symbol : table[y] # None} /\ Distinct(postsim)

(* "Assign all stored values in current post-timestep to stored signals"    *)
(* (db.c:3553): the last value a symbol has in the dumpfile is either still *)
(* stored or in each of its signals.                                        *)
LastValueCounts ==
  \A y \in Symbol : dumped[y] # None =>
    IF table[y] = None THEN \A s \in SignalsOf[y] : val[s] = dumped[y]
                       ELSE table[y] = dumped[y]

(* The element at a position of the vector, and the other way round. *)
Position(e) == (IF Descending THEN e ELSE Size - 1 - e) * Width

ElementAt(lsb) == CHOOSE e \in Element : Position(e) = lsb

Pending ==
  [i \in DOMAIN queue |-> [elem |-> ElementAt(lhsLsb[queue[i]]), val |-> RhsVec(queue[i])]]

Verilog == INSTANCE VerilogMemory WITH
  mem <- [e \in Element |-> vec[Position(e)]],
  pending <- Pending,
  updating <- phase = "nba"

(* "Verifies that non-blocking assignments of memory elements is properly   *)
(* handled" (diags/verilog/mem6.v): the queue of structures stands for the  *)
(* sequence of writes the design means, from the execution of each to the   *)
(* end of the timestep.                                                     *)
NonBlockingIsDeferred == Verilog!Spec

=============================================================================
