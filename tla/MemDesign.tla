----------------------------- MODULE MemDesign -----------------------------
(***************************************************************************)
(* A design with a memory, as far as assignments to its elements go: the   *)
(* parameters of VerilogMemory (what such a design means) and of NonBlock  *)
(* (what the simulator does with it).                                      *)
(*                                                                         *)
(*   reg [Width-1:0] m [FirstIndex : FirstIndex+Size-1];                   *)
(*   ... m[Index] <= f( Data );   m[Index] = f( Data ); ...                *)
(***************************************************************************)
EXTENDS Integers, SequencesExt

CONSTANTS
  Signal,      \* signals that are read by the assignments
  Unknown,     \* the value x
  Symbol,      \* symbols of the dumpfile
  SignalsOf,   \* [Symbol -> SUBSET Signal]: the signals a symbol stands for
  Local,       \* signals the blocks themselves assign (loop variables)
  ValuesOf,    \* [Signal -> SUBSET Int]: what the dumpfile or a block may assign
  Stmt,        \* assignments to an element of the memory
  Blocking,    \* those that are blocking
  Index, Data, \* [Stmt -> Signal]
  Plain,       \* assignments whose right-hand side is just the signal
  Size, FirstIndex, Width,
  Descending,  \* declared from the highest index to the lowest, [7:0]
  Executions   \* [Stmt -> Nat]: how often a timestep may execute a statement

ASSUME MemAssumption ==
  /\ SignalsOf \in [Symbol -> SUBSET Signal]
  /\ \A s, t \in Symbol : s # t => SignalsOf[s] \cap SignalsOf[t] = {}
  /\ Local \subseteq Signal
  /\ \A s \in Symbol : SignalsOf[s] \cap Local = {}
  /\ ValuesOf \in [Signal -> SUBSET Int]
  /\ Unknown \in Int
  /\ Blocking \subseteq Stmt /\ Plain \subseteq Stmt
  /\ Index \in [Stmt -> Signal] /\ Data \in [Stmt -> Signal]
  /\ Size \in Nat \ {0} /\ Width \in Nat \ {0} /\ FirstIndex \in Nat
  /\ Descending \in BOOLEAN
  /\ Executions \in [Stmt -> Nat]

Element == 0..(Size - 1)

(* The value of a right-hand side: the signal, or something computed of it. *)
Right(s, v) == IF s \in Plain \/ v = Unknown THEN v ELSE v + 10

=============================================================================
