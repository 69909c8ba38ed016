----------------------------- MODULE StmtBlocks -----------------------------
(***************************************************************************)
(* The blocks of a design that are taken out of the coverage before the    *)
(* database is written (stmt_blk.c).  The parser, the binding and the race *)
(* check put blocks into a list; with each block that is removed others    *)
(* must go: those that call it, and the named blocks it calls.             *)
(*                                                                         *)
(* A design is a sequence of units in the order of their source lines:     *)
(* the blocks of a module, its tasks, functions and named blocks, each     *)
(* with its statements.  A unit's statements stand in the order opposite   *)
(* to that in which race_calc_assignments visits them.                     *)
(***************************************************************************)
EXTENDS Naturals, Sequences, FiniteSetsExt

CONSTANT Designs    (* records of kind, body, unsupported, edge, ignore_rc, signals *)

(* Of the statements of units U only assignments and calls matter; those    *)
(* that assign no signal have sig 0.                                        *)
StatementOf(U) ==
  [op : {"ASSIGN", "BASSIGN", "NASSIGN", "RASSIGN", "FOR", "CALL"}, sig : Nat,
   sel : {"SIG", "VAR", "SBIT", "MBIT", "POS", "NEG", ""}, msb : Nat, lsb : Nat,
   calls : SUBSET U, reads : SUBSET Nat, otherwise : BOOLEAN]

(* A CALL is of one task or named block, the calls of other statements are  *)
(* those of the functions in their expressions, and nothing calls a block.  *)
IsDesign(d) ==
  LET U == DOMAIN d.kind
  IN  /\ d.kind \in Seq({"block", "task", "function", "named"})
      /\ d.body \in [U -> Seq(StatementOf(U))]
      /\ d.signals \in Seq({"reg", "input", "inout", "mem"})
      /\ d.unsupported \subseteq U
      /\ d.ignore_rc \in [U -> BOOLEAN] /\ d.edge \in [U -> {"seq", "cmb", "mixed", "none"}]
      /\ \A u \in U : \A i \in DOMAIN d.body[u] :
           LET s == d.body[u][i]
           IN  /\ \A c \in s.calls : d.kind[c] # "block"
               /\ s.op = "CALL" => s.sig = 0 /\ \E c \in s.calls : s.calls = {c}

ASSUME DesignsAssumption == \A d \in Designs : IsDesign(d)

VARIABLES
  design,
  kept,          (* the units that are in memory                            *)
  no_score,      (* those marked FUNIT_NO_SCORE                             *)
  rm_stmts,      (* the list from rm_stmt_head, sorted by lines             *)
  assigned       (* signals whose values come from Covered                  *)

blockVars == <<design, kept, no_score, rm_stmts, assigned>>

Units == DOMAIN design.kind
Kind(u) == design.kind[u]
Statements(u) == {design.body[u][i] : i \in DOMAIN design.body[u]}

(* What a statement calls: its callee, or the functions of its expressions. *)
Calls(u) == UNION {s.calls : s \in Statements(u)}

(* Blocking assignments, to the control variable of a for loop or not; the  *)
(* left-hand sides of others are not marked.                                *)
Blocking(s) == s.op \in {"BASSIGN", "FOR", "RASSIGN"}

(* Memories are in no dumpfile: they are marked when they are declared.     *)
InitBlocks ==
  /\ design \in Designs
  /\ kept = Units /\ no_score = {}
  /\ rm_stmts = design.unsupported
  /\ assigned = {g \in DOMAIN design.signals :
                   \/ design.signals[g] = "mem"
                   \/ \E u \in Units : \E s \in Statements(u) : Blocking(s) /\ s.sig = g}

(* Fault: the callers of tasks and named blocks stay.                       *)
CallersOfFunctions(u) ==
  {c \in kept : Kind(u) = "function" /\ \E s \in Statements(c) : u \in s.calls /\ ~s.otherwise}

(* db_remove_stmt_blks_calling_statement: the statements of a false branch  *)
(* are not looked at.                                                       *)
Callers(u) == {c \in kept : \E s \in Statements(c) : u \in s.calls /\ ~s.otherwise}

(* One turn of stmt_blk_remove: the first unit of the list.  The unit of a  *)
(* task, function or named block is marked before its callers are found and *)
(* before its own statements are deallocated.                               *)
RemoveBlock ==
  LET u == Min(rm_stmts)
      called == Kind(u) # "block"
  IN  /\ no_score' = IF called THEN no_score \cup {u} ELSE no_score
      /\ rm_stmts' = (rm_stmts \ {u})
                       \cup (IF called THEN Callers(u) ELSE {})
                       \cup {n \in Calls(u) : Kind(n) = "named" /\ n \notin no_score'}
      /\ kept' = kept \ {u}
      /\ assigned' = assigned \ {s.sig : s \in {t \in Statements(u) : Blocking(t)}}
      /\ UNCHANGED design

-----------------------------------------------------------------------------
Removed == Units \ kept

(* Whatever is removed, what is left hangs together: nothing that is left   *)
(* calls anything that was removed, and nothing was removed but what was    *)
(* asked for, what calls something removed and the named blocks that only   *)
(* something removed calls.                                                 *)
Closed(roots) ==
  /\ \A u \in kept : Calls(u) \cap Removed = {}
  /\ \A u \in Removed : \/ u \in roots
                        \/ Calls(u) \cap Removed # {}
                        \/ Kind(u) = "named" /\ \E c \in Removed : u \in Calls(c)
=============================================================================
