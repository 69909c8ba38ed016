------------------------------ MODULE RaceCheck ------------------------------
(***************************************************************************)
(* race_check_modules (race.c) on the blocks of a module: the assignments  *)
(* of each block are looked up (race_calc_assignments), then the blocks    *)
(* are checked for the kinds of their assignments and, signal by signal    *)
(* and expression by expression, for bits that another block assigns too.  *)
(* The blocks in a race are removed (StmtBlocks), or the command stops.    *)
(***************************************************************************)
EXTENDS StmtBlocks, SequencesExt

CONSTANTS
  Width,         (* of every signal; bits count from 0                      *)
  UL_BITS,       (* bits of an element of a vector                          *)
  CheckModes     (* values of flag_race_check: "WARNING" removes, "FATAL" stops *)

ASSUME WidthAssumption == Width \in Nat \ {0} /\ UL_BITS \in Nat \ {0}

VARIABLES
  flag_race_check,
  sb,                  (* for each block: remove, bassign, nassign          *)
  pc, index,           (* index: the block, or the expression, that is next *)
  sig, sig_stmt,       (* the signal that is looked at and its first block  *)
  misc,                (* bits whose assigned bit is set, of each signal    *)
  races,               (* race_blk list of the module                       *)
  races_found

checkVars == <<flag_race_check, sb, races, races_found>>
vars == <<blockVars, checkVars, pc, index, sig, sig_stmt, misc>>

Signals == DOMAIN design.signals

(* Heads of statement blocks that nothing calls, in the order of sb. *)
Block == {u \in Units : Kind(u) = "block"}

(* The tasks and named blocks that a unit calls, and all that are reached.  *)
Callees(u) == UNION {s.calls : s \in {t \in Statements(u) : t.op = "CALL"}}
Reached(b) ==    (* and b itself *)
  {u \in Units : \A S \in SUBSET Units : b \in S /\ (\A v \in S : Callees(v) \subseteq S) => u \in S}

(* The statements of a block and of the tasks and named blocks it calls,    *)
(* each from one place.                                                     *)
Flat(b) ==
  LET flat[u \in Units] ==
        FlattenSeq([i \in DOMAIN design.body[u] |->
                      LET s == design.body[u][i]
                      IN  IF s.op = "CALL" THEN flat[CHOOSE c \in s.calls : TRUE] ELSE <<s>>])
  IN  flat[b]

Init ==
  /\ InitBlocks
  /\ flag_race_check \in CheckModes
  /\ sb = [b \in Block |-> [remove |-> FALSE, bassign |-> FALSE, nassign |-> FALSE]]
  /\ pc = "calc" /\ index = 1 /\ sig = 1 /\ sig_stmt = 0
  /\ misc = [g \in Signals |-> {}]
  /\ races = <<>> /\ races_found = 0

(* bassign is set anew by every blocking assignment that is visited, and    *)
(* the first statement of the block is visited last.                        *)
Assignments(b) ==
  LET run == Flat(b)
  IN  [remove  |-> FALSE,
       bassign |-> \E i \in DOMAIN run : /\ run[i].op \in {"ASSIGN", "BASSIGN"}
                                         /\ \A j \in 1..i-1 : run[j].op # "FOR",
       nassign |-> \E i \in DOMAIN run : run[i].op = "NASSIGN"]

CalcAssignments ==
  /\ pc = "calc"
  /\ sb' = [b \in Block |-> Assignments(b)]
  /\ pc' = "types" /\ index' = Min(Block \cup {Len(design.kind) + 1})
  /\ UNCHANGED <<blockVars, flag_race_check, races, races_found, sig, sig_stmt, misc>>

-----------------------------------------------------------------------------
(* race_handle_race_condition: a block is listed once, with the reason that *)
(* was found first; the block it is in conflict with is not listed.         *)
Handle(b, also, reason) ==
  /\ races' = IF \E i \in DOMAIN races : races[i].block = b THEN races
              ELSE Append(races, [block |-> b, reason |-> reason])
  /\ sb' = [c \in Block |-> [sb[c] EXCEPT !.remove = @ \/ c \in {b, also}]]
  /\ races_found' = races_found + 1

NoRace == UNCHANGED <<races, sb, races_found>>

(* Checks 1 to 4. *)
TypeRule(b) ==
  LET edge == design.edge[b]
  IN  CASE edge = "seq" /\ sb[b].bassign   -> "SEQ_USES_NON_BLOCK"
        [] edge = "cmb" /\ sb[b].nassign   -> "CMB_USES_BLOCK"
        [] edge = "mixed" /\ sb[b].bassign -> "MIX_USES_NON_BLOCK"
        [] sb[b].bassign /\ sb[b].nassign  -> "HOMOGENOUS"
        [] OTHER                           -> "none"

CheckTypes ==
  /\ pc = "types"
  /\ IF index \in Units
     THEN /\ IF index \in Block /\ ~design.ignore_rc[index] /\ TypeRule(index) # "none"
             THEN Handle(index, index, TypeRule(index))
             ELSE NoRace
          /\ index' = index + 1 /\ UNCHANGED pc
     ELSE /\ pc' = "exps" /\ index' = 1 /\ NoRace
  /\ UNCHANGED <<blockVars, flag_race_check, sig, sig_stmt, misc>>

(* The expressions of a signal in the order in which they were bound. *)
Exps(g) ==
  FlattenSeq([u \in Units |->
                FlattenSeq([i \in DOMAIN design.body[u] |->
                              LET s == design.body[u][i]
                              IN  IF s.sig = g THEN <<[unit |-> u, stmt |-> s]>> ELSE <<>>])])

(* race_get_head_statement: the first block whose statements, tasks and     *)
(* named blocks contain the expression; 0 for those of functions.           *)
HeadOf(u) == LET heads == {b \in Block : u \in Reached(b)}
             IN  IF heads = {} THEN 0 ELSE Min(heads)

(* The bits that are marked for an assignment.  The value of a bit select   *)
(* is one bit wide and its position must be below that; of the selects of a *)
(* number of bits one more is marked.                                       *)
Marked(s) ==
  CASE s.sel = "SBIT" -> IF s.lsb < 1 THEN {s.lsb} ELSE {}
    [] s.sel = "MBIT" -> s.lsb..s.msb
    [] s.sel \in {"POS", "NEG"} -> s.lsb..(s.msb + 1)
    [] s.sel \in {"SIG", "VAR"} -> 0..(Width - 1)

(* Fault: the elements behind the first are marked and not looked at.       *)
AlreadyFirst(bits, g) ==
  \E b \in bits : b \in misc[g] /\ b \div UL_BITS = Min(bits) \div UL_BITS

(* vector_set_assigned: of three elements and more, what was found in those *)
(* before the last but one is lost.                                         *)
Already(bits, g) ==
  \E b \in bits : b \in misc[g] /\ \/ Max(bits) \div UL_BITS < (Min(bits) \div UL_BITS) + 2
                                   \/ (b \div UL_BITS) + 1 >= Max(bits) \div UL_BITS

Port(g) == design.signals[g] \in {"input", "inout"}

(* race_check_one_block_assignment, one expression. *)
CheckExp ==
  /\ pc = "exps"
  /\ sig \in Signals /\ design.signals[sig] # "mem" /\ index \in DOMAIN Exps(sig)
  /\ LET exp == Exps(sig)[index]
         curr_stmt == HeadOf(exp.unit)
         bits == Marked(exp.stmt)
         curr_race == bits # {} /\ Already(bits, sig)
     IN  IF curr_stmt = 0 \/ design.ignore_rc[curr_stmt] \/ exp.stmt.op = "RASSIGN"
         THEN NoRace /\ UNCHANGED <<sig_stmt, misc>>
         ELSE /\ misc' = [misc EXCEPT ![sig] = @ \cup bits]
              /\ sig_stmt' = IF sig_stmt = 0 THEN curr_stmt ELSE sig_stmt
              /\ IF sig_stmt = 0
                 THEN IF Port(sig) \/ curr_race
                      THEN Handle(curr_stmt, curr_stmt, "ASSIGN_IN_ONE_BLOCK2")
                      ELSE NoRace
                 ELSE IF sig_stmt # curr_stmt /\ curr_race
                      THEN Handle(curr_stmt, sig_stmt, "ASSIGN_IN_ONE_BLOCK1")
                      ELSE NoRace
  /\ index' = index + 1
  /\ UNCHANGED <<blockVars, flag_race_check, pc, sig>>

NextSignal ==
  /\ pc = "exps" /\ sig \in Signals
  /\ design.signals[sig] = "mem" \/ index \notin DOMAIN Exps(sig)
  /\ sig' = sig + 1 /\ sig_stmt' = 0 /\ index' = 1
  /\ UNCHANGED <<blockVars, checkVars, pc, misc>>

(* The end of race_check_modules: the blocks to be removed are listed, and  *)
(* race_check_race_count may throw.                                         *)
CheckOver ==
  /\ pc = "exps" /\ sig \notin Signals
  /\ rm_stmts' = rm_stmts \cup {b \in Block : sb[b].remove}
  /\ pc' = IF races_found > 0 /\ flag_race_check = "FATAL" THEN "halted" ELSE "remove"
  /\ UNCHANGED <<design, kept, no_score, assigned, checkVars, index, sig, sig_stmt, misc>>

RemoveListed ==
  /\ pc = "remove" /\ rm_stmts # {}
  /\ RemoveBlock
  /\ UNCHANGED <<checkVars, pc, index, sig, sig_stmt, misc>>

Finished == (pc = "halted" \/ (pc = "remove" /\ rm_stmts = {})) /\ UNCHANGED vars

Next == CalcAssignments \/ CheckTypes \/ CheckExp \/ NextSignal \/ CheckOver \/ RemoveListed \/ Finished

Spec == Init /\ [][Next]_vars

-----------------------------------------------------------------------------
(* What a statement assigns. *)
Bits(s) == IF s.sel \in {"SIG", "VAR"} THEN 0..(Width - 1) ELSE s.lsb..s.msb

Checked(b) == b \in Block /\ ~design.ignore_rc[b]
Ran(b) == {Flat(b)[i] : i \in DOMAIN Flat(b)}
Together(b, c, g) ==
  \E s \in Ran(b), t \in Ran(c) : /\ s.op # "RASSIGN" /\ t.op # "RASSIGN"
                                  /\ s.sig = g /\ t.sig = g
                                  /\ Bits(s) \cap Bits(t) # {}
Shares(b, c) == \E g \in Signals : design.signals[g] # "mem" /\ Together(b, c, g)
Mixes(b) ==
  LET blocking == \E s \in Ran(b) : s.op \in {"ASSIGN", "BASSIGN"}
      nonblocking == \E s \in Ran(b) : s.op = "NASSIGN"
  IN  \/ design.edge[b] \in {"seq", "mixed"} /\ blocking
      \/ design.edge[b] = "cmb" /\ nonblocking
      \/ blocking /\ nonblocking
Drives(b, g) == \E s \in Ran(b) : s.op # "RASSIGN" /\ s.sig = g
DrivesPort(b) == \E g \in Signals : Port(g) /\ Drives(b, g)

Contended(b) ==
  \E g \in Signals :
    /\ Drives(b, g)
    /\ \E c \in Block \ {b} : Checked(c) /\ Drives(c, g)
    /\ \E i, j \in DOMAIN Exps(g) : i # j /\ Bits(Exps(g)[i].stmt) \cap Bits(Exps(g)[j].stmt) # {}

CheckDone == pc \in {"remove", "halted"}
Condemned == {b \in Block : sb[b].remove}

(* The guidelines of chapter_race.xml:26-50 as far as they are checked: of  *)
(* two blocks that assign a common bit the second is removed, and with it   *)
(* the first of all that assign the signal; no block is left that mixes     *)
(* assignments as its kind must not.  What is removed does so, drives an    *)
(* input, or assigns a signal that another block assigns and of which two   *)
(* statements assign a common bit; one at least of the blocks that drive an *)
(* input is removed, each block is reported once, and -rE stops the command *)
(* when and only when there are blocks to be removed.                       *)
RacesExact ==
  CheckDone =>
    /\ \A b, c \in Block, g \in Signals :
         /\ b < c /\ Checked(b) /\ Checked(c)
         /\ design.signals[g] # "mem" /\ Together(b, c, g)
         => {c, Min({d \in Block : Checked(d) /\ Drives(d, g)})} \subseteq Condemned
    /\ \A b \in Block \ Condemned : Checked(b) => ~Mixes(b)
    /\ \A b \in Condemned : Checked(b) /\ (Mixes(b) \/ DrivesPort(b) \/ Contended(b))
    /\ \A g \in Signals : Port(g) /\ (\E b \in Block : Checked(b) /\ Drives(b, g))
                            => \E b \in Condemned : Drives(b, g)
    /\ \A i, j \in DOMAIN races : /\ races[i].block \in Condemned
                                  /\ i # j => races[i].block # races[j].block
    /\ pc = "halted" <=> flag_race_check = "FATAL" /\ Condemned # {}

(* What the guidelines ask for, of every design.                            *)
GuidelinesKept ==
  CheckDone =>
    \A b \in Block \ Condemned :
      Checked(b) => /\ ~Mixes(b) /\ ~DrivesPort(b)
                    /\ \A c \in Block \ Condemned : b # c /\ Checked(c) => ~Shares(b, c)

(* No block is removed whose bits no other block assigns.                    *)
OnlyRacesRemoved ==
  CheckDone =>
    \A b \in Condemned : \/ Mixes(b) \/ DrivesPort(b)
                         \/ \E c \in Block \ {b} : Checked(c) /\ Shares(b, c)

(* The races and what the parser could not handle take with them what calls *)
(* them and nothing else, and a block that is gone is not listed again.     *)
RemovalsExact ==
  /\ rm_stmts \subseteq kept
  /\ pc = "remove" /\ rm_stmts = {} => Closed(design.unsupported \cup Condemned)

(* The statement blocks that were eliminated for a race are output, with    *)
(* the reason (chapter_race.xml:163-170).                                   *)
RemovedAreReported == CheckDone => Condemned = {races[i].block : i \in DOMAIN races}

(* "If a signal is assigned in more than one statement block, both          *)
(* statement block's need to be removed" (race.c:516-521).                  *)
BothRemoved ==
  CheckDone => \A b, c \in Block : b # c /\ Checked(b) /\ Checked(c) /\ Shares(b, c) => b \in Condemned

(* A memory, which must be assigned by Covered, is assigned by some block   *)
(* when anything refers to it (defines.h:1692, expr.c:6533).                *)
MemoriesAssigned ==
  pc = "remove" /\ rm_stmts = {} =>
    \A u \in kept : \A s \in Statements(u) : \A g \in s.reads : design.signals[g] = "mem" => g \in assigned
=============================================================================
