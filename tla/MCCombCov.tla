----------------------------- MODULE MCCombCov -----------------------------
(* Assignments and conditions with two or three signals, one of them used    *)
(* twice.                                                                    *)
EXTENDS CombCov

N(op, left, right) == [op |-> op, left |-> left, right |-> right, sig |-> ""]
S(op, sig) == [op |-> op, left |-> 0, right |-> 0, sig |-> sig]

MCTrees == {
  (* assign y = (a & b) & ~a *)
  <<N("ASSIGN", 0, 2), N("AND", 3, 4), N("AND", 5, 6), N("UINV", 0, 7), S("SIG", "a"), S("SIG", "b"), S("SIG", "a")>>,
  (* if ((a ^ b) | 1'b0) *)
  <<N("IF", 0, 2), N("OR", 3, 4), N("XOR", 5, 6), S("STATIC", "0"), S("SIG", "a"), S("SIG", "b")>>,
  (* assign y = a ? b : ~b *)
  <<N("ASSIGN", 0, 2), N("COND", 4, 3), N("COND_SEL", 5, 6), S("SIG", "a"), S("SIG", "b"), N("UINV", 0, 7),
    S("SIG", "b")>>,
  (* assign y = a ? (a | b) : b *)
  <<N("ASSIGN", 0, 2), N("COND", 4, 3), N("COND_SEL", 5, 6), S("SIG", "a"), N("OR", 7, 8), S("SIG", "b"),
    S("SIG", "a"), S("SIG", "b")>> }
=============================================================================
