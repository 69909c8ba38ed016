------------------------------ MODULE SimTime ------------------------------
(***************************************************************************)
(* Simulation time of Covered (defines.h: struct sim_time_s and the TIME_* *)
(* macros).  A 64-bit time is held as two words, hi and lo, next to a      *)
(* 64-bit copy "full" that is only displayed; the scheduler compares and   *)
(* adds the words.  Word is the number of values of one word: 2^32 in the  *)
(* code, small in the models so that the carry is reached.                 *)
(***************************************************************************)
EXTENDS Integers

CONSTANT Word

ASSUME WordAssumption == Word \in Nat \ {0}

(* struct sim_time_s *)
SimTime == [hi : 0..(Word - 1), lo : 0..(Word - 1), final : BOOLEAN]

(* The 64-bit number the two words stand for: field "full" of sim_time_s.  *)
Full(t) == t.hi * Word + t.lo

(* The two words of a 64-bit number, as db_do_timestep splits it. *)
TimeOf(n, final) == [hi |-> (n \div Word) % Word, lo |-> n % Word, final |-> final]

(* All ones: the time of the final blocks and of the last pass. *)
FinalTime == [hi |-> Word - 1, lo |-> Word - 1, final |-> TRUE]

(* Fault: a time that has been reached exactly does not count. *)
TimeCmpLT(x, y) == (x.lo < y.lo /\ x.hi <= y.hi) \/ x.hi < y.hi

(* TIME_CMP_LE, TIME_CMP_GT: word by word, as the macros do. *)
TimeCmpLE(x, y) == (x.lo <= y.lo /\ x.hi <= y.hi) \/ x.hi < y.hi

TimeCmpGT(x, y) == x.lo > y.lo \/ x.hi > y.hi

(* TIME_INC(x, y), with x a delay and y the time of the thread. *)
TimeInc(x, y) ==
  LET carry == IF (Word - 1) - x.lo < y.lo THEN 1 ELSE 0
  IN  [hi |-> (x.hi + y.hi + carry) % Word, lo |-> (x.lo + y.lo) % Word, final |-> x.final]
=============================================================================
