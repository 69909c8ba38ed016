------------------------------ MODULE MCEvent ------------------------------
(***************************************************************************)
(* A design with every kind of event statement:                            *)
(*                                                                         *)
(*   always @(posedge a or negedge (b | c))  c = ...;                      *)
(*   always_comb                             d = ... a ... c ...;          *)
(*   always begin  wait( d );  #1;  b = ...;  end                          *)
(*                                                                         *)
(* The dumpfile changes a and b.                                           *)
(***************************************************************************)
EXTENDS EventWait

(* The expressions of the three statements; a child of e3 is e31 or e32.   *)
MCNode == {"e", "e1", "e11", "e2", "e22", "e22l", "e22r",
           "l", "l2", "l21", "l21a", "l22", "l22c",
           "w", "w2"}

MCLeft ==
  [n \in MCNode |-> CASE n = "e" -> "e1" [] n = "e22" -> "e22l" [] n = "l2" -> "l21"
                      [] OTHER -> "none"]

MCRight ==
  [n \in MCNode |-> CASE n = "e" -> "e2" [] n = "e1" -> "e11" [] n = "e2" -> "e22"
                      [] n = "e22" -> "e22r"
                      [] n = "l" -> "l2" [] n = "l2" -> "l22" [] n = "l21" -> "l21a"
                      [] n = "l22" -> "l22c"
                      [] n = "w" -> "w2" [] OTHER -> "none"]

MCKind ==
  [n \in MCNode |-> CASE n \in {"e", "l2"} -> "EOR" [] n = "e1" -> "PEDGE" [] n = "e2" -> "NEDGE"
                      [] n = "e22" -> "OR" [] n = "l" -> "SLIST" [] n \in {"l21", "l22"} -> "AEDGE"
                      [] n = "w" -> "WAIT" [] OTHER -> "SIG"]

MCSigOf ==
  [n \in MCNode |-> CASE n \in {"e11", "l21a"} -> "a" [] n = "e22l" -> "b"
                      [] n \in {"e22r", "l22c"} -> "c" [] n = "w2" -> "d" [] OTHER -> "none"]

MCSignal == {"a", "b", "c", "d"}

MCExps ==
  [s \in MCSignal |-> CASE s = "a" -> <<"e11", "l21a">> [] s = "b" -> <<"e22l">>
                        [] s = "c" -> <<"l22c", "e22r">> [] s = "d" -> <<"w2">>]

MCThread == {"ff", "comb", "wt"}
MCRoot == [t \in MCThread |-> CASE t = "ff" -> "e" [] t = "comb" -> "l" [] t = "wt" -> "w"]
MCWrites == [t \in MCThread |-> CASE t = "ff" -> {"c"} [] t = "comb" -> {"d"} [] t = "wt" -> {"b"}]

ASSUME PlainDesign /\ AnyEdgesOfSignals

=============================================================================
