------------------------------- MODULE MCCall -------------------------------
(******************************************************************************)
(* Tasks, functions that call a named block, a continuous assignment that     *)
(* calls a function, and a repeat loop around a delay:                        *)
(*                                                                            *)
(*   initial begin t; #1; t; y = 1; end                    i1 i2 i3 i4        *)
(*   task t: begin #2 x = f(y); end                        t1 t2              *)
(*   function f: begin if (a) begin:n case... end f = a; end  f1 f2 f3, n1 n2 *)
(*   assign c = f(x);    (c itself comes from the dumpfile)  c1               *)
(*   always @(c, x) repeat (2) #1;                          w1 w2 w3          *)
(******************************************************************************)
EXTENDS SimSched

MCStmt == {"i1", "i2", "i3", "i4", "t1", "t2", "f1", "f2", "f3", "n1", "n2", "c1", "w1", "w2", "w3"}
MCFunit == {"main", "t", "f", "n"}

MCChildFunits ==
  [u \in MCFunit |-> CASE u = "main" -> {"t", "f", "n"} [] u = "f" -> {"n"} [] OTHER -> {}]

MCOp ==
  [s \in MCStmt |-> CASE s \in {"i1", "i3"} -> "CALL" [] s \in {"i2", "t1", "w3"} -> "DELAY" [] s = "n1" -> "CASE"
                      [] s = "w1" -> "EVENT" [] s = "w2" -> "VALUE" [] OTHER -> "ASSIGN"]

MCNextTrue ==
  [s \in MCStmt |-> CASE s = "i1" -> "i2" [] s = "i2" -> "i3" [] s = "i3" -> "i4" [] s = "t1" -> "t2" [] s = "f1" -> "f2"
                      [] s = "f2" -> "f3" [] s = "n1" -> "n2" [] s = "w1" -> "w2" [] s = "w2" -> "w3"
                      [] s = "w3" -> "w2" [] s = "c1" -> "c1" [] OTHER -> NULL]

MCNextFalse ==
  [s \in MCStmt |-> CASE s \in {"f1", "f2"} -> "f3" [] s = "w2" -> "w1" [] s = "c1" -> "c1" [] OTHER -> NULL]

MCFunitOf ==
  [s \in MCStmt |-> CASE s \in {"t1", "t2"} -> "t" [] s \in {"f1", "f2", "f3"} -> "f"
                      [] s \in {"n1", "n2"} -> "n" [] OTHER -> "main"]

MCTarget == [s \in MCStmt |-> IF s \in {"i1", "i3"} THEN "t" ELSE "main"]
MCFirst == [u \in MCFunit |-> CASE u = "t" -> "t1" [] u = "f" -> "f1" [] u = "n" -> "n1" [] OTHER -> "i1"]
MCFunc == [s \in MCStmt |-> CASE s \in {"t2", "c1"} -> "f" [] s = "f2" -> "n" [] OTHER -> NULL]
MCDelay == [s \in MCStmt |-> CASE s = "t1" -> 2 [] MCOp[s] = "DELAY" -> 1 [] OTHER -> 0]
MCSignal == {"x", "c"}
MCWrites == [s \in MCStmt |-> IF s = "t2" THEN {"x"} ELSE {}]
MCReaders == [g \in MCSignal |-> IF g = "x" THEN {"c1", "w1"} ELSE {"w1"}]
MCPostSignals == {"x", "c"}
MCHeads == <<"c1", "i1", "w1">>

(* The theorems of the scheduler apply to this design. *)
ASSUME CallStructured == StructuredDesign
ASSUME CallTimely == TimelyDesign
=============================================================================
