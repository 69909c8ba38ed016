------------------------------- MODULE MCFork -------------------------------
(***************************************************************************)
(* A fork whose branches delay and wait, called from an initial block,     *)
(* watched by an always block and disabled from outside:                   *)
(*                                                                         *)
(*   initial begin f; x = 1; end              i1 i2                        *)
(*   f: fork begin #1 y = 1; end              k1 k2 k3 (join), a1 a2       *)
(*           begin @(y) disable f; end join           b1 b2                *)
(*   initial begin #1; disable f; end         d1 d2                        *)
(*   always @(x) z = x;                       w1 w2                        *)
(***************************************************************************)
EXTENDS SimSched

MCStmt == {"i1", "i2", "k1", "k2", "k3", "a1", "a2", "b1", "b2", "d1", "d2", "w1", "w2"}

MCFunit == {"main", "f", "fa", "fb"}

MCChildFunits ==
  [u \in MCFunit |-> CASE u = "main" -> {"f", "fa", "fb"} [] u = "f" -> {"fa", "fb"} [] OTHER -> {}]

MCOp ==
  [s \in MCStmt |-> CASE s = "i1" -> "CALL" [] s \in {"k1", "k2"} -> "FORK" [] s = "k3" -> "JOIN"
                      [] s \in {"a1", "d1"} -> "DELAY" [] s \in {"b1", "w1"} -> "EVENT"
                      [] s \in {"b2", "d2"} -> "DISABLE" [] OTHER -> "ASSIGN"]

MCNextTrue ==
  [s \in MCStmt |-> CASE s = "i1" -> "i2" [] s = "k1" -> "k2" [] s = "k2" -> "k3" [] s = "a1" -> "a2"
                      [] s = "b1" -> "b2" [] s = "d1" -> "d2" [] s = "w1" -> "w2" [] s = "w2" -> "w1"
                      [] OTHER -> NULL]

MCNextFalse == [s \in MCStmt |-> IF MCOp[s] \in ContextSwitch THEN NULL ELSE MCNextTrue[s]]

MCFunitOf ==
  [s \in MCStmt |-> CASE s \in {"k1", "k2", "k3"} -> "f" [] s \in {"a1", "a2"} -> "fa"
                      [] s \in {"b1", "b2"} -> "fb" [] OTHER -> "main"]

MCTarget ==
  [s \in MCStmt |-> CASE s \in {"i1", "b2", "d2"} -> "f" [] s = "k1" -> "fa" [] s = "k2" -> "fb" [] OTHER -> "main"]

MCFirst == [u \in MCFunit |-> CASE u = "f" -> "k1" [] u = "fa" -> "a1" [] u = "fb" -> "b1" [] OTHER -> "i1"]

MCFunc == [s \in MCStmt |-> NULL]
MCDelay == [s \in MCStmt |-> IF MCOp[s] = "DELAY" THEN 1 ELSE 0]
MCSignal == {"x", "y"}
MCWrites == [s \in MCStmt |-> CASE s = "i2" -> {"x"} [] s = "a2" -> {"y"} [] OTHER -> {}]
MCReaders == [g \in MCSignal |-> IF g = "x" THEN {"w1"} ELSE {"b1"}]
MCPostSignals == {"x", "y"}
MCHeads == <<"i1", "d1", "w1">>
=============================================================================
