----------------------------- MODULE MCOpAssign -----------------------------
(***************************************************************************)
(* A task whose last statement is an op-and-assign, called twice:          *)
(*                                                                         *)
(*   initial begin set; #1 set; done = 1; end        i1 i2 i3 i4           *)
(*   task set: flags |= 1;                           t1                    *)
(***************************************************************************)
EXTENDS SimSched

MCStmt == {"i1", "i2", "i3", "i4", "t1"}
MCFunit == {"main", "set"}
MCChildFunits == [u \in MCFunit |-> IF u = "main" THEN {"set"} ELSE {}]

MCOp ==
  [s \in MCStmt |-> CASE s \in {"i1", "i3"} -> "CALL" [] s = "i2" -> "DELAY"
                      [] s = "t1" -> "VALUE" [] OTHER -> "ASSIGN"]

MCNextTrue ==
  [s \in MCStmt |-> CASE s = "i1" -> "i2" [] s = "i2" -> "i3" [] s = "i3" -> "i4" [] OTHER -> NULL]

MCNextFalse == [s \in MCStmt |-> NULL]
MCFunitOf == [s \in MCStmt |-> IF s = "t1" THEN "set" ELSE "main"]
MCTarget == [s \in MCStmt |-> "set"]
MCFirst == [u \in MCFunit |-> IF u = "set" THEN "t1" ELSE "i1"]
MCFunc == [s \in MCStmt |-> NULL]
MCDelay == [s \in MCStmt |-> IF s = "i2" THEN 1 ELSE 0]
MCSignal == {"flags"}
MCWrites == [s \in MCStmt |-> IF s = "t1" THEN {"flags"} ELSE {}]
MCReaders == [g \in MCSignal |-> {"t1"}]
MCPostSignals == {}
MCHeads == <<"i1">>
=============================================================================
