------------------------------- MODULE MCWord -------------------------------
(***************************************************************************)
(* Two delays that end on either side of the carry between the two words   *)
(* of a time (Word is 2, so the words wrap after 1):                       *)
(*                                                                         *)
(*   initial #1 a = 1;      a1 a2                                          *)
(*   initial #2 b = 1;      b1 b2                                          *)
(***************************************************************************)
EXTENDS SimSched

MCStmt == {"a1", "a2", "b1", "b2"}
MCFunit == {"main"}
MCChildFunits == [u \in MCFunit |-> {}]
MCOp == [s \in MCStmt |-> IF s \in {"a1", "b1"} THEN "DELAY" ELSE "ASSIGN"]
MCNextTrue == [s \in MCStmt |-> CASE s = "a1" -> "a2" [] s = "b1" -> "b2" [] OTHER -> NULL]
MCNextFalse == [s \in MCStmt |-> NULL]
MCFunitOf == [s \in MCStmt |-> "main"]
MCTarget == [s \in MCStmt |-> "main"]
MCFirst == [u \in MCFunit |-> "a1"]
MCFunc == [s \in MCStmt |-> NULL]
MCDelay == [s \in MCStmt |-> CASE s = "a1" -> 1 [] s = "b1" -> 2 [] OTHER -> 0]
MCSignal == {}
MCWrites == [s \in MCStmt |-> {}]
MCReaders == [g \in MCSignal |-> {}]
MCPostSignals == {}
MCHeads == <<"a1", "b1">>
=============================================================================
