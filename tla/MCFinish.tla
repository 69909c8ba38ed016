------------------------------ MODULE MCFinish ------------------------------
(***************************************************************************)
(* The fork of MCFork in a simulation that is stopped while threads are    *)
(* delayed, waiting and blocked, in the build with the debugger ($stop     *)
(* only breaks there):                                                     *)
(*                                                                         *)
(*   initial begin #(p(u)) $stop; z = h(u); end             s1 s2 s3       *)
(*   function h: begin $finish; h = 0; end                  h1 h2          *)
(*   initial begin t; z = 1; end                            q1 q2          *)
(*   task t: begin wait (v); z = r(v); end                  t1 t2          *)
(*   function r: begin disable t; r = 1; end                r1 r2          *)
(*   function p: p = 2;                                     p1             *)
(*   always #1 u = ~u;                                      g1 g2          *)
(*   always_comb v = u;                                     c1 c2          *)
(*   final z = u;                                           e1             *)
(*                                                                         *)
(* The functions of the assignments end the simulation and disable their   *)
(* caller, that of the delay does neither.                                 *)
(***************************************************************************)
EXTENDS MCFork

StopStmt == {"s1", "s2", "s3", "q1", "q2", "t1", "t2", "g1", "g2", "c1", "c2", "e1",
             "h1", "h2", "r1", "r2", "p1"}

AllStmt == MCStmt \cup StopStmt
Routine == {"t", "h", "r", "p"}
AllFunit == MCFunit \cup Routine

AllChildFunits ==
  [u \in AllFunit |-> CASE u = "main" -> MCChildFunits[u] \cup Routine [] u \in Routine -> {} [] OTHER -> MCChildFunits[u]]

AllOp ==
  [s \in StopStmt |-> CASE s \in {"s1", "g1"} -> "DELAY" [] s = "s2" -> "STOP" [] s = "h1" -> "FINISH"
                        [] s = "q1" -> "CALL" [] s = "t1" -> "WAIT" [] s = "c1" -> "COMB" [] s = "r1" -> "DISABLE" [] OTHER -> "ASSIGN"]
  @@ MCOp

AllNextTrue ==
  [s \in StopStmt |-> CASE s = "s1" -> "s2" [] s = "s2" -> "s3" [] s = "q1" -> "q2" [] s = "t1" -> "t2"
                        [] s = "g1" -> "g2" [] s = "g2" -> "g1" [] s = "c1" -> "c2" [] s = "c2" -> "c1"
                        [] s = "h1" -> "h2" [] s = "r1" -> "r2" [] OTHER -> NULL]
  @@ MCNextTrue

AllNextFalse == [s \in AllStmt |-> IF AllOp[s] \in ContextSwitch THEN NULL ELSE AllNextTrue[s]]

AllFunitOf ==
  [s \in StopStmt |-> CASE s \in {"t1", "t2"} -> "t" [] s \in {"h1", "h2"} -> "h" [] s \in {"r1", "r2"} -> "r"
                        [] s = "p1" -> "p" [] OTHER -> "main"]
  @@ MCFunitOf

AllTarget == [s \in StopStmt |-> IF s \in {"q1", "r1"} THEN "t" ELSE "main"] @@ MCTarget

AllFirst ==
  [u \in AllFunit |-> CASE u = "t" -> "t1" [] u = "h" -> "h1" [] u = "r" -> "r1" [] u = "p" -> "p1" [] OTHER -> MCFirst[u]]

AllFunc ==
  [s \in AllStmt |-> CASE s = "s3" -> "h" [] s = "t2" -> "r" [] s = "s1" -> "p" [] OTHER -> NULL]

AllDelay == [s \in AllStmt |-> CASE s = "s1" -> 2 [] AllOp[s] = "DELAY" -> 1 [] OTHER -> 0]
AllSignal == MCSignal \cup {"u", "v"}
AllWrites == [s \in AllStmt |-> CASE s = "g2" -> {"u"} [] s = "c2" -> {"v"} [] s \in StopStmt -> {} [] OTHER -> MCWrites[s]]
AllReaders == [g \in AllSignal |-> CASE g = "u" -> {"c1"} [] g = "v" -> {"t1"} [] OTHER -> MCReaders[g]]
AllHeads == <<"c1", "e1", "s1", "q1", "g1">> \o MCHeads

(* Designs that StructuredDesign leaves out: the function of a delay, or of  *)
(* a call of a task, ends the simulation or disables the module it runs for. *)
DelayFinishes == [AllFunc EXCEPT !["s1"] = "h"]
CallFinishes == [AllFunc EXCEPT !["q1"] = "h"]
DelayDisables == [AllFunc EXCEPT !["s1"] = "r"]
MainDisabled == [AllTarget EXCEPT !["r1"] = "main"]

ASSUME FinishStructured == Func = AllFunc => StructuredDesign
ASSUME FinishTimely == TimelyDesign

=============================================================================
