--------------------------- MODULE VerilogMemory ---------------------------
(***************************************************************************)
(* What the assignments to a memory mean in Verilog: a blocking one takes   *)
(* effect at once; a non-blocking one determines its element and its value *)
(* when it is executed, and takes effect, in that order, after everything  *)
(* else at that time.  An unknown index, or one outside of the memory,     *)
(* selects no element.                                                     *)
(***************************************************************************)
EXTENDS MemDesign

VARIABLES val, mem, pending, updating

vars == <<val, mem, pending, updating>>

Init ==
  /\ val = [s \in Signal |-> Unknown]
  /\ mem = [e \in Element |-> Unknown]
  /\ pending = <<>>
  /\ updating = FALSE

(* Signals change on their own account. *)
Change ==
  /\ ~updating
  /\ val' \in [Signal -> Int]
  /\ UNCHANGED <<mem, pending, updating>>

Selects(s, e) == val[Index[s]] # Unknown /\ val[Index[s]] = FirstIndex + e

Execute(s) ==
  /\ ~updating
  /\ \E e \in Element :
       /\ Selects(s, e)
       /\ LET v == Right(s, val[Data[s]])
          IN  IF s \in Blocking
              THEN mem' = [mem EXCEPT ![e] = v] /\ UNCHANGED pending
              ELSE pending' = Append(pending, [elem |-> e, val |-> v]) /\ UNCHANGED mem
  /\ UNCHANGED <<val, updating>>

BeginUpdate == ~updating /\ updating' = TRUE /\ UNCHANGED <<val, mem, pending>>

Update ==
  /\ updating /\ pending # <<>>
  /\ mem' = [mem EXCEPT ![Head(pending).elem] = Head(pending).val]
  /\ pending' = Tail(pending)
  /\ UNCHANGED <<val, updating>>

EndUpdate ==
  /\ updating /\ pending = <<>>
  /\ updating' = FALSE
  /\ UNCHANGED <<val, mem, pending>>

Next == Change \/ BeginUpdate \/ Update \/ EndUpdate \/ \E s \in Stmt : Execute(s)

Spec == Init /\ [][Next]_vars

=============================================================================
