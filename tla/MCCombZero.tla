---------------------------- MODULE MCCombZero -----------------------------
(* initial begin a = 0; @(posedge d); ... end   always_comb d = ... a ...; *)
EXTENDS EventWait

MCNode == {"l", "l2", "l22", "e", "e2"}
MCLeft == [n \in MCNode |-> "none"]
MCRight == "l" :> "l2" @@ "l2" :> "l22" @@ "e" :> "e2" @@ [n \in MCNode |-> "none"]
MCKind == "l" :> "SLIST" @@ "l2" :> "AEDGE" @@ "l22" :> "SIG" @@ "e" :> "PEDGE" @@ "e2" :> "SIG"
MCSigOf == "l22" :> "a" @@ "e2" :> "d" @@ [n \in MCNode |-> "none"]
MCExps == "a" :> <<"l22">> @@ "d" :> <<"e2">>
MCRoot == "comb" :> "l" @@ "init" :> "e"
MCWrites == "comb" :> {"d"} @@ "init" :> {"a"}

=============================================================================
