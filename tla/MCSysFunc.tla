----------------------------- MODULE MCSysFunc -----------------------------
(* initial wait( ($time > 9) || a );  and a comes from the dumpfile.       *)
EXTENDS EventWait

MCNode == {"w", "w2", "w2l", "w2r"}
MCLeft == "w2" :> "w2l" @@ [n \in MCNode |-> "none"]
MCRight == "w" :> "w2" @@ "w2" :> "w2r" @@ [n \in MCNode |-> "none"]
MCKind == "w" :> "WAIT" @@ "w2" :> "OR" @@ "w2l" :> "TIME" @@ "w2r" :> "SIG"
MCSigOf == "w2r" :> "a" @@ [n \in MCNode |-> "none"]
MCExps == "a" :> <<"w2r">>
MCRoot == "t" :> "w"
MCWrites == "t" :> {}

=============================================================================
