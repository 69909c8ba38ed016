------------------------------- MODULE MCLoop -------------------------------
(***************************************************************************)
(* A loop that clears a memory, like that of diags/verilog/mem7:           *)
(*                                                                         *)
(*   always @(posedge clk) for( i=0; i<2; i=i+1 ) m[i] <= d + 10;          *)
(***************************************************************************)
EXTENDS NonBlock

MCSignalsOf == [y \in {"D"} |-> {"d"}]
MCValuesOf == [s \in {"i", "d"} |-> {0, 1}]
MCIndex == [s \in {"w"} |-> "i"]
MCData == [s \in {"w"} |-> "d"]
MCExecutions == [s \in {"w"} |-> 2]
=============================================================================
