------------------------------ MODULE MCMemory ------------------------------
(***************************************************************************)
(* A memory that two clocked blocks write and one assigns directly; an     *)
(* index may be outside of the memory.                                     *)
(*                                                                         *)
(*   reg [3:0] m [1:0];                                                    *)
(*   always @(posedge clk) m[a] <= d + 10;             w                   *)
(*   always @(posedge clk) begin k = ~k; m[k] <= a + 10; end   r           *)
(*   always @(posedge clk) m[a] = d;                   b                   *)
(***************************************************************************)
EXTENDS NonBlock

MCSignalsOf == [y \in {"A", "D"} |-> IF y = "A" THEN {"a"} ELSE {"d"}]
MCValuesOf == [s \in {"a", "d", "k"} |-> IF s = "a" THEN {0, 2} ELSE {0, 1}]
MCIndex == [s \in {"w", "r", "b"} |-> IF s = "r" THEN "k" ELSE "a"]
MCData == [s \in {"w", "r", "b"} |-> IF s = "r" THEN "a" ELSE "d"]
MCExecutions == [s \in {"w", "r", "b"} |-> 1]

ASSUME MemoryDeferrable == DeferrableDesign
=============================================================================
