------------------------------ MODULE MCExprOp ------------------------------
(* Every operator on vectors of one and two elements of three bits, signed   *)
(* and unsigned, of equal widths and not, with wider and narrower targets.   *)
EXTENDS ExprOp

Bitwise == {"AND", "OR", "NAND", "NOR", "XOR", "NXOR"}

MCOps == Bitwise \cup OneBit \cup Words
         \cup {"UINV", "LSHIFT", "RSHIFT", "ARSHIFT", "ADD", "SUBTRACT", "NEGATE", "LIST", "EXPAND", "CLOG2"}

MCShapes == {<<2, FALSE, 2, FALSE, 2>>, <<2, TRUE, 2, TRUE, 3>>, <<4, FALSE, 1, FALSE, 4>>,
             <<4, TRUE, 1, TRUE, 5>>, <<1, FALSE, 4, FALSE, 4>>, <<2, FALSE, 2, FALSE, 5>>,
             <<2, FALSE, 2, FALSE, 1>>}

(* Signed operands that fill their element. *)
MCFilled == {<<3, TRUE, 3, TRUE, 3>>}

MCFirsts == {<<"x", "1">>, <<"1", "0">>}
=============================================================================
