------------------------------ MODULE MCVector ------------------------------
(* A signal or a memory of three bits, in elements of two bits: four-valued  *)
(* values that mix, in the two elements, bits that move and bits that stay.  *)
EXTENDS SigVector

MCKinds == {<<"SIG", FALSE, FALSE>>, <<"SIG", FALSE, TRUE>>, <<"SIG", TRUE, FALSE>>,
            <<"MEM", FALSE, FALSE>>}

Pattern(x, y, z) == [b \in 0..2 |-> IF b = 2 THEN x ELSE IF b = 1 THEN y ELSE z]

MCPatterns == {Pattern("0", "0", "0"), Pattern("1", "1", "1"), Pattern("x", "x", "x"),
               Pattern("1", "z", "0"), Pattern("x", "0", "1")}

(* A memory of two elements of five bits, in words of two: the first element *)
(* ends in a third word, where the second one begins.                        *)
WideKinds == {<<"MEM", FALSE, FALSE>>}
WidePatterns == {[b \in 0..9 |-> "1"]}
=============================================================================
