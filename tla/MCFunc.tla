------------------------------- MODULE MCFunc -------------------------------
(***************************************************************************)
(* A module with a static and two automatic functions:                     *)
(*                                                                         *)
(*   always @*  begin  y = cnt( a );  z = mix( div( b ), a );  end         *)
(*                                                                         *)
(*   function mix( p, q );                                                 *)
(*     mix = buf( p ) + q;                                                 *)
(*   function buf( r );                                                    *)
(*     buf = r;                                                            *)
(*   function automatic cnt( n );                                          *)
(*     if( n > 1 )  cnt = cnt( n - 1 ) + cnt( n - 2 );                     *)
(*     else         cnt = n;                                               *)
(*   function automatic div( m );                                          *)
(*     begin : blk                                                         *)
(*       k = m >> 1;                                                       *)
(*       if( m > 0 )  div = div( k ) + 1;  else  div = m;                  *)
(*     end                                                                 *)
(*                                                                         *)
(* Numbers are counted modulo 4; 4 stands for x.                           *)
(***************************************************************************)
EXTENDS FuncCall

MCVal == 0 .. 4
MCX == 4
MCDumpVal == {0, 2, 3}

MCUnit == {"main", "mix", "buf", "cnt", "div", "blk"}
MCUnitKind == [u \in MCUnit |-> CASE u = "main" -> "MODULE"
                                  [] u \in {"mix", "buf"} -> "FUNCTION"
                                  [] u \in {"cnt", "div"} -> "AFUNCTION"
                                  [] u = "blk" -> "ANAMED_BLOCK"]
MCParentUnit == [u \in MCUnit |-> CASE u = "main" -> NULL [] u = "blk" -> "div" [] OTHER -> "main"]

MCVar == {"a", "b", "y", "z", "p", "q", "mixV", "r", "bufV", "n", "cntV", "m", "divV", "k"}
MCVarUnit == [v \in MCVar |-> CASE v \in {"a", "b", "y", "z"} -> "main"
                                [] v \in {"p", "q", "mixV"} -> "mix"
                                [] v \in {"r", "bufV"} -> "buf"
                                [] v \in {"n", "cntV"} -> "cnt"
                                [] v \in {"m", "divV"} -> "div"
                                [] v = "k" -> "blk"]
MCPorts == [u \in MCUnit |-> CASE u = "mix" -> <<"p", "q">> [] u = "buf" -> <<"r">>
                               [] u = "cnt" -> <<"n">> [] u = "div" -> <<"m">> [] OTHER -> <<>>]
MCResult == [u \in MCUnit |-> CASE u = "mix" -> "mixV" [] u = "buf" -> "bufV"
                                [] u = "cnt" -> "cntV" [] u = "div" -> "divV" [] OTHER -> NULL]
MCFirst == [u \in MCUnit |-> CASE u = "main" -> "y1" [] u = "mix" -> "x1" [] u = "buf" -> "f1"
                               [] u = "cnt" -> "c1" [] u = "div" -> "d1" [] u = "blk" -> "k1"]

Node(u, kind, l, r, s, f) ==
  [unit |-> u, kind |-> kind, left |-> l, right |-> r, sig |-> s, callee |-> f]

Sg(u, s) == Node(u, "SIG", NULL, NULL, s, NULL)
Cst(u) == Node(u, "STATIC", NULL, NULL, NULL, NULL)
Bin(u, l, r) == Node(u, "OP", l, r, NULL, NULL)
Asg(u, s, r) == Node(u, "BASSIGN", NULL, r, s, NULL)
Cnd(u, r) == Node(u, "IF", NULL, r, NULL, NULL)
Arg(u, r) == Node(u, "PASSIGN", NULL, r, NULL, NULL)
Fn(u, l, f) == Node(u, "FUNC_CALL", l, NULL, NULL, f)

Tree ==
  [y1 |-> Asg("main", "y", "y2"), y2 |-> Fn("main", "y3", "cnt"), y3 |-> Arg("main", "y4"),
   y4 |-> Sg("main", "a"),
   z1 |-> Asg("main", "z", "z2"), z2 |-> Fn("main", "z3", "mix"),
   z3 |-> Node("main", "PLIST", "z4", "z8", NULL, NULL),
   z4 |-> Arg("main", "z5"), z5 |-> Fn("main", "z6", "div"), z6 |-> Arg("main", "z7"),
   z7 |-> Sg("main", "b"), z8 |-> Arg("main", "z9"), z9 |-> Sg("main", "a"),
   x1 |-> Asg("mix", "mixV", "x2"), x2 |-> Bin("mix", "x3", "x6"), x3 |-> Fn("mix", "x4", "buf"),
   x4 |-> Arg("mix", "x5"), x5 |-> Sg("mix", "p"), x6 |-> Sg("mix", "q"),
   f1 |-> Asg("buf", "bufV", "f2"), f2 |-> Sg("buf", "r"),
   c1 |-> Cnd("cnt", "c2"), c2 |-> Bin("cnt", "c3", "c4"), c3 |-> Sg("cnt", "n"), c4 |-> Cst("cnt"),
   c5 |-> Asg("cnt", "cntV", "c6"), c6 |-> Bin("cnt", "c7", "cc"),
   c7 |-> Fn("cnt", "c8", "cnt"), c8 |-> Arg("cnt", "c9"), c9 |-> Bin("cnt", "ca", "cb"),
   ca |-> Sg("cnt", "n"), cb |-> Cst("cnt"),
   cc |-> Fn("cnt", "cd", "cnt"), cd |-> Arg("cnt", "ce"), ce |-> Bin("cnt", "cf", "cg"),
   cf |-> Sg("cnt", "n"), cg |-> Cst("cnt"),
   ch |-> Asg("cnt", "cntV", "ci"), ci |-> Sg("cnt", "n"),
   d1 |-> Node("div", "NB_CALL", NULL, NULL, NULL, "blk"),
   k1 |-> Asg("blk", "k", "k2"), k2 |-> Bin("blk", "k3", "k4"), k3 |-> Sg("blk", "m"), k4 |-> Cst("blk"),
   k5 |-> Cnd("blk", "k6"), k6 |-> Bin("blk", "k7", "k8"), k7 |-> Sg("blk", "m"), k8 |-> Cst("blk"),
   k9 |-> Asg("blk", "divV", "ka"), ka |-> Bin("blk", "kb", "ke"), kb |-> Fn("blk", "kc", "div"),
   kc |-> Arg("blk", "kd"), kd |-> Sg("blk", "k"), ke |-> Cst("blk"),
   kf |-> Asg("blk", "divV", "kg"), kg |-> Sg("blk", "m")]

MCExp == DOMAIN Tree
MCExpUnit == [e \in MCExp |-> Tree[e].unit]
MCKind == [e \in MCExp |-> Tree[e].kind]
MCLeft == [e \in MCExp |-> Tree[e].left]
MCRight == [e \in MCExp |-> Tree[e].right]
MCSig == [e \in MCExp |-> Tree[e].sig]
MCCallee == [e \in MCExp |-> Tree[e].callee]

MCNextTrue ==
  [e \in MCExp |-> CASE e = "y1" -> "z1" [] e = "c1" -> "c5" [] e = "k1" -> "k5" [] e = "k5" -> "k9"
                     [] OTHER -> NULL]
MCNextFalse ==
  [e \in MCExp |-> CASE e = "y1" -> "z1" [] e = "c1" -> "ch" [] e = "k1" -> "k5" [] e = "k5" -> "kf"
                     [] OTHER -> NULL]

Constant == [c4 |-> 1, cb |-> 1, cg |-> 2, k4 |-> 1, k8 |-> 0, ke |-> 1]

MCApply(e, l, r) ==
  CASE e \in DOMAIN Constant -> Constant[e]
    [] l = X \/ r = X -> X
    [] e \in {"c2", "k6"} -> IF l > r THEN 1 ELSE 0
    [] e \in {"c9", "ce"} -> (l - r) % 4
    [] e = "k2" -> l \div 2
    [] OTHER -> (l + r) % 4

MCMeaning(f, args) ==
  CASE f = "buf" -> args[1]
    [] f = "mix" -> IF X \in {args[1], args[2]} THEN X ELSE (args[1] + args[2]) % 4
    [] f = "cnt" -> <<0, 1, 1, 2, X>>[args[1] + 1]
    [] f = "div" -> <<0, 1, 2, 2, X>>[args[1] + 1]

MCBlocks == {"main"}
MCDumped == {"a", "b"}
=============================================================================
