------------------------------- MODULE MCRace -------------------------------
(* Designs in three groups: blocks that assign parts of a vector, blocks     *)
(* with assignments of all kinds, and units that call each other.            *)
EXTENDS RaceCheck

Assign(op, sel, msb, lsb) ==
  [op |-> op, sig |-> 1, sel |-> sel, msb |-> msb, lsb |-> lsb,
   calls |-> {}, reads |-> {}, otherwise |-> FALSE]
Call(u) == [Assign("CALL", "", 0, 0) EXCEPT !.sig = 0, !.calls = {u}]

Whole(op) == Assign(op, "SIG", 0, 0)
Selects == {Whole("BASSIGN"), Assign("BASSIGN", "VAR", 0, 0), Assign("BASSIGN", "SBIT", 0, 0),
            Assign("BASSIGN", "MBIT", 2, 1), Assign("BASSIGN", "MBIT", 2, 2),
            Assign("RASSIGN", "SIG", 0, 0)}

Design(kind, body) ==
  [kind |-> kind, body |-> body, unsupported |-> {}, ignore_rc |-> [u \in DOMAIN kind |-> FALSE],
   edge |-> [u \in DOMAIN kind |-> "none"], signals |-> <<"reg">>]

(* Three blocks, the first with a named block of its own. *)
Vectors ==
  { [Design(<<"block", "named", "block", "block">>, << <<s, Call(2)>>, <<n>>, <<t>>, r >>)
       EXCEPT !.ignore_rc = [u \in 1..4 |-> u \in ignored], !.signals = <<type>>] :
      s \in Selects, n \in Selects, t \in Selects,
      r \in {<<a>> : a \in Selects} \cup {<<a, a>> : a \in {Whole("BASSIGN"), Assign("BASSIGN", "MBIT", 2, 1)}},
      ignored \in {{}, {1}, {3}, {4}}, type \in {"reg", "input"} }

(* Control variables of for loops stand behind other blocking assignments. *)
Kinds ==
  { [Design(<<"block", "named">>, << <<s, Call(2)>>, <<t>> >>)
       EXCEPT !.edge = <<edge, "none">>, !.ignore_rc = <<ignored, FALSE>>, !.signals = <<type>>] :
      s \in {Whole(op) : op \in {"ASSIGN", "BASSIGN", "NASSIGN", "FOR"}},
      t \in {Whole(op) : op \in {"NASSIGN", "FOR"}},
      edge \in {"seq", "cmb", "mixed", "none"}, ignored \in BOOLEAN, type \in {"reg", "inout"} }

(* Two blocks, a task, a function, and a named block of the first of them or *)
(* of the task.                                                              *)
Using(f) == [Whole("NASSIGN") EXCEPT !.sig = 2, !.calls = f]
Calling ==
  { [Design(<<"block", "named", "block", "task", "function">>,
            << <<Whole("BASSIGN")>> \o t1 \o (IF owner = 1 THEN <<Call(2)>> ELSE <<>>),
               <<Using(f2)>>, <<s, Using(f3)>>,
               IF owner = 4 THEN <<Using(f4), Call(2)>> ELSE <<Using(f4)>>,
               << [Whole("BASSIGN") EXCEPT !.sig = 2] >> >>)
       EXCEPT !.unsupported = bad, !.signals = <<"reg", "mem">>] :
      t1 \in {<<>>, <<Call(4)>>}, owner \in {1, 4}, f2 \in SUBSET {5}, f3 \in SUBSET {5},
      f4 \in SUBSET {5}, bad \in SUBSET (1..5),
      s \in {Whole("BASSIGN"), [Whole("NASSIGN") EXCEPT !.sig = 2]} }

MCDesigns == Vectors \cup Kinds \cup Calling

-----------------------------------------------------------------------------
(* By hand: designs for which the check is not right.  The second and third *)
(* block assign the same bits, the first others of the same signal.          *)
ThreeBlocks ==
  { Design(<<"block", "block", "block">>,
           << <<Assign("BASSIGN", "SBIT", 0, 0)>>, <<Assign("BASSIGN", "MBIT", 2, 1)>>,
              <<Assign("BASSIGN", "MBIT", 2, 1)>> >>) }

(* A bit select, a task of two blocks, a task declared behind another block, *)
(* a loop, and two drivers of an input.                                      *)
MissedRaces ==
  { Design(<<"block", "block">>, << <<Assign("BASSIGN", "SBIT", 1, 1)>>, <<Assign("BASSIGN", "SBIT", 1, 1)>> >>),
    Design(<<"block", "block", "task">>, << <<Call(3)>>, <<Call(3)>>, <<Whole("BASSIGN")>> >>),
    Design(<<"block", "block", "task">>,
           << <<Assign("BASSIGN", "SBIT", 0, 0), Call(3)>>, <<Assign("BASSIGN", "MBIT", 2, 1)>>,
              <<Assign("BASSIGN", "MBIT", 2, 1)>> >>),
    [Design(<<"block">>, << <<[Whole("FOR") EXCEPT !.sig = 2], Whole("BASSIGN")>> >>)
       EXCEPT !.edge = <<"seq">>, !.signals = <<"reg", "reg">>],
    [Design(<<"block", "block">>, << <<Assign("BASSIGN", "SBIT", 0, 0)>>, <<Assign("BASSIGN", "MBIT", 2, 1)>> >>)
       EXCEPT !.signals = <<"input">>] }

(* Neighbouring indexed part selects, and a block that assigns its own bits  *)
(* twice.                                                                    *)
FalseRaces ==
  { Design(<<"block", "block">>, << <<Assign("BASSIGN", "POS", 0, 0)>>, <<Assign("BASSIGN", "POS", 1, 1)>> >>),
    Design(<<"block", "block">>,
           << <<Assign("BASSIGN", "SBIT", 0, 0)>>,
              <<Assign("BASSIGN", "MBIT", 2, 1), Assign("BASSIGN", "MBIT", 1, 1)>> >>) }

(* A function used in the else part of a block, and one that calls itself.   *)
MissedCalls ==
  { [Design(<<"block", "function">>, << <<[Whole("BASSIGN") EXCEPT !.calls = {2}, !.otherwise = TRUE]>>, <<>> >>)
       EXCEPT !.unsupported = {2}],
    [Design(<<"block", "function">>, << <<Whole("BASSIGN")>>, <<[Whole("BASSIGN") EXCEPT !.calls = {2}]>> >>)
       EXCEPT !.unsupported = {2}] }

(* A block that is removed writes a memory, another one reads it. *)
LostMemory ==
  { [Design(<<"block", "block">>,
            << <<[Whole("BASSIGN") EXCEPT !.sig = 2]>>, <<[Whole("NASSIGN") EXCEPT !.reads = {2}]>> >>)
       EXCEPT !.edge = <<"seq", "seq">>, !.signals = <<"reg", "mem">>] }
=============================================================================
