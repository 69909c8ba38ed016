-------------------------------- MODULE FsmCov --------------------------------
(***************************************************************************)
(* FSM coverage: fsm.c and arc.c, the threads of the statements that hold  *)
(* the state expressions (fsm_arg.c, sim.c), the exclusion of a state      *)
(* transition (exclude.c) and the merge of two databases.                  *)
(*                                                                         *)
(* A table keeps the states it has met in two lists, in the order it met   *)
(* them, and its arcs as pairs of positions in these lists.  Positions are *)
(* private to a table: a merge has to go through the values.               *)
(*                                                                         *)
(* A state variable is given by one expression (its old value is then kept *)
(* by Covered, in from_state) or by two, the state and the next state,     *)
(* each a statement with a thread of its own.  What the rest of the design *)
(* and the dumpfile do is Assign: any value, any number of times before    *)
(* the threads run.  The loops of fsm_create_tables and arc_db_merge take  *)
(* one step for each arc.                                                  *)
(***************************************************************************)
EXTENDS Integers, Sequences, FiniteSets

CONSTANTS
  Values,      \* values of the state variable
  Unknown,     \* those with a bit x or z
  Zero,        \* the value vector_create gives to a vector
  X,           \* the value of a signal nothing has assigned
  Designs,     \* records: two (variables), arcs (declared), exclude (attribute)
  MaxAssigns,  \* assignments to a state variable in a run
  MaxRuns,     \* runs of score
  MaxEdits     \* exclusions and inclusions by the user

ASSUME ValuesAssumption ==
  /\ Unknown \subseteq Values
  /\ Zero \in Values \ Unknown
  /\ X \in Unknown
  /\ \A d \in Designs : /\ d.two \in BOOLEAN /\ d.exclude \in BOOLEAN
                        /\ d.arcs \in Seq(Values \X Values)

VARIABLES
  design,   \* the FSM of this project
  phase,    \* "create", "sim", "cdd" (read by report or the GUI) or "merge"
  cdd,      \* the database at hand
  files,    \* the other databases of this design
  other,    \* the database being merged into cdd
  next,     \* the arc the loop of "create" or "merge" is at
  from,     \* value of from_state
  to,       \* value of to_state
  active,   \* the statements whose thread is in the active queue
  stat,     \* arc_hit and arc_excluded of the functional unit's statistics
  sampled,  \* ghost: what the variable was when its thread last ran, X before
  count     \* how often the bounded steps were taken: assigns, runs, edits

vars == <<design, phase, cdd, files, other, next, from, to, active, stat, sampled, count>>

-----------------------------------------------------------------------------
(* The table, fsm_table.  A database is a table with two ghosts: the       *)
(* transitions made in the runs it stands for (seen) and those that are    *)
(* excluded in it (out).                                                   *)

Pairs == Values \X Values
Arc   == [from: Nat \ {0}, to: Nat \ {0}, hit: BOOLEAN, excluded: BOOLEAN]
Table == [known: BOOLEAN, fr: Seq(Values), to: Seq(Values), arcs: Seq(Arc)]
Cdd   == [table: Table, seen: SUBSET Pairs, out: SUBSET Pairs]

arc_create == [known |-> FALSE, fr |-> <<>>, to |-> <<>>, arcs |-> <<>>]
NewCdd     == [table |-> arc_create, seen |-> {}, out |-> {}]

\* arc_find_from_state and arc_find_to_state: where v is, or will be put.
FindState(states, v) ==
  IF \E i \in DOMAIN states : states[i] = v
    THEN CHOOSE i \in DOMAIN states : states[i] = v
    ELSE Len(states) + 1

WithState(states, v) ==
  IF \E i \in DOMAIN states : states[i] = v THEN states ELSE Append(states, v)

\* Fault: only arcs that are hit are looked at.
FindArcHit(arcs, f, t) ==
  IF \E i \in DOMAIN arcs : arcs[i].from = f /\ arcs[i].to = t /\ arcs[i].hit
    THEN CHOOSE i \in DOMAIN arcs : arcs[i].from = f /\ arcs[i].to = t /\ arcs[i].hit
    ELSE Len(arcs) + 1

\* arc_find_arc.
FindArc(arcs, f, t) ==
  IF \E i \in DOMAIN arcs : arcs[i].from = f /\ arcs[i].to = t
    THEN CHOOSE i \in DOMAIN arcs : arcs[i].from = f /\ arcs[i].to = t
    ELSE Len(arcs) + 1

\* Fault: the exclusion is overwritten.
MarkedLast(arc, hit, exclude) == [arc EXCEPT !.hit = @ \/ hit, !.excluded = exclude]

\* The hit and exclude information of an arc that exists.
Marked(arc, hit, exclude) == [arc EXCEPT !.hit = @ \/ hit, !.excluded = @ \/ exclude]

\* The part of arc_add that finds or appends the arc.
WithArc(arcs, f, t, hit, exclude) ==
  LET i == FindArc(arcs, f, t)
  IN IF i \in DOMAIN arcs
       THEN [arcs EXCEPT ![i] = Marked(@, hit, exclude)]
       ELSE Append(arcs, [from |-> f, to |-> t, hit |-> hit, excluded |-> exclude])

\* arc_add: a transition that was made counts only between known values; one
\* that is declared makes the table a known one.
arc_add(table, f, t, hit, exclude) ==
  IF hit /\ (f \in Unknown \/ t \in Unknown)
    THEN table
    ELSE [known |-> table.known \/ ~hit,
          fr    |-> WithState(table.fr, f),
          to    |-> WithState(table.to, t),
          arcs  |-> WithArc(table.arcs, FindState(table.fr, f), FindState(table.to, t),
                            hit, exclude)]

FromOf(table, i) == table.fr[table.arcs[i].from]
ToOf(table, i)   == table.to[table.arcs[i].to]
PairOf(table, i) == <<FromOf(table, i), ToOf(table, i)>>

\* arc_transition_hits and arc_transition_excluded.
ArcHits(table)     == Cardinality({i \in DOMAIN table.arcs : table.arcs[i].hit \/ table.arcs[i].excluded})
ArcExcluded(table) == Cardinality({i \in DOMAIN table.arcs : table.arcs[i].excluded})

\* arc_get_stats.
Stats(table) == [hit |-> ArcHits(table), excluded |-> ArcExcluded(table)]

-----------------------------------------------------------------------------
Statements == IF design.two THEN {"from", "to"} ELSE {"to"}

\* score, before the simulation: the tables of a new database are created from
\* the declared transitions.
Init ==
  /\ design \in Designs
  /\ phase = "create"
  /\ cdd = NewCdd /\ files = {} /\ other = NewCdd /\ next = 1
  /\ from = Zero /\ to = X /\ active = {} /\ sampled = X
  /\ stat = Stats(arc_create)
  /\ count = [assigns |-> 0, runs |-> 1, edits |-> 0]

\* fsm_create_tables, the loop.
CreateArc ==
  /\ phase = "create" /\ next <= Len(design.arcs)
  /\ LET a == design.arcs[next]
     IN cdd' = [cdd EXCEPT !.table = arc_add(@, a[1], a[2], FALSE, design.exclude),
                           !.out   = IF design.exclude THEN @ \union {a} ELSE @]
  /\ next' = next + 1
  /\ UNCHANGED <<design, phase, files, other, from, to, active, stat, sampled, count>>

\* The database is written and read again: every statement gets its thread,
\* from_state of a single variable a vector of its own, and the signals are x.
StartRun ==
  /\ phase = "create" /\ next > Len(design.arcs)
  /\ phase' = "sim"
  /\ active' = Statements
  /\ to' = X
  /\ from' = IF design.two THEN X ELSE Zero
  /\ sampled' = X
  /\ UNCHANGED <<design, cdd, files, other, next, stat, count>>

\* vsignal_propagate and sim_expr_changed: the thread is queued if it waits.
Assign(s, v) ==
  /\ phase = "sim" /\ s \in Statements /\ count.assigns < MaxAssigns
  /\ v # IF s = "from" THEN from ELSE to
  /\ IF s = "from" THEN from' = v /\ to' = to ELSE to' = v /\ from' = from
  /\ active' = active \union {s}
  /\ count' = [count EXCEPT !.assigns = @ + 1]
  /\ UNCHANGED <<design, phase, cdd, files, other, next, stat, sampled>>

\* Fault: the output state is left to run when it changes itself.
RunFromAlone ==
  /\ phase = "sim" /\ "from" \in active
  /\ active' = active \ {"from"}
  /\ UNCHANGED <<design, phase, cdd, files, other, next, from, to, stat, sampled, count>>

\* fsm_table_set at the input state of two: the output state is simulated.
RunFrom ==
  /\ phase = "sim" /\ "from" \in active
  /\ active' = (active \ {"from"}) \union {"to"}
  /\ UNCHANGED <<design, phase, cdd, files, other, next, from, to, stat, sampled, count>>

\* fsm_table_set at the output state: the transition is added, and a single
\* variable's value is kept for the next one.
RunTo ==
  /\ phase = "sim" /\ "to" \in active
  /\ active' = active \ {"to"}
  /\ cdd' = [cdd EXCEPT
       !.table = arc_add(@, from, to, TRUE, FALSE),
       !.seen  = @ \union
          ({<<IF design.two THEN from ELSE sampled, to>>} \cap ((Values \ Unknown) \X (Values \ Unknown)))]
  /\ from' = IF design.two THEN from ELSE to
  /\ sampled' = to
  /\ UNCHANGED <<design, phase, files, other, next, to, stat, count>>

\* The run is over (possibly at $finish, with threads left), the database is
\* written, and read by report or the GUI, which compute the statistics.
EndRun ==
  /\ phase = "sim"
  /\ phase' = "cdd"
  /\ active' = {}
  /\ stat' = Stats(cdd.table)
  /\ UNCHANGED <<design, cdd, files, other, next, from, to, sampled, count>>

\* Another run of score, into a database of its own.
NextRun ==
  /\ phase = "cdd" /\ count.runs < MaxRuns
  /\ phase' = "create" /\ next' = 1
  /\ files' = files \union {cdd}
  /\ cdd' = NewCdd
  /\ count' = [count EXCEPT !.runs = @ + 1, !.assigns = 0]
  /\ UNCHANGED <<design, other, from, to, active, stat, sampled>>

\* One of the other databases is read instead.
Open(f) ==
  /\ phase = "cdd" /\ f \in files
  /\ files' = (files \ {f}) \union {cdd}
  /\ cdd' = f
  /\ stat' = Stats(f.table)
  /\ UNCHANGED <<design, phase, other, next, from, to, active, sampled, count>>

-----------------------------------------------------------------------------
(* Exclusion *)

Excluded(c, i, exclude) ==
  [c EXCEPT !.table.arcs[i].excluded = exclude,
            !.out = IF exclude THEN @ \union {PairOf(c.table, i)} ELSE @ \ {PairOf(c.table, i)}]

\* Fault: an inclusion leaves the hit count alone.
RecalculatedOnce(arc, exclude) ==
  IF arc.hit THEN stat
  ELSE [hit      |-> stat.hit + IF exclude THEN 1 ELSE 0,
        excluded |-> stat.excluded + IF exclude THEN 1 ELSE -1]

\* exclude_arc_assign_and_recalc: the statistics follow the arc.
Recalculated(arc, exclude) ==
  IF arc.hit THEN stat
  ELSE [hit      |-> stat.hit + IF exclude THEN 1 ELSE -1,
        excluded |-> stat.excluded + IF exclude THEN 1 ELSE -1]

\* exclude_set_fsm_exclude: the cell of a transition in the GUI's table, which
\* shows I or E only for one that is not hit.  The arc is found by its values.
ToggleCell(f, t) ==
  /\ phase = "cdd" /\ count.edits < MaxEdits
  /\ LET arcs == cdd.table.arcs
         i == FindArc(arcs, FindState(cdd.table.fr, f), FindState(cdd.table.to, t))
     IN /\ i \in DOMAIN arcs /\ ~arcs[i].hit
        /\ cdd' = Excluded(cdd, i, ~arcs[i].excluded)
        /\ stat' = Recalculated(arcs[i], ~arcs[i].excluded)
  /\ count' = [count EXCEPT !.edits = @ + 1]
  /\ UNCHANGED <<design, phase, files, other, next, from, to, active, sampled>>

\* exclude_fsm_from_id: the exclude command inverts the bit of any arc and
\* writes the database, which is then read again.
ToggleId(i) ==
  /\ phase = "cdd" /\ count.edits < MaxEdits
  /\ i \in DOMAIN cdd.table.arcs
  /\ cdd' = Excluded(cdd, i, ~cdd.table.arcs[i].excluded)
  /\ stat' = Stats(cdd'.table)
  /\ count' = [count EXCEPT !.edits = @ + 1]
  /\ UNCHANGED <<design, phase, files, other, next, from, to, active, sampled>>

-----------------------------------------------------------------------------
(* Merge *)

StartMerge(f) ==
  /\ phase = "cdd" /\ f \in files
  /\ phase' = "merge"
  /\ other' = f /\ next' = 1
  /\ UNCHANGED <<design, cdd, files, from, to, active, stat, sampled, count>>

\* Fault: the positions of the other table are used in this one.
MergeArcByPosition ==
  /\ phase = "merge" /\ next <= Len(other.table.arcs)
  /\ LET a == other.table.arcs[next]
     IN cdd' = [cdd EXCEPT
          !.table.fr   = WithState(@, FromOf(other.table, next)),
          !.table.to   = WithState(@, ToOf(other.table, next)),
          !.table.arcs = WithArc(@, a.from, a.to, a.hit, a.excluded)]
  /\ next' = next + 1
  /\ UNCHANGED <<design, phase, files, other, from, to, active, stat, sampled, count>>

\* arc_db_merge, and arc_merge: one arc of the other table.
MergeArc ==
  /\ phase = "merge" /\ next <= Len(other.table.arcs)
  /\ cdd' = [cdd EXCEPT !.table = arc_add(@, FromOf(other.table, next), ToOf(other.table, next),
                                          other.table.arcs[next].hit,
                                          other.table.arcs[next].excluded)]
  /\ next' = next + 1
  /\ UNCHANGED <<design, phase, files, other, from, to, active, stat, sampled, count>>

EndMerge ==
  /\ phase = "merge" /\ next > Len(other.table.arcs)
  /\ phase' = "cdd"
  /\ cdd' = [cdd EXCEPT !.seen = @ \union other.seen, !.out = @ \union other.out]
  /\ stat' = Stats(cdd.table)
  /\ UNCHANGED <<design, files, other, next, from, to, active, sampled, count>>

Next ==
  \/ CreateArc
  \/ StartRun
  \/ \E s \in {"from", "to"}, v \in Values : Assign(s, v)
  \/ RunFrom
  \/ RunTo
  \/ EndRun
  \/ NextRun
  \/ \E f \in files : Open(f)
  \/ \E f, t \in Values : ToggleCell(f, t)
  \/ \E i \in DOMAIN cdd.table.arcs : ToggleId(i)
  \/ \E f \in files : StartMerge(f)
  \/ MergeArc
  \/ EndMerge

Spec == Init /\ [][Next]_vars

-----------------------------------------------------------------------------
Hit(table)    == {PairOf(table, i) : i \in {j \in DOMAIN table.arcs : table.arcs[j].hit}}
LeftOut(table) == {PairOf(table, i) : i \in {j \in DOMAIN table.arcs : table.arcs[j].excluded}}

\* Types of the variables.
TypeOK ==
  /\ design \in Designs
  /\ phase \in {"create", "sim", "cdd", "merge"}
  /\ cdd \in Cdd /\ other \in Cdd /\ files \subseteq Cdd
  /\ next \in Nat \ {0}
  /\ from \in Values /\ to \in Values /\ sampled \in Values
  /\ active \subseteq {"from", "to"}
  /\ stat \in [hit: Int, excluded: Int]
  /\ count \in [assigns: Nat, runs: Nat, edits: Nat]

\* Every transition is one arc, however often it is met again and whatever
\* order the merged databases met them in: arc_total counts arcs.
DistinctArcs ==
  \A i, j \in DOMAIN cdd.table.arcs : PairOf(cdd.table, i) = PairOf(cdd.table, j) => i = j

\* An arc is hit exactly for the transitions that were made in one of the runs
\* the database stands for: none is lost by the lists of states or by a merge,
\* and none is invented but the first one of a single variable, whose
\* from_state holds 0 before it holds a value of the variable.
HitsExact ==
  phase # "merge" =>
    /\ cdd.seen \subseteq Hit(cdd.table)
    /\ Hit(cdd.table) \ cdd.seen \subseteq {<<Zero, v>> : v \in IF design.two THEN {} ELSE Values}

\* A transition is excluded exactly if the user, or the attribute, left it out
\* in one of the databases merged and has not taken it back since.
ExclusionsExact == phase # "merge" => LeftOut(cdd.table) = cdd.out

\* When the threads wait, what the design has settled to is in the table: the
\* pair of state and next state, also when only the state changed, or the value
\* the next transition of a single variable starts from.
SettledRecorded ==
  phase = "sim" /\ active = {} =>
    IF design.two THEN from \notin Unknown /\ to \notin Unknown => <<from, to>> \in Hit(cdd.table)
                  ELSE from = to

\* The numbers the GUI shows, which are adjusted at an exclusion, are those a
\* new reading of the database would compute.
StatExact == phase = "cdd" => stat = Stats(cdd.table)

\* User guide: a transition is covered if it occurred.  The vector from_state
\* of a single variable starts as 0, which is a value like any other.
NoneInvented == phase # "merge" => Hit(cdd.table) \subseteq cdd.seen

=============================================================================
