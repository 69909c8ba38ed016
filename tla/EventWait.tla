----------------------------- MODULE EventWait -----------------------------
(***************************************************************************)
(* How a change of a signal reaches the threads that wait for it: the      *)
(* "changed" bits sim_expr_changed leaves on its way up an expression tree, *)
(* the partial re-evaluation by sim_expression that clears them, and the   *)
(* memory of the edge, list and wait operations (expr.c).                  *)
(*                                                                         *)
(* Each thread is a loop around one event statement: it waits, passes the  *)
(* event, may delay, and may assign a signal.  Other signals are assigned   *)
(* from the dumpfile, between two timesteps.  The queues are those of      *)
(* SimSched, as far as the order of the evaluations depends on them.       *)
(***************************************************************************)
EXTENDS SequencesExt, FiniteSets, Naturals

CONSTANTS
  Node, NULL,
  Left, Right,  \* [Node -> Node \cup {NULL}]: children of an expression
  Kind,         \* [Node -> NodeKind]: operation
  Signal,
  SigOf,        \* [Node -> Signal \cup {NULL}]: signal of a SIG expression
  Exps,         \* [Signal -> Seq(Node)]: the expressions of a signal (sig->exps)
  Thread,
  Root,         \* [Thread -> Node]: expression of the event statement
  Comb,         \* threads of always_comb and always_latch blocks
  Initial,      \* threads that start with their assignment, not with their event
  Delaying,     \* threads that delay between event and assignment
  Writes,       \* [Thread -> SUBSET Signal]
  Dumped        \* signals assigned from the dumpfile

(* EDGE: what PEDGE, NEDGE and AEDGE have in common; TIME: $time and the    *)
(* other system functions that db_create_expression marks; OR stands for    *)
(* the operations that compute a value and store it.                        *)
Edges == {"PEDGE", "NEDGE", "AEDGE"}
NodeKind == Edges \cup {"SIG", "TIME", "OR", "EOR", "SLIST", "WAIT"}

Roots == {Root[t] : t \in Thread}

ASSUME TreeAssumption ==
  /\ NULL \notin Node /\ NULL \notin Signal
  /\ Left \in [Node -> Node \cup {NULL}] /\ Right \in [Node -> Node \cup {NULL}]
  /\ Kind \in [Node -> NodeKind]
  /\ SigOf \in [Node -> Signal \cup {NULL}]
  /\ Exps \in [Signal -> Seq(Node)]
  /\ Root \in [Thread -> Node]
  /\ Comb \subseteq Thread /\ Initial \subseteq Thread /\ Delaying \subseteq Thread
  /\ Writes \in [Thread -> SUBSET Signal]
  /\ Dumped \subseteq Signal
  /\ \A t \in Comb : Kind[Root[t]] = "SLIST"
  /\ IsFiniteSet(Thread)

Children(n) == {Left[n], Right[n]} \ {NULL}

(* Operations that have a value, and those that tell of an event.           *)
ValueKind == {"SIG", "TIME", "OR"}
EventKind == Edges \cup {"EOR"}

(* What the parser builds (db_create_expression, db_bind_expr_tree) and     *)
(* binding adds: an expression other than that of a statement is a child of *)
(* exactly one expression, on one side; trees are finite; the operands are  *)
(* those the operations take; the list of a signal holds all its uses.      *)
ASSUME ShapeAssumption ==
  /\ \A r \in Roots : Kind[r] \in EventKind \cup {"SLIST", "WAIT"} /\ \A p \in Node : r \notin Children(p)
  /\ \A n \in Node \ Roots : \E p \in Node : n \in Children(p)
  /\ \A p, q \in Node : p # q => Children(p) \cap Children(q) = {}
  /\ \A p \in Node : Left[p] = Right[p] => Children(p) = {}
  /\ \A S \in SUBSET Node : S # {} => \E n \in S : Children(n) \cap S = {}
  /\ \A S \in SUBSET Node : S # {} => \E n \in S : \A p \in S : n \notin Children(p)
  /\ \A n \in Node : Kind[n] \in {"SIG", "TIME"} => Children(n) = {}
  /\ \A n \in Node : Kind[n] \in Edges \cup {"SLIST", "WAIT"} => Left[n] = NULL /\ Right[n] \in Node
  /\ \A n \in Node : Kind[n] \in {"OR", "EOR"} => Left[n] \in Node /\ Right[n] \in Node
  /\ \A n \in Node : Kind[n] \in Edges \cup {"OR", "WAIT"} => \A c \in Children(n) : Kind[c] \in ValueKind
  /\ \A n \in Node : Kind[n] \in {"EOR", "SLIST"} => \A c \in Children(n) : Kind[c] \in EventKind
  /\ \A n \in Node : IF Kind[n] = "SIG" THEN SigOf[n] \in Signal /\ n \in ToSet(Exps[SigOf[n]])
                                         ELSE SigOf[n] = NULL
  /\ \A sig \in Signal : \A n \in ToSet(Exps[sig]) : Kind[n] = "SIG" /\ SigOf[n] = sig

-----------------------------------------------------------------------------
(* Expression trees *)

Parent(n) == CHOOSE p \in Node : n \in {Left[p], Right[p]}

Side(n) == IF Left[Parent(n)] = n THEN "left" ELSE "right"

(* The changed bits that lead from an expression up to the root, and the   *)
(* root (tabulated: TLC evaluates a recursive function at every use).      *)
Up[n \in Node] ==
  IF n \in Roots THEN <<>> ELSE <<<<Parent(n), Side(n)>>>> \o Up[Parent(n)]

Path == [n \in Node |-> Up[n]]

Top == [n \in Node |-> IF n \in Roots THEN n ELSE Last(Path[n])[1]]

Trees == [r \in Roots |-> {n \in Node : Top[n] = r}]

Tree(r) == Trees[r]

EdgesOf == [t \in Thread |-> {n \in Tree(Root[t]) : Kind[n] \in Edges}]

(* clear_changed: the bits of an expression over a system function stay set *)
ClearChanged[n \in Node] ==
  \E c \in Children(n) : Kind[c] = "TIME" \/ ClearChanged[c]

-----------------------------------------------------------------------------
(* Designs for which the theorems hold: each thread has a statement of its   *)
(* own, no event is over a system function (whose bits stay set) ...        *)
PlainDesign ==
  /\ \A t, u \in Thread : Root[t] = Root[u] => t = u
  /\ \A n \in Node : Kind[n] # "TIME"

(* ... and any-edges are of signals, not of computed values.                *)
AnyEdgesOfSignals == \A n \in Node : Kind[n] = "AEDGE" => Kind[Right[n]] = "SIG"

-----------------------------------------------------------------------------
VARIABLES
  val,    \* values of the signals
  bits,   \* left_changed and right_changed: pairs <<expression, side>>
  evalT,  \* expressions whose eval_t is set
  old,    \* what an edge remembers (tvecs), what an OR has computed (value)
  at,     \* where a thread is in its loop
  state,  \* state of a thread
  first,  \* exec_first of a thread
  queue,  \* active queue
  zero,   \* always_comb threads that are still in the delayed queue
  toDump, \* signals the dumpfile may still change before the next timestep
  seen,   \* history: the operands when a thread last evaluated its event
  moved   \* history: the signals that have changed since

vars == <<val, bits, evalT, old, at, state, first, queue, zero, toDump, seen, moved>>

Value == {"0", "1", "x"}

TypeOK ==
  /\ val \in [Signal -> Value]
  /\ bits \subseteq Node \X {"left", "right"}
  /\ evalT \subseteq Node
  /\ old \in [Node -> Value]
  /\ at \in [Thread -> {"event", "passed", "body"}]
  /\ state \in [Thread -> {"ACTIVE", "DELAYED", "WAITING"}]
  /\ first \in [Thread -> BOOLEAN]
  /\ queue \in SetToSeqs({t \in Thread : state[t] = "ACTIVE"})
  /\ zero \in Seq(Comb)
  /\ toDump \subseteq Signal
  /\ \A t \in Thread : seen[t] \in [EdgesOf[t] -> Value]
  /\ moved \in [Thread -> SUBSET Signal]

-----------------------------------------------------------------------------
(* A signal changes *)

(* Fault: the walk stops at an expression with either of its bits set. *)
BelowSetEither(b, n) ==
  {i \in DOMAIN Path[n] : \A k \in 1..i, side \in {"left", "right"} : <<Path[n][k][1], side>> \notin b}

(* sim_expr_changed walks up to the first bit of b that is set already. *)
BelowSet(b, n) ==
  {i \in DOMAIN Path[n] : \A k \in 1..i : Path[n][k] \notin b}

ReachesRoot(b, n) == BelowSet(b, n) = DOMAIN Path[n]

(* One expression of a signal: the bits set so far, the roots reached.      *)
ExprChanged(acc, n) ==
  [bits  |-> acc.bits \cup {Path[n][i] : i \in BelowSet(acc.bits, n)},
   roots |-> acc.roots \cup {r \in {Top[n]} : ReachesRoot(acc.bits, n)}]

(* vsignal_propagate: each expression of the signal in turn.                *)
Propagated(sig) ==
  LET walked[i \in 0..Len(Exps[sig])] ==
        IF i = 0 THEN [bits |-> bits, roots |-> {}]
        ELSE ExprChanged(walked[i - 1], Exps[sig][i])
  IN  walked[Len(Exps[sig])]

(* The signals a thread waits for any change of. *)
AnyEdge ==
  [t \in Thread |-> {SigOf[Right[n]] : n \in {n \in EdgesOf[t] : Kind[n] = "AEDGE"}} \ {NULL}]

(* funit_push_threads for the statements whose root has been reached. *)
Woken(sig) == {t \in Thread : state[t] = "WAITING" /\ Root[t] \in Propagated(sig).roots}

(* A signal takes a value, and a change is propagated. *)
Assign(sig, v) ==
  IF v = val[sig] THEN UNCHANGED <<val, bits, state, queue, moved>>
  ELSE /\ val' = [val EXCEPT ![sig] = v]
       /\ bits' = Propagated(sig).bits
       /\ \E w \in SetToSeqs(Woken(sig)) : queue' = queue \o w
       /\ state' = [t \in Thread |-> IF t \in Woken(sig) THEN "ACTIVE" ELSE state[t]]
       /\ moved' = [t \in Thread |-> moved[t] \cup ({sig} \cap AnyEdge[t])]

-----------------------------------------------------------------------------
(* An event statement is evaluated *)

(* sim_expression goes down from the root where the bits are set ...        *)
Visited(r) == {n \in Tree(r) : \A i \in DOMAIN Path[n] : Path[n][i] \in bits}

(* Fault: the bits of an expression are cleared only when it fires. *)
ClearedLeft(r) == {b \in bits : b[1] \notin Visited(r) \/ b[2] = "right"}

(* ... and clears them on the way. *)
Cleared(r) == {b \in bits : b[1] \notin Visited(r) \/ ClearChanged[b[1]]}

Or(v, w) == IF "1" \in {v, w} THEN "1" ELSE IF "x" \in {v, w} THEN "x" ELSE "0"

(* What an expression is worth once the expressions in S have been evaluated *)
(* again: the value of a signal is shared, other values are stored.  (A     *)
(* condition on $time does not hold yet in the executions considered.)      *)
Worth(n, S) ==
  LET v[m \in Node] ==
        IF Kind[m] = "SIG" THEN val[SigOf[m]]
        ELSE IF m \notin S \/ Kind[m] \notin ValueKind THEN old[m]
        ELSE IF Kind[m] = "OR" THEN Or(v[Left[m]], v[Right[m]]) ELSE "0"
  IN  v[n]

Operand(n, S) == Worth(Right[n], S)

Edge(kind, o, v) ==
  CASE kind = "PEDGE" -> o # "1" /\ v = "1"
    [] kind = "NEDGE" -> o # "0" /\ v = "0"
    [] kind = "AEDGE" -> o # v

(* pedge, nedge, aedge: only for a thread that was waiting (exec_first); an *)
(* any-edge of a plain signal is not compared with anything.                *)
EdgeFires(n, v, ef) ==
  ef /\ (Edge(Kind[n], old[n], v) \/ (Kind[n] = "AEDGE" /\ Kind[Right[n]] = "SIG"))

(* The eval_t bits after the evaluation, before a list clears its children. *)
Fires(r, ef) ==
  LET S == Visited(r)
      f[n \in Node] ==
        IF n \notin S THEN n \in evalT
        ELSE \/ Kind[n] \in Edges /\ EdgeFires(n, Operand(n, S), ef)
             \/ Kind[n] = "EOR" /\ (f[Left[n]] \/ f[Right[n]])
             \/ Kind[n] = "SLIST" /\ f[Right[n]]
             \/ Kind[n] = "WAIT" /\ Operand(n, S) = "1"
  IN  {n \in Tree(r) : f[n]}

(* Fault: the left child of an EOR keeps its eval_t. *)
ConsumedRight(r, F) ==
  F \ {Right[p] : p \in {p \in F \cap Visited(r) : Kind[p] \in {"EOR", "SLIST"}}}

(* eor, slist: clear the eval_t of the children that made them true.        *)
Consumed(r, F) ==
  F \ UNION {Children(p) : p \in {p \in F \cap Visited(r) : Kind[p] \in {"EOR", "SLIST"}}}

(* Fault: an edge is remembered only when it fires. *)
RememberedFired(r, F) ==
  [n \in Node |-> IF n \notin Visited(r) THEN old[n]
                  ELSE IF Kind[n] \in Edges
                       THEN IF n \in F THEN Operand(n, Visited(r)) ELSE old[n]
                  ELSE IF Kind[n] \in {"OR", "TIME"} THEN Worth(n, Visited(r))
                  ELSE old[n]]

(* What is stored: pedge and nedge always take the new value, aedge does    *)
(* when it fires; values are those just computed.                           *)
Remembered(r, F) ==
  [n \in Node |-> IF n \notin Visited(r) THEN old[n]
                  ELSE IF Kind[n] \in {"PEDGE", "NEDGE"} \/ (Kind[n] = "AEDGE" /\ n \in F)
                       THEN Operand(n, Visited(r))
                  ELSE IF Kind[n] \in {"OR", "TIME"} THEN Worth(n, Visited(r))
                  ELSE old[n]]

-----------------------------------------------------------------------------
(* The threads *)

(* Expressions over system functions are marked when the simulator starts   *)
(* (sim_add_statics), always_comb blocks wait for time 0 to be over with    *)
(* their list forced to be true (sim_add_thread).                           *)
Init ==
  /\ val = [s \in Signal |-> "x"]
  /\ bits = UNION {ToSet(Path[n]) : n \in {n \in Node : Kind[n] = "TIME"}}
  /\ evalT = {Right[Root[t]] : t \in Comb}
  /\ old = [n \in Node |-> "x"]
  /\ at = [t \in Thread |-> IF t \in Initial THEN "body" ELSE "event"]
  /\ state = [t \in Thread |-> IF t \in Comb THEN "DELAYED" ELSE "ACTIVE"]
  /\ first = [t \in Thread |-> FALSE]
  /\ queue \in SetToSeqs(Thread \ Comb)
  /\ zero \in SetToSeqs(Comb)
  /\ toDump = {}
  /\ seen = [t \in Thread |-> [n \in EdgesOf[t] |-> "x"]]
  /\ moved = [t \in Thread |-> {}]

(* sim_simulate has called sim_thread for t. *)
Runs(t) == toDump = {} /\ queue # <<>> /\ t = Head(queue)

(* A value, computed from the signals. *)
Now(n) == Worth(n, Node)

(* The event statement: the thread goes on, or waits. *)
Eval(t) ==
  /\ Runs(t) /\ at[t] = "event"
  /\ LET r == Root[t]
         F == Fires(r, first[t])
     IN  /\ bits' = Cleared(r)
         /\ evalT' = (evalT \ Tree(r)) \cup Consumed(r, F)
         /\ old' = Remembered(r, F)
         /\ IF r \in F
            THEN /\ at' = [at EXCEPT ![t] = "passed"]
                 /\ first' = [first EXCEPT ![t] = FALSE]
                 /\ UNCHANGED <<state, queue>>
            ELSE /\ state' = [state EXCEPT ![t] = "WAITING"]
                 /\ first' = [first EXCEPT ![t] = TRUE]
                 /\ queue' = Tail(queue)
                 /\ UNCHANGED at
  /\ seen' = [seen EXCEPT ![t] = [n \in EdgesOf[t] |-> Now(Right[n])]]
  /\ moved' = [moved EXCEPT ![t] = {}]
  /\ UNCHANGED <<val, zero, toDump>>

(* Behind the event: a delay, if there is one ... *)
Pass(t) ==
  /\ Runs(t) /\ at[t] = "passed"
  /\ at' = [at EXCEPT ![t] = "body"]
  /\ IF t \in Delaying
     THEN queue' = Tail(queue) /\ state' = [state EXCEPT ![t] = "DELAYED"]
     ELSE UNCHANGED <<queue, state>>
  /\ UNCHANGED <<val, bits, evalT, old, first, zero, toDump, seen, moved>>

(* ... and the assignment, then back to the event. *)
Body(t) ==
  /\ Runs(t) /\ at[t] = "body"
  /\ at' = [at EXCEPT ![t] = "event"]
  /\ IF Writes[t] = {} THEN UNCHANGED <<val, bits, state, queue, moved>>
     ELSE \E sig \in Writes[t], v \in {"0", "1"} : Assign(sig, v)
  /\ UNCHANGED <<evalT, old, first, zero, toDump, seen>>

(* The always_comb blocks run when time 0 has nothing else left to do. *)
PopZero ==
  /\ toDump = {} /\ queue = <<>> /\ zero # <<>>
  /\ queue' = <<Head(zero)>>
  /\ zero' = Tail(zero)
  /\ state' = [state EXCEPT ![Head(zero)] = "ACTIVE"]
  /\ UNCHANGED <<val, bits, evalT, old, at, first, toDump, seen, moved>>

Quiet == toDump = {} /\ queue = <<>> /\ zero = <<>>

(* A delay ends, in this timestep or a later one. *)
DelayEnd(t) ==
  /\ Quiet /\ state[t] = "DELAYED"
  /\ queue' = <<t>>
  /\ state' = [state EXCEPT ![t] = "ACTIVE"]
  /\ UNCHANGED <<val, bits, evalT, old, at, first, zero, toDump, seen, moved>>

(* The timestep is over; the next values of the dumpfile are assigned       *)
(* (symtable_assign), each signal at most once.                             *)
TimestepOver ==
  /\ Quiet
  /\ toDump' = Dumped
  /\ UNCHANGED <<val, bits, evalT, old, at, state, first, queue, zero, seen, moved>>

Dump(sig) ==
  /\ sig \in toDump
  /\ toDump' = toDump \ {sig}
  /\ \E v \in Value : Assign(sig, v)
  /\ UNCHANGED <<evalT, old, at, first, zero, seen>>

Next ==
  \/ \E t \in Thread : Eval(t) \/ Pass(t) \/ Body(t) \/ DelayEnd(t)
  \/ PopZero \/ TimestepOver
  \/ \E sig \in Signal : Dump(sig)

Spec == Init /\ [][Next]_vars

(* One thread of C: what sim_simulate has begun it goes on with. *)
FairSpec == Spec /\ WF_vars(PopZero \/ \E t \in Thread : Eval(t) \/ Pass(t) \/ Body(t))

-----------------------------------------------------------------------------
(* Properties *)

(* "If ... an expression is found to already be have a CHANGED bit set, we  *)
(* know that the statement has already been added" (sim.c:502-504): while   *)
(* the root has a bit set, its thread does not wait, or the next change     *)
(* would stop short of waking it.                                           *)
ChangedMeansQueued ==
  \A t \in Thread : state[t] = "WAITING" => \A side \in {"left", "right"} : <<Root[t], side>> \notin bits

(* The shortcuts of the evaluation lose nothing: a stored value that the    *)
(* signals have overtaken is on a path of set bits from the root, so the    *)
(* next evaluation comes to it.                                             *)
StaleIsMarked ==
  \A n \in Node : Kind[n] = "OR" /\ Now(n) # old[n] => n \in Visited(Top[n])

(* The changed bits are sound between evaluations, both for the change that *)
(* will come up and for the evaluation that will come down.                 *)
BitsSound == ChangedMeansQueued /\ StaleIsMarked

(* No change is slept through: while a thread waits, the operands of its    *)
(* edges are what they were when it began to wait, the signals of its       *)
(* any-edges have not moved, and the condition of its wait does not hold.   *)
NoMissedChange ==
  \A t \in Thread : state[t] = "WAITING" =>
    /\ \A n \in EdgesOf[t] : Now(Right[n]) = seen[t][n]
    /\ moved[t] = {}
    /\ Kind[Root[t]] = "WAIT" => Now(Right[Root[t]]) # "1"

(* Has the edge happened since the thread last evaluated its event? *)
EdgeSince(t, n) ==
  IF Kind[n] = "AEDGE" /\ Kind[Right[n]] = "SIG" THEN SigOf[Right[n]] \in moved[t]
  ELSE Edge(Kind[n], seen[t][n], Now(Right[n]))

EventSince(t) == \E n \in EdgesOf[t] : EdgeSince(t, n)

(* What a partial evaluation with shared memories decides is what the       *)
(* language says: a thread that was waiting passes its event if and only if *)
(* one of the edges in it has happened since it began to wait; a thread     *)
(* that arrives passes only a wait whose condition holds, or the forced     *)
(* list of an always_comb block.                                            *)
PassesOnEvent ==
  [][\A t \in Thread : Runs(t) /\ at[t] = "event" /\ Kind[Root[t]] # "WAIT" =>
       IF first[t] THEN at'[t] = "passed" <=> EventSince(t)
       ELSE at'[t] = "passed" => t \in Comb /\ Right[Root[t]] \in evalT]_vars

(* An always_comb block is "executed at time 0 after all initial and always *)
(* blocks have completed" (sim.c:700-701): once the queues are empty it has  *)
(* run, and what it computes has a value.                                   *)
CombRunsAtZero ==
  Quiet => \A t \in Comb : \A sig \in Writes[t] : val[sig] # "x"

(* An event is used up by the thread that waited for it: when no thread is  *)
(* left to run, no expression below a root is still marked true.            *)
NoStaleEvent == Quiet => evalT \subseteq Roots

=============================================================================
