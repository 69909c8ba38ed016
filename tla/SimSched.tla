------------------------------ MODULE SimSched ------------------------------
(***************************************************************************)
(* The thread scheduler of the scoring simulator (sim.c), driven by        *)
(* db_do_timestep (db.c) and calling the operations of the statements that *)
(* schedule, fork, wait or kill (expr.c).                                  *)
(*                                                                         *)
(* A thread runs a block of statements of the design.  It is in one of two *)
(* queues (active, delayed), or waits for a change of a signal, or is      *)
(* blocked behind the threads it called or forked.  Thread structures are  *)
(* never freed: the pool keeps the live ones in front and the free ones    *)
(* behind, and all_next (here allNext) points at the first free one.       *)
(*                                                                         *)
(* The design being scored is a parameter: a graph of statements, of which *)
(* only what the scheduler sees is kept.  Values are abstracted away: a    *)
(* statement may take either branch, an assignment may or may not change   *)
(* its signal, an event may or may not be the edge that is waited for.     *)
(***************************************************************************)
EXTENDS SimTime, SequencesExt, FiniteSets

CONSTANTS
  Thread,       \* thread structures that may be allocated
  NULL,
  Funit,        \* functional units: modules, named blocks, tasks, functions
  ChildFunits,  \* [Funit -> SUBSET Funit]: the units nested in a unit
  Stmt,         \* statements of the design
  Op,           \* [Stmt -> OpKind]: operation of the root expression
  NextTrue,     \* [Stmt -> Stmt \cup {NULL}]
  NextFalse,    \* [Stmt -> Stmt \cup {NULL}]
  Cont,         \* statements that are continuous assignments
  FinalStmt,    \* head statements of final blocks
  FunitOf,      \* [Stmt -> Funit]: unit a statement belongs to
  Target,       \* [Stmt -> Funit]: unit a call, fork or disable names
  First,        \* [Funit -> Stmt]: first_stmt of a unit
  Func,         \* [Stmt -> Funit \cup {NULL}]: function called in the expression
  Delay,        \* [Stmt -> Nat]: value of a delay
  Signal,
  Writes,       \* [Stmt -> SUBSET Signal]: signals a statement assigns
  Readers,      \* [Signal -> SUBSET Stmt]: statements whose expression reads it
  PostSignals,  \* signals assigned from the dumpfile or by non-blocking assignment
  Heads,        \* Seq(Stmt): blocks started when the database is read
  DebugMode,    \* TRUE when built with the command-line debugger
  MaxTime       \* bound on the times found in the dumpfile

(* Operations that switch context (exp_op_info, EXPR_IS_CONTEXT_SWITCH).     *)
(* EVENT: PEDGE, NEDGE, AEDGE, EOR, SLIST.  COMB: ALWAYS_COMB, ALWAYS_LATCH. *)
(* DELAY: also DLY_ASSIGN whose right side is delayed.  CALL: TASK_CALL, and *)
(* NB_CALL outside of functions.                                             *)
ContextSwitch == {"EVENT", "COMB", "WAIT", "DELAY", "CALL"}

(* VALUE: REPEAT and the op-and-assign operators (ADD_A ...), which return  *)
(* whether their value changed.  CASE: also CASEX, CASEZ and DEFAULT, which *)
(* do the same.  ASSIGN: the operations that return TRUE.                   *)
OpKind == ContextSwitch \cup
          {"ASSIGN", "CASE", "VALUE", "FORK", "JOIN", "DISABLE", "FINISH", "STOP"}

ThreadState == {"NONE", "ACTIVE", "DELAYED", "WAITING"}

ASSUME DesignAssumption ==
  /\ NULL \notin Thread \cup Stmt \cup Funit
  /\ Funit # {} /\ ChildFunits \in [Funit -> SUBSET Funit]
  /\ Op \in [Stmt -> OpKind]
  /\ NextTrue \in [Stmt -> Stmt \cup {NULL}]
  /\ NextFalse \in [Stmt -> Stmt \cup {NULL}]
  /\ \A s \in Stmt : Op[s] \in ContextSwitch => NextFalse[s] = NULL
  /\ \A s \in Cont : NextTrue[s] = s /\ NextFalse[s] = s /\ Writes[s] = {}
  /\ Cont \subseteq Stmt /\ FinalStmt \subseteq Stmt
  /\ FunitOf \in [Stmt -> Funit] /\ Target \in [Stmt -> Funit]
  /\ First \in [Funit -> Stmt]
  /\ Func \in [Stmt -> Funit \cup {NULL}]
  /\ Delay \in [Stmt -> Nat]
  /\ Writes \in [Stmt -> SUBSET Signal]
  /\ Readers \in [Signal -> SUBSET Stmt]
  /\ PostSignals \subseteq Signal
  /\ Heads \in Seq(Stmt)
  /\ DebugMode \in BOOLEAN
  /\ MaxTime \in Nat

(* The units that are called as functions. *)
Functions == {Func[s] : s \in Stmt} \ {NULL}

(* What the scheduler needs of the blocks besides.  The parser makes one     *)
(* FORK of each statement of a fork and puts the JOIN behind the last one    *)
(* (db_parallelize_statement, fork_statement of parser.y; the branches of    *)
(* an if, loop or case standing directly in a fork are connected to the FORK *)
(* itself: such designs are left out).  Continuous assignments are DASSIGNs, *)
(* whose delay is ignored.  Functions call, fork, wait and delay nothing.    *)
(* No block ends with a statement that may return FALSE, which sim_thread    *)
(* takes for a wait (see MCOpAssign).                                        *)
(*                                                                           *)
(* Last, a delay or a call goes on after a function in its expression has    *)
(* returned: the caller is put into the delayed queue, or has a child, when  *)
(* sim_thread kills it if that function ended the simulation or disabled it  *)
(* (see MCFinish).  Functions that do so are called from other statements.   *)
(* Calm says so of the functions called there, and of all they call.         *)
Calm(Q) ==
  /\ \A s \in Stmt : Op[s] \in {"DELAY", "CALL"} /\ Func[s] # NULL => FunitOf[First[Func[s]]] \in Q
  /\ \A s \in Stmt : FunitOf[s] \in Q =>
       /\ Op[s] \notin {"DISABLE", "FINISH", "STOP"}
       /\ Func[s] # NULL => FunitOf[First[Func[s]]] \in Q
       /\ \A n \in {NextTrue[s], NextFalse[s]} : n # NULL => FunitOf[n] \in Q

StructuredDesign ==
  /\ \A s \in Stmt : Op[s] = "FORK" =>
       \A n \in {NextTrue[s], NextFalse[s]} : n # NULL /\ Op[n] \in {"FORK", "JOIN"}
  /\ \A s \in Stmt : Op[s] = "JOIN" => NextTrue[s] = NULL /\ NextFalse[s] = NULL
  /\ \A s \in Stmt : Op[s] \in {"FORK", "JOIN"} => Func[s] = NULL
  /\ \A s \in Cont : Op[s] = "ASSIGN"
  /\ \A f \in Functions : FunitOf[First[f]] \in Functions
  /\ \A s \in Stmt : FunitOf[s] \in Functions =>
       /\ Op[s] \in {"ASSIGN", "CASE", "VALUE", "DISABLE", "FINISH", "STOP"}
       /\ s \notin Cont
       /\ \A n \in {NextTrue[s], NextFalse[s]} : n # NULL => FunitOf[n] \in Functions
  /\ \A s \in Stmt : Op[s] \in {"VALUE", "STOP"} => NextTrue[s] # NULL /\ NextFalse[s] # NULL
  /\ \E Q \in SUBSET Funit : Calm(Q)

(* What the order of times needs besides.  TIME_CMP_GT, by which the delayed *)
(* queue is sorted, is only an order of times with the same high word (see   *)
(* MCWord): times stay below one Word.  A continuous assignment is no part   *)
(* of a block and runs at the time of its last change, not of this one:      *)
(* functions it calls assign nothing outside of themselves.                  *)
WritesNothing(Q) ==
  /\ \A s \in Cont : Func[s] # NULL => FunitOf[First[Func[s]]] \in Q
  /\ \A s \in Stmt : FunitOf[s] \in Q =>
       /\ Writes[s] = {}
       /\ Func[s] # NULL => FunitOf[First[Func[s]]] \in Q
       /\ \A n \in {NextTrue[s], NextFalse[s]} : n # NULL => FunitOf[n] \in Q

TimelyDesign ==
  /\ Word > 1 /\ MaxTime < Word
  /\ \A s \in Stmt : Op[s] = "DELAY" => MaxTime + Delay[s] < Word
  /\ \A s \in Stmt \ Cont :
       /\ NextTrue[s] \notin Cont /\ NextFalse[s] \notin Cont
       /\ Op[s] \in {"CALL", "FORK"} => First[Target[s]] \notin Cont
  /\ \E Q \in SUBSET Funit : WritesNothing(Q)

VARIABLES
  pool,      \* all_head .. all_tail
  allNext,   \* all_next: first free structure of the pool, or NULL
  active,    \* active_head .. active_tail
  delayed,   \* delayed_head .. delayed_tail
  thr,       \* the thread structures
  frames,    \* calls of sim_thread in progress, the innermost last
  toAdd,     \* blocks the database reader has still to start
  simulate,  \* FALSE once $finish or $stop has been run
  now,       \* time passed to sim_simulate
  evalT,     \* always_comb blocks whose sensitivity list is forced to be true
  phase      \* where db_do_timestep and its callers are

vars == <<pool, allNext, active, delayed, thr, frames, toAdd, simulate, now, evalT, phase>>

-----------------------------------------------------------------------------
(* struct thread_s, without the links of the lists it is in. *)
ThreadRec == [funit : Funit, parent : Thread \cup {NULL}, curr : Stmt \cup {NULL},
              state : ThreadState, kill : BOOLEAN, execFirst : BOOLEAN,
              children : Int, time : SimTime]

(* The local variables of sim_thread: the thread, stmt and expr_changed.   *)
(* "called" is TRUE once the function in the expression of stmt has run.   *)
FrameRec == [thr : Thread, stmt : Stmt \cup {NULL}, chg : BOOLEAN, called : BOOLEAN]

Phase == {"read", "idle", "sim", "post", "done"}

TypeOK ==
  /\ pool \in Seq(Thread)
  /\ allNext \in Thread \cup {NULL}
  /\ active \in Seq(Thread)
  /\ delayed \in Seq(Thread)
  /\ thr \in [Thread -> ThreadRec]
  /\ frames \in Seq(FrameRec)
  /\ toAdd \in Seq(Stmt)
  /\ simulate \in BOOLEAN
  /\ now \in SimTime
  /\ evalT \subseteq Stmt
  /\ phase \in Phase

(* The structures in use: everything in front of allNext. *)
IndexIn(q, t) == SelectInSeq(q, LAMBDA u : u = t)

Live == IF allNext = NULL THEN ToSet(pool)
                          ELSE ToSet(SubSeq(pool, 1, IndexIn(pool, allNext) - 1))

Top == frames[Len(frames)]

(* The statement the innermost call of sim_thread is about to evaluate.     *)
(* kill and simulate are looked at before: once a function in the expression *)
(* has returned, what is left of the statement is done, even if the function *)
(* ended the simulation or disabled its caller.                              *)
Executing(ops) ==
  /\ frames # <<>>
  /\ Top.stmt # NULL
  /\ Top.called \/ (~thr[Top.thr].kill /\ simulate)
  /\ Op[Top.stmt] \in ops

-----------------------------------------------------------------------------
(* Threads and queues *)

(* sim_create_thread: the first free structure, or a new one at the end    *)
(* (which one does not matter; the bound is the number of threads).        *)
Alloc(t) ==
  IF allNext = NULL
  THEN /\ Thread \ ToSet(pool) # {}
       /\ t = CHOOSE u \in Thread \ ToSet(pool) : TRUE
       /\ pool' = Append(pool, t)
       /\ UNCHANGED allNext
  ELSE /\ t = allNext
       /\ allNext' = LET i == IndexIn(pool, t)
                     IN  IF i < Len(pool) THEN pool[i + 1] ELSE NULL
       /\ UNCHANGED pool

(* A thread as sim_create_thread and sim_add_thread leave it. *)
NewThread(parent, s, state, time) ==
  [funit |-> FunitOf[s], parent |-> parent, curr |-> s, state |-> state,
   kill |-> FALSE, execFirst |-> FALSE, children |-> 0, time |-> time]

(* Fault: the new thread goes to the tail of the active queue. *)
AddChildAtTail(t, p, s, T) ==
  /\ Alloc(t)
  /\ thr' = [T EXCEPT ![p].children = @ + 1,
                      ![t] = NewThread(p, s, "ACTIVE", T[p].time)]
  /\ active' = Append(active, t)

(* sim_add_thread with a parent: T is the table of threads so far.  The new *)
(* thread takes the time of the parent and stands right behind it.          *)
AddChild(t, p, s, T) ==
  /\ Alloc(t)
  /\ thr' = [T EXCEPT ![p].children = @ + 1,
                      ![t] = NewThread(p, s, "ACTIVE", T[p].time)]
  /\ active' = InsertAt(active, IndexIn(active, p) + 1, t)

(* Fault: the delayed queue is first in, first out. *)
InsertPosTail(q, tm) == Len(q)

(* Where sim_thread_insert_into_delay_queue puts a thread of time tm: it   *)
(* walks back from the tail over the threads that are due later.           *)
InsertPos(q, tm) == SelectLastInSeq(q, LAMBDA u : ~TimeCmpGT(thr[u].time, tm))

Insert(q, t, tm) == InsertAt(q, InsertPos(q, tm) + 1, t)

(* The threads a change of the signals in S wakes: funit_push_threads looks *)
(* for threads that wait at a statement reading them.                       *)
Woken(S) == {u \in Live : /\ thr[u].state = "WAITING"
                          /\ \E sig \in S : thr[u].curr \in Readers[sig]}

(* Fault: the state of a pushed thread is not updated. *)
PushedStale(T, q, tm) ==
  [u \in Thread |-> IF u \in ToSet(q) THEN [T[u] EXCEPT !.time = tm] ELSE T[u]]

(* sim_thread_push for each thread of q; only events set the time. *)
Pushed(T, q, tm) ==
  [u \in Thread |->
     IF u \notin ToSet(q) THEN T[u]
     ELSE [T[u] EXCEPT !.state = "ACTIVE",
                       !.time = IF Op[T[u].curr] \in {"EVENT", "COMB", "WAIT"}
                                THEN tm ELSE @]]

(* sim_thread_pop_head: what becomes of the thread at the head. *)
Switched(r) ==
  IF Op[r.curr] \in {"FORK", "JOIN", "CALL"}
  THEN [r EXCEPT !.curr = NextTrue[r.curr], !.state = "NONE"]
  ELSE [r EXCEPT !.state = "WAITING", !.execFirst = TRUE]

(* Fault: the structure freed last is taken for the only free one. *)
ParkLast(t) ==
  /\ pool' = Append(RemoveAt(pool, IndexIn(pool, t)), t)
  /\ allNext' = t

(* sim_kill_thread: the end of the pool is where free structures go. *)
Park(t) ==
  /\ pool' = Append(RemoveAt(pool, IndexIn(pool, t)), t)
  /\ allNext' = IF allNext = NULL THEN t ELSE allNext

(* Fault: the parent comes back after any child.                            *)
LastChildAny(t) == thr[t].parent # NULL

LastChild(t) == thr[t].parent # NULL /\ thr[thr[t].parent].children = 1

(* The parent of the last child takes its place; else the head is dropped. *)
ActiveAfterKill(t) ==
  IF LastChild(t)
  THEN <<thr[t].parent>> \o SubSeq(active, IndexIn(active, t) + 1, Len(active))
  ELSE Tail(active)

(* Fault: only the last child is counted down.                              *)
ParentUncounted(t) ==
  LET r == thr[thr[t].parent]
  IN  IF LastChild(t)
      THEN [r EXCEPT !.children = @ - 1, !.time = thr[t].time, !.state = "ACTIVE"]
      ELSE r

ParentAfterKill(t) ==
  LET r == thr[thr[t].parent]
  IN  IF LastChild(t)
      THEN [r EXCEPT !.children = @ - 1, !.time = thr[t].time, !.state = "ACTIVE"]
      ELSE [r EXCEPT !.children = @ - 1]

(* Where the code would follow a null pointer, the step is not possible and *)
(* TLC reports a deadlock.                                                  *)
KillThread(t) ==
  /\ LastChild(t) \/ active # <<>>
  /\ active' = ActiveAfterKill(t)
  /\ thr' = IF thr[t].parent = NULL THEN thr
            ELSE [thr EXCEPT ![thr[t].parent] = ParentAfterKill(t)]
  /\ Park(t)

(* sim_kill_thread_with_funit: marks every structure of the pool. *)
Disabled(T, f) ==
  [u \in Thread |->
     IF u \in ToSet(pool) /\ T[u].funit \in {f} \cup ChildFunits[f]
     THEN [T[u] EXCEPT !.kill = TRUE] ELSE T[u]]

-----------------------------------------------------------------------------
(* Starting the blocks and the passes of the simulator *)

Init ==
  /\ pool = <<>> /\ allNext = NULL
  /\ active = <<>> /\ delayed = <<>>
  /\ thr = [t \in Thread |-> [funit |-> CHOOSE f \in Funit : TRUE, parent |-> NULL,
                              curr |-> NULL, state |-> "NONE", kill |-> FALSE,
                              execFirst |-> FALSE, children |-> 0,
                              time |-> TimeOf(0, FALSE)]]
  /\ frames = <<>>
  /\ toAdd = Heads
  /\ simulate = TRUE
  /\ now = TimeOf(0, FALSE)
  /\ evalT = {}
  /\ phase = "read"

(* statement_db_read starts a block: sim_add_thread without a parent.      *)
(* always_comb and always_latch blocks are delayed to time 0, behind the   *)
(* initial and always blocks, final blocks to the end of time.             *)
StartDelayed(t, s, tm) ==
  /\ delayed' = Insert(delayed, t, tm)
  /\ thr' = [thr EXCEPT ![t] = NewThread(NULL, s, "DELAYED", tm)]
  /\ UNCHANGED active

StartActive(t, s) ==
  /\ active' = Append(active, t)
  /\ thr' = [thr EXCEPT ![t] = NewThread(NULL, s, "ACTIVE", TimeOf(0, FALSE))]
  /\ UNCHANGED delayed

StartBlock ==
  /\ phase = "read" /\ toAdd # <<>>
  /\ \E t \in Thread : LET s == Head(toAdd) IN
       /\ Alloc(t)
       /\ evalT' = IF Op[s] = "COMB" THEN evalT \cup {s} ELSE evalT
       /\ IF Op[s] = "COMB" THEN StartDelayed(t, s, TimeOf(0, FALSE))
          ELSE IF s \in FinalStmt THEN StartDelayed(t, s, FinalTime)
          ELSE StartActive(t, s)
  /\ toAdd' = Tail(toAdd)
  /\ UNCHANGED <<frames, simulate, now, phase>>

EndRead ==
  /\ phase = "read" /\ toAdd = <<>>
  /\ phase' = "idle"
  /\ UNCHANGED <<pool, allNext, active, delayed, thr, frames, toAdd, simulate, now, evalT>>

(* db_do_timestep for a time mark of the dumpfile.  The readers of LXT and   *)
(* FST dumps go on after $finish (they ignore what db_do_timestep returns);  *)
(* the VCD reader and the VPI stop.                                          *)
Timestep(n) ==
  /\ phase = "idle"
  /\ n >= Full(now)
  /\ now' = TimeOf(n, FALSE)
  /\ phase' = "sim"
  /\ UNCHANGED <<pool, allNext, active, delayed, thr, frames, toAdd, simulate, evalT>>

(* parse_and_score_dumpfile: db_do_timestep( 0, TRUE ) once the file is read *)
FinalTimestep ==
  /\ phase = "idle"
  /\ now' = TimeOf(0, TRUE)
  /\ phase' = "sim"
  /\ UNCHANGED <<pool, allNext, active, delayed, thr, frames, toAdd, simulate, evalT>>

(* sim_simulate is between two calls of sim_thread. *)
Between == phase = "sim" /\ frames = <<>>

Due == delayed # <<>> /\ TimeCmpLE(thr[Head(delayed)].time, now)

(* Fault: the thread keeps its state DELAYED. *)
PopDelayedStale ==
  /\ Between /\ active = <<>> /\ Due
  /\ active' = <<Head(delayed)>>
  /\ delayed' = Tail(delayed)
  /\ UNCHANGED <<pool, allNext, thr, frames, toAdd, simulate, now, phase, evalT>>

(* The second loop of sim_simulate: one due thread becomes the queue. *)
PopDelayed ==
  /\ Between /\ active = <<>> /\ Due
  /\ active' = <<Head(delayed)>>
  /\ delayed' = Tail(delayed)
  /\ thr' = [thr EXCEPT ![Head(delayed)].state = "ACTIVE"]
  /\ UNCHANGED <<pool, allNext, frames, toAdd, simulate, now, phase, evalT>>

Resting == IF now.final THEN "done" ELSE "idle"

(* Fault: the last pass is repeated. *)
EndPassAgain ==
  /\ Between /\ active = <<>> /\ ~Due
  /\ IF now.final /\ simulate
     THEN now' = FinalTime /\ UNCHANGED phase
     ELSE phase' = (IF simulate THEN "post" ELSE Resting) /\ UNCHANGED now
  /\ UNCHANGED <<pool, allNext, active, delayed, thr, frames, toAdd, simulate, evalT>>

(* sim_simulate returns.  The final timestep makes a second pass at the end *)
(* of time; a simulation that goes on assigns the stored values.            *)
EndPass ==
  /\ Between /\ active = <<>> /\ ~Due
  /\ IF now.final /\ simulate /\ now # FinalTime
     THEN now' = FinalTime /\ UNCHANGED phase
     ELSE phase' = (IF simulate THEN "post" ELSE Resting) /\ UNCHANGED now
  /\ UNCHANGED <<pool, allNext, active, delayed, thr, frames, toAdd, simulate, evalT>>

(* symtable_assign and sim_perform_nba at the end of the timestep. *)
PostAssign ==
  /\ phase = "post"
  /\ \E S \in SUBSET PostSignals : \E q \in SetToSeqs(Woken(S)) :
       /\ active' = active \o q
       /\ thr' = Pushed(thr, q, now)
  /\ phase' = Resting
  /\ UNCHANGED <<pool, allNext, delayed, frames, toAdd, simulate, now, evalT>>

Terminated == phase = "done" /\ UNCHANGED vars

-----------------------------------------------------------------------------
(* sim_thread *)

BeginThread ==
  /\ Between /\ active # <<>>
  /\ frames' = <<[thr |-> Head(active), stmt |-> thr[Head(active)].curr,
                  chg |-> FALSE, called |-> FALSE]>>
  /\ UNCHANGED <<pool, allNext, active, delayed, thr, toAdd, simulate, now, phase, evalT>>

(* What the loop does after each statement, in the table T of threads. *)
Executed(T) ==
  [T EXCEPT ![Top.thr].curr = Top.stmt, ![Top.thr].execFirst = FALSE]

Advance(chg, branch) ==
  frames' = [frames EXCEPT ![Len(frames)] =
    [@ EXCEPT !.chg = chg, !.called = FALSE,
              !.stmt = IF Top.stmt \in Cont THEN NULL
                       ELSE IF branch THEN NextTrue[Top.stmt] ELSE NextFalse[Top.stmt]]]

(* The signals the statement assigns that do change wake their readers.    *)
Assign(T) ==
  \E S \in SUBSET Writes[Top.stmt] : \E q \in SetToSeqs(Woken(S)) :
    /\ active' = active \o q
    /\ thr' = Pushed(T, q, thr[Top.thr].time)

(* A function in the expression runs at once, in a call of sim_thread from *)
(* within the evaluation of the statement.                                 *)
CallFunction ==
  /\ Executing(OpKind) /\ Func[Top.stmt] # NULL /\ ~Top.called
  /\ \E t \in Thread : LET s == First[Func[Top.stmt]] IN
       /\ AddChild(t, Top.thr, s, thr)
       /\ frames' = Append([frames EXCEPT ![Len(frames)].called = TRUE],
                           [thr |-> t, stmt |-> s, chg |-> FALSE, called |-> FALSE])
  /\ UNCHANGED <<delayed, toAdd, simulate, now, phase, evalT>>

Evaluating(ops) ==
  Executing(ops) /\ (Func[Top.stmt] = NULL \/ Top.called)

ExecAssign ==
  /\ Evaluating({"ASSIGN", "CASE", "VALUE"})
  /\ Assign(Executed(thr))
  /\ \E chg, branch \in BOOLEAN :
       /\ Op[Top.stmt] = "ASSIGN" => chg
       /\ Advance(chg, branch)
  /\ UNCHANGED <<pool, allNext, delayed, toAdd, simulate, now, phase, evalT>>

(* An edge only counts for a thread that was waiting for it (exec_first); a *)
(* level may be there on arrival, and the list of an always_comb may still  *)
(* be forced to true when its block starts.                                 *)
MayFire(s) == thr[Top.thr].execFirst \/ Op[s] = "WAIT" \/ s \in evalT

ExecEvent ==
  /\ Evaluating({"EVENT", "WAIT", "COMB"})
  /\ \E fires \in {MayFire(Top.stmt), FALSE} : Advance(fires, fires)
  /\ thr' = Executed(thr)
  /\ evalT' = evalT \ {Top.stmt}
  /\ UNCHANGED <<pool, allNext, active, delayed, toAdd, simulate, now, phase>>

(* expression_op_func__delay, when the thread comes back from the queue.   *)
DelayOver == TimeCmpLE(thr[Top.thr].time, now) \/ now.final

ExecDelayEnd ==
  /\ Evaluating({"DELAY"}) /\ thr[Top.thr].execFirst
  /\ IF DelayOver THEN Assign(Executed(thr))
                  ELSE thr' = Executed(thr) /\ UNCHANGED active
  /\ Advance(DelayOver, DelayOver)
  /\ UNCHANGED <<pool, allNext, delayed, toAdd, simulate, now, phase, evalT>>

(* ... and when it reaches the delay: it moves to the delayed queue, except *)
(* in the final timestep.                                                   *)
WakeTime == TimeInc(TimeOf(Delay[Top.stmt], FALSE), thr[Top.thr].time)

ExecDelayStart ==
  /\ Evaluating({"DELAY"}) /\ ~thr[Top.thr].execFirst
  /\ IF now.final
     THEN thr' = Executed(thr) /\ UNCHANGED <<active, delayed>>
     ELSE /\ active # <<>>
          /\ active' = Tail(active)
          /\ delayed' = Insert(delayed, Top.thr, WakeTime)
          /\ thr' = Executed([thr EXCEPT ![Top.thr].state = "DELAYED",
                                         ![Top.thr].time = WakeTime])
  /\ Advance(FALSE, FALSE)
  /\ UNCHANGED <<pool, allNext, toAdd, simulate, now, phase, evalT>>

(* A task or named block: the caller will be blocked until it is done. *)
ExecCall ==
  /\ Evaluating({"CALL"})
  /\ \E t \in Thread : AddChild(t, Top.thr, First[Target[Top.stmt]], Executed(thr))
  /\ Advance(FALSE, FALSE)
  /\ UNCHANGED <<delayed, toAdd, simulate, now, phase, evalT>>

ExecFork ==
  /\ Evaluating({"FORK"})
  /\ \E t \in Thread : AddChild(t, Top.thr, First[Target[Top.stmt]], Executed(thr))
  /\ \E branch \in BOOLEAN : Advance(TRUE, branch)
  /\ UNCHANGED <<delayed, toAdd, simulate, now, phase, evalT>>

ExecJoin ==
  /\ Evaluating({"JOIN"})
  /\ thr' = Executed(thr)
  /\ \E branch \in BOOLEAN : Advance(thr[Top.thr].children = 0, branch)
  /\ UNCHANGED <<pool, allNext, active, delayed, toAdd, simulate, now, phase, evalT>>

ExecDisable ==
  /\ Evaluating({"DISABLE"})
  /\ thr' = Executed(Disabled(thr, Target[Top.stmt]))
  /\ \E branch \in BOOLEAN : Advance(TRUE, branch)
  /\ UNCHANGED <<pool, allNext, active, delayed, toAdd, simulate, now, phase, evalT>>

(* sim_finish, sim_stop; the debugger build only breaks at $stop. *)
ExecFinish ==
  /\ Evaluating({"FINISH", "STOP"})
  /\ simulate' = (simulate /\ Op[Top.stmt] = "STOP" /\ DebugMode)
  /\ thr' = Executed(thr)
  /\ Advance(FALSE, FALSE)
  /\ UNCHANGED <<pool, allNext, active, delayed, toAdd, now, phase, evalT>>

(* The loop ends: at the end of the block, at a wait, or when stopped. *)
LoopEnds ==
  /\ frames # <<>> /\ ~Top.called
  /\ Top.stmt = NULL \/ thr[Top.thr].kill \/ ~simulate

(* Fault: without the special case of the case statements. *)
BlockEndedNoCase(f) ==
  LET s == thr[f.thr].curr IN
  s # NULL => f.chg /\ \/ NextTrue[s] = NULL /\ NextFalse[s] = NULL
                       \/ Op[s] \notin ContextSwitch /\ s \notin Cont

(* The condition under which sim_thread kills the thread. *)
BlockEnded(f) ==
  LET s == thr[f.thr].curr IN
  s # NULL =>
    \/ f.chg /\ \/ NextTrue[s] = NULL /\ NextFalse[s] = NULL
                \/ Op[s] \notin ContextSwitch /\ s \notin Cont
    \/ ~f.chg /\ f.stmt = NULL /\ Op[s] = "CASE"

Killed(f) == BlockEnded(f) \/ thr[f.thr].kill \/ ~simulate

EndThread ==
  /\ LoopEnds /\ Killed(Top)
  /\ KillThread(Top.thr)
  /\ frames' = Front(frames)
  /\ UNCHANGED <<delayed, toAdd, simulate, now, phase, evalT>>

(* A context switch pops the head of the queue, whichever thread that is; a *)
(* delay has done so already.                                               *)
SwitchThread ==
  /\ LoopEnds /\ ~Killed(Top)
  /\ IF Op[thr[Top.thr].curr] # "DELAY" \/ now.final
     THEN /\ active # <<>> /\ thr[Head(active)].curr # NULL
          /\ active' = Tail(active)
          /\ thr' = [thr EXCEPT ![Head(active)] = Switched(@)]
     ELSE /\ thr' = [thr EXCEPT ![Top.thr].execFirst = TRUE]
          /\ UNCHANGED active
  /\ frames' = Front(frames)
  /\ UNCHANGED <<pool, allNext, delayed, toAdd, simulate, now, phase, evalT>>

SimThread ==
  \/ BeginThread \/ CallFunction
  \/ ExecAssign \/ ExecEvent \/ ExecDelayStart \/ ExecDelayEnd
  \/ ExecCall \/ ExecFork \/ ExecJoin \/ ExecDisable \/ ExecFinish
  \/ EndThread \/ SwitchThread

Simulate == SimThread \/ PopDelayed \/ EndPass

Next ==
  \/ StartBlock \/ EndRead
  \/ \E n \in 0..MaxTime : Timestep(n)
  \/ FinalTimestep
  \/ Simulate \/ PostAssign \/ Terminated

Spec == Init /\ [][Next]_vars

(* The simulator is one thread of C: once db_do_timestep has been called it *)
(* keeps running.  Nothing obliges the dumpfile to go on.                   *)
FairSpec == Spec /\ WF_vars(Simulate \/ PostAssign)

-----------------------------------------------------------------------------
(* Properties *)

Running == {frames[i].thr : i \in DOMAIN frames}

Distinct(q) == \A i, j \in DOMAIN q : q[i] = q[j] => i = j

(* The state bits of a thread say which queue it is in, no thread is queued *)
(* twice, and no freed structure is still queued: sim.c moves threads       *)
(* between the lists by hand in seven places, and the links are shared.     *)
(* Only a thread that waits for its function to return may have lost its    *)
(* place in the active queue (sim_kill_thread makes the parent of the       *)
(* thread that ends the head); it has it back when the call returns.        *)
Callers == {frames[i].thr : i \in 1..(Len(frames) - 1)}

QueuesMatchStates ==
  /\ {t \in Live : thr[t].state = "ACTIVE"} = ToSet(active) \cup Callers
  /\ {t \in Live : thr[t].state = "DELAYED"} = ToSet(delayed)
  /\ Distinct(active) /\ Distinct(delayed)

(* The pool holds no structure twice, and all_next points into it. *)
PoolOnce ==
  /\ Distinct(pool)
  /\ allNext # NULL => allNext \in ToSet(pool)

(* A structure is free exactly when no thread can reach it: besides, a live *)
(* thread's parent is live, and a running thread is live (sim_kill_thread   *)
(* re-uses structures that children point at).                              *)
PoolSound ==
  /\ PoolOnce
  /\ Running \subseteq Live
  /\ \A t \in Live : thr[t].parent # NULL => thr[t].parent \in Live

(* active_children counts the live threads that name this one as parent, so *)
(* the parent is put back when the last of them dies and not before.        *)
ChildCount ==
  \A p \in Live : thr[p].children = Cardinality({t \in Live : thr[t].parent = p})

(* No thread is forgotten: one that is blocked (state NONE) still has      *)
(* children that will put it back, and one with children is blocked or is  *)
(* at this moment running.                                                 *)
BlockedHaveChildren ==
  \A t \in Live : /\ thr[t].state = "NONE" => thr[t].children > 0
                  /\ thr[t].children > 0 => thr[t].state = "NONE" \/ t \in Running

(* Callers and children agree: the caller comes back, once, with the last   *)
(* of its children, however each of them ends.                              *)
ChildrenSound == ChildCount /\ BlockedHaveChildren

(* sim_thread and its callees pop active_head and mean the thread they run: *)
(* in front of it are only threads that called it as a function, and        *)
(* outside of functions it is the head, unless it has just delayed itself.  *)
HeadIsRunning ==
  frames # <<>> =>
    \/ \E k \in 1..Len(frames) :
         LET chain == [i \in 1..(Len(frames) - k + 1) |-> frames[k + i - 1].thr]
         IN  IsPrefix(chain, active)
    \/ Len(frames) = 1 /\ thr[Top.thr].state = "DELAYED" /\ LoopEnds

(* The two assertions on the state of a thread (in                          *)
(* sim_thread_insert_into_delay_queue and sim_kill_thread) cannot fail, and *)
(* where the head of the active queue is taken off there is one.            *)
AssertionsHold ==
  /\ Evaluating({"DELAY"}) /\ ~thr[Top.thr].execFirst /\ ~now.final
       => thr[Top.thr].state # "DELAYED" /\ active # <<>>
  /\ LoopEnds /\ Killed(Top)
       => thr[Top.thr].state # "WAITING" /\ (LastChild(Top.thr) \/ active # <<>>)

(* The delayed queue is "in simulation time order" (sim.c:398).            *)
DelayedInOrder ==
  \A i, j \in DOMAIN delayed : i < j => Full(thr[delayed[i]].time) <= Full(thr[delayed[j]].time)

(* Events happen in time order: nothing that is ready to run is later than *)
(* anything that still has to be delayed.                                  *)
ActiveBeforeDelayed ==
  \A i \in DOMAIN active, j \in DOMAIN delayed :
    Full(thr[active[i]].time) <= Full(thr[delayed[j]].time)

(* Threads are served in the order of their times: the delayed queue is in  *)
(* order, and what runs, runs at a time none of them is before.             *)
TimesInOrder == DelayedInOrder /\ ActiveBeforeDelayed

(* When a timestep is over, every delay that ended in it has been served   *)
(* (unless $finish stopped the simulation).                                *)
NoneOverdue ==
  phase = "post" =>
    \A i \in DOMAIN delayed : Full(thr[delayed[i]].time) > Full(now)

(* A thread only waits where something can wake it: at an operation that   *)
(* switches context or at a continuous assignment.  "If this is the last   *)
(* statement in the tree with no loopback, kill the current thread"        *)
(* (sim.c:1055).                                                           *)
WaitsWhereWoken ==
  \A t \in Live : thr[t].state = "WAITING" =>
    thr[t].curr # NULL /\ (Op[thr[t].curr] \in ContextSwitch \/ thr[t].curr \in Cont)

(* DISABLE: "If a thread was found to match, kill it" (sim.c:857).  The code *)
(* marks the threads; one that is waiting, delayed or blocked lives on until *)
(* something else makes it run.                                              *)
DisabledThreadsDie == phase = "idle" => \A t \in Live : ~thr[t].kill

(* Final blocks start when everything else is over: in the last pass, with *)
(* no thread left that is delayed to an ordinary time.                     *)
FinalBlocksLast ==
  [][\A t \in Thread : thr[t].state = "DELAYED" /\ thr'[t].state = "ACTIVE" /\ thr[t].time = FinalTime
       => now = FinalTime /\ \A i \in DOMAIN delayed : thr[delayed[i]].time = FinalTime]_vars

(* A call returns when, and only when, every thread it started is dead: a  *)
(* blocked thread becomes active in the step that kills its last child.    *)
JoinAfterAll ==
  [][\A p \in Live : thr[p].state = "NONE" /\ thr'[p].state # "NONE" =>
       Cardinality(Live \ Live') = 1 /\ \A t \in Live' : thr'[t].parent # p]_vars

(* Every timestep comes to an end. *)
TimestepsEnd == phase = "sim" ~> phase # "sim"

=============================================================================
