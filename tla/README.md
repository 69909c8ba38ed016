# A verification project for Covered's simulator

Covered is a code coverage tool for Verilog.  `covered score` parses a design,
reads a dumpfile of a simulation (VCD, LXT2, FST, or the values a VPI module
sees) and simulates again as much of the design as it needs to know which
lines, expressions, toggles, states and memory elements have been reached.  The
result is kept in a coverage database (CDD) that `merge`, `report`, `rank` and
`exclude` work on.

What the coverage numbers are worth depends on the simulator inside `score`: a
thread that is forgotten, an event that is missed or a value that is stale
changes them without any message.  This directory models that simulator in
TLA+, checks the models with TLC and proves theorems about them with TLAPS.

To check: `tlc -config <run>.cfg <module>` for a row of the table of runs below;
`tlapm <module>_proofs.tla` for the proofs.

## 1. Inventory

Paths are relative to `src/src/`.

| Component | Code | State it keeps | Operations | What is hard | What makes it correct |
|---|---|---|---|---|---|
| Simulation time | `defines.h` `TIME_*`, `db.c` | two 32-bit words, the 64-bit value, a "final" flag | compare, increment | carry between the words, end of time | comparisons agree with the 64-bit value |
| Thread scheduler | `sim.c`, `func_unit.c` | pool of threads, active and delayed queue, state, parent and child count of each thread | start, push, pop, insert, kill, disable, run | hand-linked lists with shared links, threads run from within expressions, disable of anything at any time, $finish in the middle | no thread lost, freed or run twice; callers come back when their children are dead; time order; every timestep ends |
| Event evaluation | `sim.c` `sim_expr_changed`, `sim_expression`; event operations of `expr.c` | changed bits and `eval_t` of expressions, memories of edges | propagate a change upwards, evaluate downwards where bits are set | stale bits and memories, evaluation by a thread that was not waiting | a thread goes on if and only if its event has happened |
| Values at the end of a timestep | `symtable.c`, `sim.c` `sim_perform_nba`, `expr.c` `expression_assign` | values by symbol, queue of non-blocking assignments, positions of selected elements | set value, assign, queue, perform | fixed-size queues, order of the two, stale positions | what is written is what the design meant when it was executed |
| Dumpfile readers | `vcd.c`, `lxt.c`, `lxt2_read.c`, `fst.c`, `fstapi.c` | position in the file, time | parse, call `db_do_timestep` | what they do after $finish | times do not decrease |
| VPI | `vpi.c` | callbacks | value changes, `db_do_timestep` | the simulator around it is external | as for the readers |
| Expressions, statements, units | `expr.c`, `statement.c`, `func_unit.c`, `stmt_blk.c` | trees and graphs, values, coverage bits | one function per operation, connecting, removing | partial evaluation, removal of blocks that cannot be simulated | values follow the signals they are computed from |
| Vectors | `vector.c` | 2- and 4-state bits and their coverage bits | assignment, arithmetic, set operations, merge | widths at word boundaries, x and z | the operation of the language, coverage bits only grow |
| Memories | `memory.c`, `vsignal.c` | one vector, dimensions | element positions, read/write bits | several dimensions, declaration order | each element has its place |
| Reentrant units | `reentrant.c`, call operations of `expr.c` | saved variables of a call | save, restore around calls | nested and recursive calls, arguments passed by changed bits | a call sees its arguments and leaves its caller's variables alone |
| Elaboration | `binding.c`, `param.c`, `static.c`, `gen_item.c`, `instance.c`, `scope.c`, `enumerate.c`, `struct_union.c` | instance tree, pending bindings | bind, resolve, generate | order of resolution | each name bound once to the right object |
| Lexer, parser | `lexer.l`, `parser.y`, `pplexer.l`, ... | grammar state | build modules, statements | size of the language | the graphs of statements `DesignAssumption` describes |
| Database | `db.c`, `info.c` | open file, current unit | read, write | format | what is written is read back |
| Merge | `merge.c` and `*_merge` functions | tree of databases | merge | same design at different places | commutative, idempotent |
| FSM coverage | `fsm.c`, `arc.c` | states and arcs seen | add, find, merge | tables that grow | each transition recorded once |
| Race checker | `race.c` | blocks and their signals | classify blocks | signals shared in parts | as its chapter of the manual |
| Ranking | `rank.c` | matrix of tests and points | select | ties, weights | selected tests cover everything |
| Reports, exclusion | `report.c`, `line.c`, `toggle.c`, `comb.c`, `exclude.c`, ... | counts | traverse, print | layout | counts agree with the database |
| Inlined coverage | `generator.c`, `codegen.c` | text being written | produce Verilog | text | equivalent source text |
| Debugger, drivers, Tcl | `cli.c`, `main.c`, `score.c`, `tcl_funcs.c` | options, breakpoints | commands | -- | -- |
| Utilities | `util.c`, `profiler.c`, `obfuscate.c` | allocation, messages | -- | -- | -- |

### How the parts of the simulator interact

One C thread runs everything.  A reader calls `db_do_timestep` for each time in
the dumpfile, with the values that follow the time already in the symbol table:

1. `sim_simulate` runs threads until the active queue is empty and no delay is
   due.  `sim_thread` runs one thread, statement by statement; a statement is
   evaluated by `sim_expression`, whose operations may assign signals, start
   threads (`TASK_CALL`, `FORK`, `FUNC_CALL`), move their own thread to the
   delayed queue, mark threads (`DISABLE`) or stop everything (`$finish`).  An
   assignment calls `vsignal_propagate`, `sim_expr_changed` and
   `funit_push_threads` back into the queues while the thread is running; a
   function call runs `sim_thread` again inside `sim_expression`.
2. `symtable_assign` gives the signals their new values.  Threads woken by them
   are queued and run in the next call.
3. `sim_perform_nba` writes the elements of memories that were assigned
   non-blocking.

There is no parallelism.  What takes the place of interleavings is the order in
which threads, callbacks and values of the dumpfile reach the same lists, bits
and counters, and that is what the models explore.

## 2. Plan

1. `SimTime`, `SimSched`: time, threads and queues, db_do_timestep. **Done.**
2. `EventWait`: changed bits and events. **Done.**
3. `NonBlock` against `VerilogMemory`: symbol table, non-blocking assignments,
   element positions. **Done** for one dimension.
4. `FuncCall`: function calls, their arguments and the frames of automatic
   units. **Done** for functions and their named blocks.
5. `SigVector`, `Vec`, `ExprOp`: toggle and access bits of a vector through
   simulation, database and merge; the operators of expressions against the
   language. **Done** but for real values and conversions.
6. `CombCov`, `FsmCov`: coverage of expressions, lines and state machines over
   runs, exclusions, reports and merges. **Done** but for bitwise and event
   coverage.
7. `Rank`, `StmtBlocks`, `RaceCheck`: the rank command, removal of statement
   blocks, the race check. **Done** but for reading points from files.
8. Composition of `SimSched` and `EventWait`: two threads at one statement share
   the memory of its edges; time inside a timestep against `sim_perform_nba`;
   `FuncCall` inside `SimSched`.
9. Trees of databases with different tops in `merge.c`; memories of several
   dimensions.
10. Proofs: the threads of `SimSched` and the order of their times, each from one
    inductive invariant, the refinement of `VerilogMemory`, `ElementsSound` of
    `SigVector`, `StatExact` of `FsmCov`, the changed bits and events of
    `EventWait`, marks, recorded coverage and adjusted numbers of `CombCov`, the
    races and removals of `RaceCheck`, what `ExprOp` records (**done**); next the calls
    of `FuncCall`, whose trees would have to be walked without recursive operators.

## 3. The modules

### SimTime

Words are numbers below `Word` (2^32 in the code, a parameter here).  A time is
the record of `sim_time_s`; the comparisons are the macros, word by word.

### SimSched

The scheduler, with the design as a parameter: a graph of statements
(`NextTrue`, `NextFalse`), the operation of each as far as it matters to
scheduling, the units they belong to, the signals they write and read.

| Variable | Code |
|---|---|
| `pool`, `allNext` | list `all_head`..`all_tail`, `all_next` |
| `active`, `delayed` | the two queues |
| `thr` | the `thread` structures |
| `frames` | calls of `sim_thread` in progress: its local variables `thr`, `stmt`, `expr_changed` |
| `toAdd` | blocks the database reader has still to start |
| `simulate`, `now` | globals of `sim.c`, `curr_time` |
| `evalT` | `eval_t` forced for `always_comb` at time 0 |
| `phase` | where `db_do_timestep` is |

One action is one statement executed by one call of `sim_thread` (`ExecAssign`,
`ExecEvent`, `ExecDelayStart`, `ExecDelayEnd`, `ExecCall`, `ExecFork`, `ExecJoin`,
`ExecDisable`, `ExecFinish`, `CallFunction`), or what `sim_thread` does at its
start and end (`BeginThread`, `EndThread`, `SwitchThread`), or one step of
`sim_simulate` and `db_do_timestep` (`PopDelayed`, `EndPass`, `PostAssign`,
`Timestep`, `FinalTimestep`), or the start of a block from the database
(`StartBlock`, `EndRead`).

Values are abstracted: a branch may go either way, an assignment may or may not
change its signal, an awaited edge may or may not be there, the threads a change
wakes are queued in any order (the order of expressions of a signal).  Where the
code would follow a null pointer a step is impossible, and TLC would report a
deadlock.  `DesignAssumption` says what the parser guarantees: no context switch
has a false branch, a continuous assignment is a loop to itself.  `kill` and
`simulate` are looked at between two statements (`Executing`): when a function in an
expression has run `$finish`, or has disabled its caller, the rest of the statement
is still done and the caller is killed after it.  Two further
predicates are hypotheses of theorems: `StructuredDesign`, the shape of blocks that
the parser builds without functions that stop a delay or a call half way (`Calm`), and `TimelyDesign`, times that stay below one word and continuous
assignments that call functions without effects.  Section 5 says what each part is
for; TLC evaluates both on the designs of `MCCall` and `MCFinish`.

### EventWait

Expression trees and their `changed` bits (`bits`), `eval_t` (`evalT`), the values
edges remember and operations have computed (`old`).  A thread is a loop of an
event statement, an optional delay and an assignment.  `Assign` is
`vsignal_propagate`; `Eval` is one evaluation of an event statement by
`sim_expression`, given by what it visits, clears, fires, consumes and
remembers.  `seen` and `moved` are history variables: what the operands were
when the thread began to wait.  The state of waiting threads and the queue are
those of `SimSched`, reduced to what decides the order of evaluations.  A
condition over `$time` is taken not to hold yet.  The second changed bit of `?:`
and the left bit of leaves are not modelled.

`ShapeAssumption` is what the parser builds: finite trees in which each operation has
operands of its kind, and lists `sig->exps` that hold all uses of a signal.  Two
predicates are hypotheses of the theorems, and TLC evaluates them on the design of
`MCEvent`: `PlainDesign`, each thread has a statement of its own and no event is over
a system function, and `AnyEdgesOfSignals`.

### VerilogMemory, NonBlock, MemDesign

`VerilogMemory` is what assignments to a memory mean: a non-blocking one takes
its element and value when it is executed and has its effect, in order, when
everything else at that time is done.  `NonBlock` is what the code does: one
structure per assignment in the source, a queue of these structures, one vector
for the memory, positions in it, and the symbol table before all of it.
`MemDesign` holds the parameters of both.  `NonBlockingIsDeferred` is the
statement that the second implements the first: `mem` is read off `vec` by the
position of each element, `pending` off the queue, the positions in the
structures and the vectors they point at.  One action is one round of the loop
of `symtable_assign` or `sim_perform_nba`, one execution of an assignment, or
one phase of `db_do_timestep`.  `DeferrableDesign` says of which designs it holds:
it excludes the four that section 4 shows to fail, and the design of `MCMemory`
satisfies it.

### FuncCall

Calls of functions from within expressions.  `stack` holds the calls of
`sim_thread` and `sim_expression` in progress, innermost last; `Next` is a step of
the innermost.  A walk goes down where `changed` bits are set (`DescendLeft`,
`DescendRight`), assigns a port where it passes a `PASSIGN`, runs the statements of the function in the
middle of the walk, and copies the value of the function on the way up.  At its
first `PASSIGN` an automatic unit puts the variables, expression values and
changed bits of its frame aside (`FrameUnits` says of which units) and takes them
back when the call returns.  `Apply` is the value of an operator, `Meaning` what
each function returns by its own text; both come with the design.

### SigVector

The vector of a signal or memory.  Planes (`vall`, `valh`, `xhold`, `tog01`, `tog10`,
`misc`, `wr`, `rd`) are sets of bit positions, in elements of `UL_BITS`.  `VcdStep` is
`vector_vcd_assign`, `SetStep` an assignment by an expression
(`vector_set_coverage_and_assign_ulong`), `PushStep` one bit range pushed by a part
select, `ReadStep` a read of memory elements, `Write` the end of a run with what
`vector_db_write` keeps, `MergeRead` and `MergeNext` are `vector_db_read` and
`vector_db_merge`.  The history variables follow each bit by itself.

### Vec, ExprOp

`Vec` has the operators of `vector.c` and the value operations of `expr.c` on
vectors of several elements: bitwise, reduction, comparison, case comparison,
shifts, sums, `*`, `/`, `%`, concatenation, replication and `$clog2`, with what their
scratch arrays hold where nothing is written.  `ExprOp` is one expression that is
evaluated several times: `Before` and `Last` set its operands and run its operation
function with the macros that record combinations (`EVAL_A`..`EVAL_D`), truth
(`true`, `false`) and the last value (`eval_t`, `eval_f`).  `Meaning` is the operator of
the language on sets of possible numbers; `Had` looks a combination up in the history of
all evaluations, bit by bit.

### CombCov

One statement with its expression tree, in single bits.  `Change` is a value change
with `sim_expr_changed`, `Execute` an evaluation of the statement by
`sim_expression` with all bits that combinational logic coverage counts, `EndRun`
the database and the report, `ExcludeComb` and `ExcludeLine` the exclusions of
`exclude.c` with the adjusted numbers, `NextRun` a second run of score, `Merge` the
merge functions of expressions and statements.

Every child has a higher number than its parent, and a `COND_SEL` a lower one than
the condition it selects by; the numbers say only in which order values can be
computed.  `Changed` makes the marks of several leaves at once, where
`sim_expr_changed` is called for one after the other: a climb that stops at a mark
of an earlier one leaves the rest to it.  `IsTree` (`TreesAssumption`) is the shape
that `expression_create` gives a tree.

### FsmCov

A table of states and arcs whose arcs are positions in two lists.  `CreateArc` is a
round of `fsm_create_tables`, `Assign`, `RunFrom` and `RunTo` a simulation whose
design sets the state variables and whose threads run in any order, `EndRun`,
`NextRun` and `Open` the databases, the merge goes arc by arc (`arc_db_merge`), and
exclusions adjust `stat` as `exclude_arc_assign_and_recalc` does.

### Rank

The array `comp_cdds` of `rank_perform`, position by position: counting of points,
required files, files with points nobody else hits, greedy selection by score,
and the final sort (`rank_perform_greedy_sort`).  `ranked_merged` and
`unranked_merged` are counted as in `rank_selected_cdd_cov`, through an index of
`IndexSize` values.  `Needed` is which files `rank_output` puts above its line.

### StmtBlocks, RaceCheck

`StmtBlocks` is `stmt_blk_remove`: a list of blocks in the order of their lines, each
removal adding callers and called named blocks.  `RaceCheck` extends it with what
fills the list: `CalcAssignments` (`race_calc_assignments`), `CheckTypes`
(`race_check_assignment_types`), `CheckExp` and `NextSignal` (the loops of
`race_check_one_block_assignment` over signals and expressions), `CheckOver`
(the list, or the throw of `race_check_race_count`).  `IsDesign` is what the parser
builds: a call statement is of one task or named block, and nothing calls a block of
a module.  `Reached` and `Flat` are what a block reaches through calls, as the set closed
under them and as the sequence of its statements.  An entry of the list
stands for its block; the code looks one up by its first or its last line
(`race.c:442`), so that two blocks on one line would share an entry.

Modules whose name ends in `_proofs` hold the theorems; those that
begin with `MC` hold designs for TLC.

## 4. Runs

| Run | Module, cfg | Shows | Design and bounds |
|---|---|---|---|
| `call_return` | `MCCall` | the head of the active queue is the running thread; nothing waits where it cannot be woken | a task called twice, a function that calls a named block, from a statement and from a continuous assignment, a repeat loop around a delay; 6 threads |
| `stop_finish` | `MCFinish` | queues, states, pool and child counts agree; the assertions of `sim.c` hold; delays in order and in time; a parent comes back exactly after its last child; final blocks last; every timestep ends | the fork of `MCFork` (branches that delay, wait, are disabled from inside and outside) with delays of different lengths, a task waiting, `always_comb`, a final block, `$stop`, functions that run `$finish` or disable their caller in the middle of an assignment, a function in a delay, build with debugger; 13 threads, readers that go on after `$finish`, times up to 3 |
| `events` | `MCEvent` | evaluation where bits are set is exact: no change missed, none invented, no event left over | an edge list with a computed operand, `always_comb`, `wait` with a delay, each driving another, two dumped signals with values 0, 1, x |
| `memory` | `MCMemory` | non-blocking assignments and the symbol table do what they mean; their two fixed-size queues never hold an entry twice | two non-blocking and a blocking assignment, once per timestep each, an index inside and outside of the memory |
| `functions` | `MCFunc` | a call sees its arguments, leaves its caller's variables alone and returns; what a statement assigns is what it means | a doubly recursive automatic function, one that recurses inside a named block, a static one that calls another, nested as argument |
| `vector_coverage` | `MCVector` | toggles are exact, also after a merge; written and read elements are | 3 bits in elements of 2, mixes of 0, 1, x, z, at most 4 assignments, 2 files; a register, a net, a 2-state signal, a memory |
| `operators` | `MCExprOp` | every operator has a value of the language and is known where it must be; recorded combinations and truth are those of the evaluations | 38 operators, all four-valued operands of up to 4 bits in elements of 3, two evaluations |
| `comb_coverage` | `MCCombCov` | where no bit is set, values are current; combinations are those that occurred, also after a merge; adjusted numbers are those of a new report | a chain of `&` and `~`, an `if` with `^` and a constant, `?:` between two signals and between a signal and its inverse; 3 value changes, 3 exclusions, 2 runs |
| `line_exclusion_merge` | `MCCombCov`, `MCExclMerge` | *violated*: `LineExclusionsMerged` | as `comb_coverage` |
| `fsm_coverage` | `MCFsm` | each transition is one arc; hits and exclusions are those made; a settled pair is recorded; adjusted numbers are right | one variable without and with declared transitions, two variables with an excluding attribute; 3 values, 3 assignments, 2 runs, 2 exclusions |
| `rank` | `MCRank` | leaving out the files not needed costs no coverage; counters exact; files in order of what they add | 3 files that hit any of 3 points, any of them required, depths 1 and 2, two lengths of simulation |
| `race` | `MCRace` | the blocks named by the guidelines are condemned, with the one of two that came first; what is removed takes its callers and nothing else | three families of designs: blocks with selects of a 3-bit vector (2 elements), blocks with assignments of all kinds, units that call each other |

`line_exclusion_merge` shows a disagreement with the manual
(`doc/docbook/chapter_gui_line.xml:106-108`): the exclusion of a line is lost if
it was made in the second of two merged files, because `funit_db_merge`
(`func_unit.c:892`) reads the statements of that file and drops them.

**Configurations that TLC refutes.**  Most models can be given a design, or a value
of a constant, that the passing run leaves out, because the code does something
else there than the property says.  TLC shows the steps, run by hand:

| Configuration | Violates | What happens |
|---|---|---|
| `MCWord.cfg` | `DelayedInOrder` | times with a carry between their words are put into the delayed queue in the wrong order (`TIME_CMP_GT` is no lexicographic comparison) |
| `MCOpAssign.cfg` | `WaitsWhereWoken` | a task whose last statement is an op-and-assign that leaves its variable unchanged never returns |
| `MCFinish.cfg`, `Func <- DelayFinishes` | `QueuesMatchStates`, `PoolSound` | a function in a delay runs `$finish`: the caller inserts itself in the delayed queue all the same (`sim.c:1027`), is then killed (1077), and `sim_kill_thread` takes off another head, or follows a null pointer if there is none (808); the structure that is put aside is still queued |
| `MCFinish.cfg`, `Func <- DelayDisables`, `Target <- MainDisabled` | `QueuesMatchStates`, `PoolSound` | the same with a function that disables the module it is called in |
| `MCFinish.cfg`, `Func <- CallFinishes` | `QueuesMatchStates`, `PoolSound` | a function in the call of a task runs `$finish`: the caller is killed with the task as its child, whose parent is then a free structure |
| `MCDisable.cfg` (module `MCFork`) | `DisabledThreadsDie` | `disable` marks threads that then stay delayed, waiting or blocked |
| `MCSysFunc.cfg` | `ChangedMeansQueued` | a `wait` over a system function sleeps through changes of the signals in it |
| `MCCombZero.cfg` | `CombRunsAtZero` | an `always_comb` block does not run at time 0 if an initial block has assigned one of its inputs |
| `MCLoop.cfg` | `NonBlockingIsDeferred` | of several executions of one non-blocking assignment in a timestep the last one is performed (`sim.c:1226`); the expected report of the test `mem7` shows it |
| `MCVector.cfg`, `Width = 10`, `Element = 5`, `Patterns <- WidePatterns`, `Kinds <- WideKinds` | `ElementsSound` | the loop of `vector_set_mem_rd_ulong` over the words inside of the range sets the word of its last bit instead (`vector.c:2019`): an element of three words or more (of 64 bits: every element of more than 128) marks its last word completely when it is read, and an element that begins there counts as read, against the comment at 2004 and `chapter_metrics.xml:148`; the words between stay unmarked, which nobody sees, one bit being enough |
| `MCExprOp.cfg`, `Shapes <- MCFilled`, `Ops = {"ADD"}` | `SumExact` | signed operands that fill their elements are extended with zeroes (`UL_LMASK` of a multiple of the element size, `vector.c:3638`) |
| `MCFsm.cfg` | `NoneInvented` | the first transition of a state machine of one variable starts at 0, which the variable never had (`binding.c:853`) |
| `MCRank.cfg`, `IndexSize = 2` | `CountersExact` | with more than 65536 points the `uint16` `merged_index` wraps (`rank.c:1355`) |
| `MCRank.cfg` | `NeededFirst` | a required file that adds nothing may be listed below the line, and the reduced count is then too small (`rank.c:1600`) |
| `MCRace.cfg`, `Designs <- MissedRaces` | `GuidelinesKept` | races not found: bit selects other than 0 (`race.c:597`), a task called from two blocks or declared behind another block (184-203), a for loop visited last hides blocking assignments (297), drivers of an input after the first |
| `MCRace.cfg`, `Designs <- ThreeBlocks` | `BothRemoved` | of three blocks the second and third are in a race; the first is removed (`race.c:516`) and one of the two stays |
| `MCRace.cfg` | `RemovedAreReported` | the first of two blocks is removed and not listed (`chapter_race.xml:163-170` says blocks are) |
| `MCRace.cfg`, `Designs <- FalseRaces` | `OnlyRacesRemoved` | an indexed part select counts one bit too many (622-637); a block that assigns its own bits twice is taken to be in a race |
| `MCRace.cfg`, `Designs <- MissedCalls` | `RemovalsExact` | callers in a false branch stay (`statement.c:906`); a recursive function puts itself back on the list (`stmt_blk.c:105`) |
| `MCRace.cfg`, `Designs <- LostMemory` | `MemoriesAssigned` | the block that wrote a memory is removed, the blocks that read it stay (`expr.c:6531`) |

**Met while modelling.**  The models have these, no configuration is kept; the
designs of the passing runs leave them out, or the property says so.

*Times.*  A thread that waits at a continuous assignment is woken with the time of its
last change, not of this one (`sim_thread_push` sets the time at events only).  If its
expression calls a function that assigns a signal of the module, the events that
wait for that signal run at the old time as well, and `TimesInOrder` fails: a delay
they start ends before others that were due earlier (a variant of `MCCall` in which
`f` writes a signal two `always` blocks read).

*Events and memories.*  An any-edge of a computed value updates its memory only
when it fires (`Remembered`), so that a change back can be missed.  An assignment
with an unknown index goes to the element selected before; the index just behind
the last element of a memory in ascending order is let through (`SelectedLsb`).
A non-blocking assignment of a plain signal writes its next value
(`NonBlockingIsDeferred` is violated by a design with nothing else).

*Functions.*  A static function of two or more arguments with two call sites keeps,
in the port of an argument that did not change, what the other site left
(`expr.c:5142-5184`).  `f(a, f(b, c))` overwrites the outer port.  An automatic
function of two or more arguments puts its frame aside at the first and clears the
changed bits of the second (`reentrant.c:184-198`).  The frame of a unit does not
include the named blocks in it (`reentrant.c:77-80`).  A function is not run again
for signals it reads from its module, nor a first time if no argument has changed.

*Vectors.*  Files scored with words half as long lose toggles in a merge
(`vector.c:721-731`, against `NEWS:404-405`).  Writing an equal value does not count
as writing (1613-1625, against `chapter_metrics.xml:147`).  A part select pushed into
a 2-state signal leaves x and z (`vector_part_select_push`).

*Operators.*  `~(a & b)` and `~(a | b)` are 0 where an x should be and x where
they are known (`vector.c:3414`, 3504); `x || 0` is 0 and `x && 1` is 0 (`vector.c:4222`, 4254); `*`, `/` and
`%` use the first element only, without signs (4648, 4702-4707); the bits above it
keep what scratch memory held; an arithmetic shift by more than the width takes the
wrong bits (4385); a negation into a narrower target borrows past it (4517);
`casex` forgets the mask of the last element (4041-4051); `$clog2` is one too small
(5321).  `Trusted` in `ExprOp` names the cases `ValuesExact` speaks of.

*Expressions.*  An excluded operator counts 2 instead of 2 per bit in bitwise
coverage (`comb.c:447`); a 2-state signal that stays 0 is never evaluated; `exec_num`
wraps (`expr.c:5764`); excluding a line that was executed leaves `line_excluded` of
the report alone.

*State machines.*  A table without declared transitions followed by one with them
gets a total of one less (`arc.c:506`); reasons for exclusions are found through a
counter over all tables that is never reset (591, 640, 829-833); undeclared
transitions enlarge a declared table; transitions over unknown values are not
recorded; two variables may be recorded in a pair they only pass through.  `FsmCov`
takes state expressions to be plain signals; one that is a part select or a
concatenation gets its value only when its thread runs.

*Ranking.*  If all files are required, step 3 reads behind the array
(`rank.c:1459-1466`); its loop asks the file swapped into the place of the selected
one whether to go on (1469); a simulation of 0 timesteps divides by zero;
`rank_gather_fsm_cov` looks at tables without declared transitions only, where
reports count the declared ones (`rank.c:920`, `arc.c:507`).  Of files that add equally
much, the manual puts the one with the shorter simulation first (`chapter_rank.xml:559-560`),
`rank.c:1299` the one with the longer; no property speaks of it.

**Bounds.** Times in the dumpfile are bounded by `MaxTime`: delays of the designs
are 1 and 2, so that a timestep can come before, at and after the end of each.
`Thread` bounds the pool; it is larger than the number of threads alive at once,
so that structures are recycled and new ones allocated.  `Word` is 8 where the
order of times is not the question, small enough in `MCWord` to have a carry.
`Executions` bounds how often a statement is executed in a timestep: once for
blocks that wait for a dumped clock (each symbol has one value per timestep),
twice for loops.  `UL_BITS` is 2 or 3, so that vectors of 3 to 5 bits have a full
and a partial element; three elements are the one case for which
`vector_set_assigned` differs (`vector.c:1522`), and are out of the bounds of `race`.
`MaxAssign` allows a bit to go known, x, known, x; `MaxSteps` is 2 because an
operator keeps nothing but its own last value and sums of what was recorded.
`MaxChanges` and `MaxExcludes` of 3 give two evaluations in one run and one in the
next, and an exclusion of a parent, of a child and back.  `MaxRuns` of 2 is what a
merge takes, `MaxAssigns` of 3 a transition with one value in between.  `rank` has
fewer points than 4 because states grow with files times points; two points of one
metric and one of another are enough for every tie.

The designs of `race` have bit selects of bit 0 only, the control variable of a for
loop behind other blocking assignments, tasks called from one block and placed so
that the expressions of a block follow each other: the table above has what
happens otherwise.

**Fairness.** `SimSched` and `EventWait` assume weak fairness of the steps of
`sim_simulate` and of the assignments after it, `FuncCall` of the steps of the
innermost call: the simulator is one C thread in a loop, it does not stop between
two steps.  Nothing is assumed of the dumpfile: timesteps, values and the database
reader may stop coming.  All other properties are safety properties.

**Deadlock** is checked where the program has an end or runs forever (after the
final timestep `SimSched` has an explicit step `Terminated`; `Rank` and `RaceCheck`
have `Finished`).  `vector_coverage`, `operators`, `comb_coverage` and `fsm_coverage`
are sequences of user and simulation steps up to a bound, and stop there.

## 5. Theorems

| Theorem | Module | Says |
|---|---|---|
| `TypeCorrect` | `SimSched_proofs` | `Spec => []TypeOK` for every design, pool and word size |
| `PoolOnceAlways` | `SimSched_proofs` | `Spec => []PoolOnce`, the first part of `PoolSound`: no thread structure is in the pool twice, `all_next` points into it |
| `ThreadsAlways` | `SimSched_proofs` | `Spec => []ThreadsInv`, the inductive invariant of the scheduler, for every structured design |
| `QueuesAlways` | `SimSched_proofs` | `Spec => []QueuesMatchStates`: no step loses a thread or queues it twice |
| `PoolAlways` | `SimSched_proofs` | `Spec => []PoolSound`: whatever is live or running, and its parent, is in front of `all_next` |
| `ChildrenAlways` | `SimSched_proofs` | `Spec => []ChildrenSound`: `active_children` counts the live children |
| `WaitsAlways` | `SimSched_proofs` | `Spec => []WaitsWhereWoken` |
| `HeadAlways` | `SimSched_proofs` | `Spec => []HeadIsRunning` |
| `AssertionsAlways` | `SimSched_proofs` | `Spec => []AssertionsHold`: the assertions of `sim.c` cannot fail |
| `JoinsAlways` | `SimSched_proofs` | `Spec => JoinAfterAll`, an action property: a parent goes on with its last child and not before |
| `OrderAlways` | `SimSched_proofs` | `Spec => []OrderInv`, the inductive invariant of the times, for every structured and timely design |
| `TimesAlways` | `SimSched_proofs` | `Spec => []TimesInOrder`: the delayed queue is sorted, nothing that may run is later than a delay to come |
| `OverdueAlways` | `SimSched_proofs` | `Spec => []NoneOverdue`: no timestep ends with a delay that is due |
| `FinalBlocksAlways` | `SimSched_proofs` | `Spec => FinalBlocksLast`, an action property: a final block starts in the last pass, when only final blocks are left |
| `TimeCmpLECorrect` | `SimSched_proofs` | `TIME_CMP_LE` compares the 64-bit values |
| `TimeCmpGTOneSided` | `SimSched_proofs` | `TIME_CMP_GT` is implied by "later" and equivalent to it when the high words agree |
| `TimeIncCorrect` | `SimSched_proofs` | `TIME_INC` adds the 64-bit values when the sum fits |
| `QueuesFitAlways` | `NonBlock_proofs` | `Spec => []QueuesFit`: neither queue holds an entry twice |
| `LastValueCountsAlways` | `NonBlock_proofs` | `Spec => []LastValueCounts`: no value of the dumpfile is lost on its way through the symbol table |
| `MemoryIsImplemented` | `NonBlock_proofs` | `Spec => NonBlockingIsDeferred`, a refinement: queue, positions and vector implement `VerilogMemory`, for every deferrable design |
| `TypeCorrect` | `NonBlock_proofs` | `Spec => []TypeOK`: what waits in the queue has the position of an element |
| `TogglesAreExact` | `SigVector_proofs` | `Spec => []TogglesExact`, for every width, element size and sequence of assignments |
| `HeldValuesAreLast` | `SigVector_proofs` | `Spec => []HoldsLast`: XHOLD and MISC hold the last known value of each bit that is x |
| `MergeIsExact` | `SigVector_proofs` | `Spec => []MergedExact` if the files have the word size of the program |
| `ElementsAreSound` | `SigVector_proofs` | `Spec => []ElementsSound` if the files have the word size of the program and elements span two words at most (`ShortElements`): elements written and read, through merges |
| `TypeCorrect` | `FsmCov_proofs` | `Spec => []TypeOK` |
| `ArcsAreDistinct` | `FsmCov_proofs` | `Spec => []DistinctArcs` |
| `HitsAreExact` | `FsmCov_proofs` | `Spec => []HitsExact` |
| `ExclusionsAreExact` | `FsmCov_proofs` | `Spec => []ExclusionsExact` |
| `SettledIsRecorded` | `FsmCov_proofs` | `Spec => []SettledRecorded` |
| `StatsAreExact` | `FsmCov_proofs` | `Spec => []StatExact`: numbers adjusted arc by arc are those counted afresh |
| `EventInvariant` | `EventWait_proofs` | `Spec => []IInv`, the inductive invariant of changed bits and events, for every plain design: trees of any shape, any signals and threads |
| `BitsAlwaysSound` | `EventWait_proofs` | `Spec => []BitsSound`: a root with a bit set does not wait, a stale value is on a path of set bits |
| `NoChangeMissed` | `EventWait_proofs` | `Spec => []NoMissedChange`: no change is slept through |
| `EventsAreUsedUp` | `EventWait_proofs` | `Spec => []NoStaleEvent`: no event is left over for the next wait |
| `EventsDecideRight` | `EventWait_proofs` | `Spec => PassesOnEvent`, an action property: a thread passes if and only if an edge has happened since it began to wait, if any-edges are of signals |
| `CoverageAlways` | `CombCov_proofs` | `Spec => []CoverageInv`, the inductive invariant of marks, last values and recorded coverage, for trees of every shape |
| `UnmarkedAlwaysCurrent` | `CombCov_proofs` | `Spec => []UnmarkedCurrent`: no mark is lost where the climb of `sim_expr_changed` stops |
| `CoverageAlwaysExact` | `CombCov_proofs` | `Spec => []CoverageExact`: the combinations and values recorded are those that occurred, also after a merge |
| `StatsAlwaysExact` | `CombCov_proofs` | `Spec => []StatExact`: the numbers that exclusions adjust are those of a new report |
| `TypeCorrect` | `CombCov_proofs` | `Spec => []TypeOK` |
| `CoverageAlwaysExact` | `SigVector_proofs` | `Op!Spec => []Op!CoverageExact`, where `Op` is an instance of `ExprOp`: what an operator on vectors records is what its evaluations were, for every operator, width and element size |
| `RemovalsAlwaysExact` | `RaceCheck_proofs` | `Spec /\ CallsFound => []RemovalsExact`: what is removed takes its callers, nothing else, and nothing twice |
| `RacesAlwaysExact` | `RaceCheck_proofs` | `Spec /\ Checkable => []RacesExact`: the blocks in a race are condemned, no others, each is listed once |
| `KeepsCoverage` | `Rank_proofs` | `Spec => []CoverageKept`, for any files, points, depth and required files |
| `GainDecreases` | `Rank_proofs` | `Spec => []DecreasingGain` |
| `CountersAreExact` | `Rank_proofs` | `Spec => []CountersExact` if the index of every point fits |

`TypeCorrect` has one lemma per action of `SimSched`.  Type correctness is
inductive by itself; what takes work is that the queues stay sequences of
threads under insertion and removal at positions found by a search.
The lemmas in front of it state these facts once (the positions `SelectInSeq`
and `SelectLastInSeq` return, the types of `InsertAt`, `RemoveAt`, `Front`,
`SetToSeqs`).  The assumptions used are `DesignAssumption` and the assumption of
`SimTime` on `Word`.

`PoolOnceAlways` rests on `MoveToEnd`: what `sim_kill_thread` does to the list keeps
its elements and repeats none, whatever the thread.

**The threads.**  `SimSched_proofs` proves what `sim.c` promises of its threads, for
every design that is *structured* (`StructuredDesign` in `SimSched`), any number of
thread structures and any dumpfile.  The hypothesis is what the parser builds and
`DesignAssumption` leaves open: a `FORK` is followed by a `FORK` or a `JOIN`
(`db_parallelize_statement` and `fork_statement` of `parser.y`), a `JOIN` ends its block,
continuous assignments neither wait nor delay, functions call, fork, wait and
delay nothing, no block ends with a statement that may return `FALSE`, and functions
in the expression of a delay, or of a call of a task, neither end the simulation nor
disable anything, nor do the functions these call (`Calm`).  TLC
evaluates it on the designs of `call_return` and `stop_finish`.  The last two parts
exclude what the parser would let pass (`db.c:2124-2131` allows `$finish`, `$stop` and
`disable` in functions), because there the properties fail: the design of `MCOpAssign`
(`sim_thread` takes the end of such a block for a wait) and those of `DelayFinishes`,
`DelayDisables` and `CallFinishes` (section 4).  In other statements functions may do
both, and the theorems hold of them.

The inductive invariant `ThreadsInv` is a conjunction of named parts:

| Part | Why the others need it |
|---|---|
| `TypeOK`, `PoolOnce` | the lists are sequences of threads; what is live is what is in front of `all_next` |
| `Placed`, `Linked` | the queue a thread is in is told by its state, except for the callers of functions, which are active and in no queue or at its head; live threads have live parents |
| `ChildrenSound` | a count of 0 means that no live thread has this parent, so that killing it leaves no dangling `parent` |
| `Chained` | nested calls of `sim_thread` are a chain of callers with one child each, all in functions but the first |
| `HeadRuns` | from some call on, the running threads stand at the head of the active queue in the order of the calls, the earlier ones in no queue: so popping the head at the end of a call pops that call's thread, whatever was killed or inserted in between |
| `DelayedTop` | the one exception: a thread that has delayed itself and is about to end its pass |
| `BusyTop` | a running thread has children only while it forks or when it has just called or joined: so a thread that is killed at the end of its pass has none |
| `EndedTop` | what the end of a pass tells of the last statement: a block that neither waits nor delays nor has children is killed |
| `WaitsWhereWoken` | a waiting thread stands at an event or a wait, so `sim_expr_changed` finds it |

`Undisturbed` stands beside it: while a function is in progress that a delay or a call
has called, all calls inside of it are of calm units, nobody has been marked by them, and the
simulation goes on.  So when the delay or call is executed, neither `kill` nor
`simulate` has changed since its thread came to it, though the code does not look again.

Each step has one lemma: what `sim_kill_thread`, `sim_add_thread`, `sim_thread_push` and
`sim_thread_pop_head` do to the queues and to `children` is stated first, then the
lemmas of the actions follow `Next`.  Steps that move only one thread go through one
lemma (`MovesKeep`); a kill inside of nested calls (`KillCalled`, `EndThread`) is where
`HeadRuns` and `Chained` are needed.  `JoinsAlways` compares the states before and after
each step: a thread leaves state `NONE` only where a child of it dies, the step kills
only one thread, and by `ChildrenSound` no child is left.

**The order of times.**  `SimSched_proofs` builds on `ThreadsInv` and proves that threads
are served in the order of their times.  Its hypothesis besides `StructuredDesign` is
`TimelyDesign`, three conditions.  Times stay below one word, which `MCWord` shows to be
needed (2^32 units of simulation time in the code; the final time is allowed).  No
block runs into a continuous assignment.  And functions that continuous assignments
call write nothing outside of themselves (`WritesNothing`); section 4 has what happens
otherwise.

`OrderInv` has five parts.  They compare three sets of threads: delayed ones, all
others (`Undelayed`: their time may be old, because a thread that waits keeps the time
at which it began), and those that may run and start something (`Timely`).

| Part | Why the others need it |
|---|---|
| `Times` | the delayed queue is in order, no thread outside of it is later than one inside or than `now`; what else is true of `now` in each phase |
| `TimelyLast` | until the final timestep, a thread that may run has the *latest* time of all that are not delayed: so a thread it wakes, forks or returns to never goes back in time, and a delay it starts ends after everything that has run. Threads of continuous assignments are excepted, as are the functions they call |
| `CallsShareTime` | a function runs at the time of its caller, so that `TimelyLast` reaches through nested calls |
| `ContinuousAlone` | the exception stays where it is: a continuous assignment is the whole of its thread, nobody's child, and what it calls writes nothing |
| `WaitsForChange` | what waits is at an operation where `sim_thread_push` sets the time |

That the queue stays in order is `InsertOrdered`: the walk of
`sim_thread_insert_into_delay_queue` from the tail stops at the right place because
`TIME_CMP_GT` is the order on the times that occur (`CompareGT`).  `WakeTimeLater` says
that `TIME_INC` does not carry out of the word.  Each action has a lemma of its own;
statements that neither fork nor delay share `StatementOrder`.  `NoneOverdue` follows in
`EndPassKeepsOrder` from the head of a sorted queue not being due, and is needed in turn
when the assignments after the pass wake threads at `now`.  `FinalBlocksAlways` compares
two states: only `PopDelayed` takes a thread off the queue (`DelayedStay`), its head is due, and
the final time is due only in the last pass (`FinalIsLast`).

The theorems on times reduce to linear arithmetic in the high words times
`Word`.  `TimeCmpGTOneSided` is the exact extent of the error that `MCWord`
shows: for times below 2^32, or with the same high word, the order is right.

`QueuesFitAlways` needs nothing else to be inductive but the types: `added` and
the values in the symbol table are exactly the marks of what is queued.
`LastValueCountsAlways` needs that: the head of `timestep_tab` is marked, so what
`symtable_assign` assigns is a value.  It also needs that symbols share no
signals and that no block assigns a dumped signal, both part of `MemAssumption`,
and that `None` is no value (`NoneAssumption`).

**Events.**  `EventWait_proofs` proves that partial evaluation with changed bits decides
every event as the language does, for expression trees of any shape.  The hypothesis
`PlainDesign` has two conjuncts, each with a counterexample: a statement shared by
two threads, whose memory the first evaluation uses up (a hazard without a run; item 8
of section 2), and system functions, the bits of which stay set (`MCSysFunc`).
`EventsDecideRight` needs `AnyEdgesOfSignals` besides: the memory of an any-edge over a
computed value is written only when it fires (section 4).

The invariant `IInv` is a conjunction of named parts.  A *way* is the set of bits
between an expression and its root.

| Part | Why the others need it |
|---|---|
| `Types`, `Queues` | the queue holds the active threads once; what waits for the end of time 0 is delayed |
| `UpClosed` | above a set bit all bits are set, so that the walk of `sim_expr_changed` may stop there: what it leaves out is set already |
| `ChangedMeansQueued` | and at the root there is a thread that is awake, so that nobody has to be woken |
| `Caused` | a bit is set because of a signal or a bit below it; so the evaluation comes to an any-edge only if its signal has moved |
| `Stored` | a stored value, or the memory of an edge, that is not current has all of its way set |
| `MovedMarked` | the bit of an any-edge over a signal is the memory that the signal has moved |
| `Armed` | a thread that has waited was woken by a bit at its root, and its edges still remember the operands of that moment |
| `Forced` | `eval_t` is set below a root only by `sim_add_thread`, and only until the `always_comb` block begins |
| `NoMissedChange` | what a thread sleeps over is what it saw |

Two steps do the work.  A change of a signal (`ChangeKeeps`): what the loop of
`vsignal_propagate` over `sig->exps` sets is together exactly the ways of all uses,
though each walk stops early (`PropagatedIs`), and an expression whose value differs
has a use of that signal below it (`NowSame`).  An evaluation (`EvalKeeps`): the values
computed where bits are set, with stored ones elsewhere, are those of a whole evaluation
(`PartialIsWhole`); all bits of the tree go, and of the events that came true only the
root is left (`UsedUp`).  For `EventsDecideRight`, an edge that fires makes its root true
(`RootFires`), a root that is true has an edge that fires or a forced list below it
(`WhyRootFires`), and the edges that fire are those that have happened
(`EdgeDecides`).

The evaluations are recursive functions on trees.  That they exist is a lemma
(`RecursiveFunction`) on equations that look only below, over a relation without
endless descent; it is proved from `ShapeAssumption` with the induction spelled out as
the choice of a minimal element of a set (`TopDown`, `BottomUp`, `LeastNatural`), since a
rule of induction cannot be instantiated with an operator here.

**The memory.**  `MemoryIsImplemented` is a refinement proved step by step.  Its
hypothesis `DeferrableDesign` has four conjuncts, each the complement of a divergence
that TLC has found (section 4): a non-blocking assignment is executed once per timestep,
or a later execution overwrites the earlier one in its structure; a right-hand side
that is one signal does not change between execution and effect, because the structure
points to the signal's own vector; an index that was known does not become x again,
because the position is kept then; and in an ascending memory no index is one above
the last, which the check of the code lets pass.  A hypothesis that is not
needed would be one without a counterexample; each of these has one, and
`MCMemory` has TLC evaluate the hypothesis on its design.

The invariant `RefInv` adds to `ValueInv` (the queues, the table and the last values, as
above) `TypeOK`; `IndexKnown`, every signal has a value it may become, so that indices
stay known; `TableValues`, what is in the table is a value of its symbol;
`OncePerTimestep`, an assignment in the queue has been executed in this timestep, so
that it will not be executed again before it is performed.  Under the mapping,
`SetValue`, `Timestep`, `Finish` and the last value of a symbol are `Change`s or
stutters, `Execute` is an execution with the element and value of that moment or
nothing, `PerformNba` is the update by the head of `pending`, and the end of a phase is
the begin or the end of the updates.  Three facts carry the proof: the structure that a
step writes is not among those in the queue, the vectors that those in the queue point
at are not among those it changes, and positions of different elements differ.

**SigVector.**  `TogglesExact` is inductive only together with `HoldsLast`: a toggle
through x is found from XHOLD and MISC, which are refreshed only in elements that
differ from what is assigned.  The lemma on the assignment shows that an element
that is skipped has nothing to record, bit by bit, so that the proof never needs
the size of an element beyond that it is positive.  `MergeIsExact` follows the
merge file by file; its assumption `FileBits = UL_BITS` is the exact extent of the
error described in section 4.

`ElementsAreSound` follows the marks of each bit instead: a bit that changed is in an
element that was written, a bit marked as written was assigned, and the read marks are
all bits of the elements that were fetched.  `IInvElements` says so of the vector, of
each file, and of what the merge has joined so far; an element is a range of bits
(`ElementRange`), so that a mark in one of its bits never speaks of its neighbour, even
when they share a word.  A read marks the words of its first and its last bit, which for
a short element are all of it (`ReadMarks`, by the order of words, `WordsInOrder`);
`ShortElements` excludes the elements for which section 4 shows it to be wrong.

**FsmCov.**  The invariant says of every database there is (the one at hand, those
written, the one being merged) that its lists of states are without repetition, its
arcs are distinct pairs of positions inside them, and hits and exclusions are the
history's.  A lemma says that adding an arc keeps the positions of all others, which
is what a merge through values needs.  `SettledIsRecorded` needs besides what each
thread has seen last.  `StatsAreExact` compares two ways to count: `stat` is computed
from the table when a database is opened and adjusted by one with each exclusion.  Its
lemma (`StatsToggled`) splits the sets that are counted at the one arc that changes.

**CombCov.**  The only hypothesis is `TreesAssumption`, the shape of a tree.  What an
evaluation of the statement records must be as if the whole tree had been evaluated,
although `sim_expression` goes only where there are marks and `expression_operate`
does nothing for an operator whose operands have not changed.  `CoverageInv` has
these parts; those of the simulation (`ScoreInv`) hold while the phase is `score`.

| Part | Why the others need it |
|---|---|
| `MarksSound` | a mark is at the end of a path of marks from the root, and a `COND` marked on the left is marked on the right: so a climb may stop at a mark, and the evaluation finds all that is marked |
| `Current` | below an expression without marks nothing has changed, so that its stored value is that of a whole evaluation (`UnmarkedCurrent`) |
| `BitsSound` | once set, `eval_t` and `eval_f` tell the last value, and `true` and `false` have recorded it; before, the value is x |
| `Recorded` | the combination that the operands of an unmarked operator have now is recorded already: so skipping it loses none |
| `RootCurrent` | the root of a continuous assignment, which is operated only if its expression changed, has the value of that expression |
| `Exact`, `FileExact` | the combinations and truth recorded, here and in the saved file, are those of the history |

`ChangedMarks` is the step of a change: whatever leaves it comes from, these leaves are
marked, the marks are sound again and none is taken back.  For an evaluation,
`ExecuteExact` shows that the bits that operands left, visited or not, are those of
their values, so that `EvalNN` of an operator that is operated is the combination of this
evaluation, and that of one that is skipped was recorded before.  Two files are merged bit
by bit (`UnionExact`).  The values are recursive functions on the tree, the existence of
which is a lemma as in `EventWait_proofs`.  One thing was found on the way: `UnmarkedCurrent`
said of a `COND_SEL` what it says of other expressions, which is false in `a ? b : ~b`,
where a change of `a` marks only the `COND` above it; its premise now has that mark, and
`comb_coverage` that tree.

`StatsAlwaysExact` is about `exclude.c`, which does not count again after an exclusion but
adds and subtracts what the subtree of the expression has.  A report counts by a walk
that stops below what is excluded.  `TreeNumbers` shows that both walks are
cardinalities: hits, exclusions and total are the numbers of points of the expressions
that are in, out, and all of them, so that excluding the expressions `T` when `O` are out
already moves exactly the points of `T \ O` (`Splits`).  `StatInv` says that the numbers shown
are those of a report, and that an excluded line has an excluded root, here and in the saved
file: since the numbers of the line follow the root, a line could otherwise be counted twice.

**ExprOp.**  The theorem stands in `SigVector_proofs`, over an instance of the module with
variables of its own; `ShapesGiven` is `ShapeAssumption`.  `EvaluationInv` has two parts.  Bit by
bit, the planes EVAL_A to EVAL_D are the combinations in the history (`EvalsAre`): the
macros write whole elements, so what has to be shown is that every bit of the value lies in
the elements they write (`RoomHolds`), and that a digit is 0, 1 or unknown as the planes
say (`DigitOf`), whatever the operator computed.  `TruthOf` is inductive only with the fact that
a value that was once set is in the history: an evaluation that changes nothing leaves
`true` and `false` alone, and this loses nothing only because the same value has recorded
them before.  The proof showed that the property holds of all evaluations the code
defines, not only of the operands on which the value is right.

**RaceCheck.**  Removal and check have an invariant each.  `RemovalInv` says that whatever
calls something that was removed is on the list, and that everything on the list or
removed has a reason.  Its hypothesis `CallsFound` (every call is found outside of false
branches, and nothing calls itself) is what `MissedCalls` in section 4 shows to be needed; TLC
has found it true of all designs of the run.

The hypothesis of `RacesAlwaysExact`, `Checkable`, has six conjuncts.  TLC evaluated it on the
16000 designs of the run, all of which satisfy it, and found for each conjunct but the last
a design that violates only this one and `RacesExact`, among `MissedRaces` and `FalseRaces`
of section 4 and, for `TwoElements`, among those of the run with `UL_BITS = 1`:

| Hypothesis | The code that needs it |
|---|---|
| `OneOwner`, no two blocks have a task or named block in common | `race_get_head_statement` returns the first block that contains an expression (`race.c:184-228`) |
| `BlocksInOrder`, expressions of a signal are bound block by block | `sig_stmt` is the first in the order of binding, not of blocks (551-566) |
| `SelectsMarked`, the bits marked are those assigned | the position of a bit select is compared with the width 1 (597), indexed selects mark one bit too many (622-637) |
| `TwoElements`, an assignment spans two elements | `vector_set_assigned` keeps what it found in the last two only (`vector.c:1522`) |
| `LoopsBehind`, a loop stands behind a blocking assignment | the loop visited last sets `bassign` anew (297) |
| `NoRecursion` | the walk of a block through its calls would not end (131-174) |

`RacesInv` follows the three loops: the bits in `misc` are those of the expressions looked at
(`MarksInv`), `sig_stmt` is the first block that assigns the signal (`FirstInv`), two blocks that
assign a common bit were found when the second was looked at (`PairsInv`), a driven input was
(`PortInv`); blocks that mix assignments were found before (`TypesInv`), and nothing is
condemned without a reason (`ReasonInv`) or listed twice (`ListInv`).  The work is in what
`Exps`, `Flat` and `HeadOf` return: the expressions of a signal are those of the units
(`ExpsAre`), a unit is in `Flat` of a block exactly if the block reaches it (`FlatIs`), and by
`OneOwner` that is the block `HeadOf` finds.

**Rank.**  `IInv` says that `comp_cdds` is a permutation of the files, where the loops
are in it, that the counters of the sort are those of the files it has ranked, that of
the ranked files that hit a point those that were worth something are enough, that the
best so far is the best of those looked at, and that what is ranked is in order and
nothing left adds more.  The last is why `DecreasingGain` holds: what a file adds only
shrinks.  `CountersAreExact` adds exact counters in the steps before the sort, under
`IndexFits` (no index of a point reaches `IndexSize`); without it the invariant of the
sort still holds, since the sort counts afresh.  Cardinalities are handled by the facts
of `FiniteSetTheorems`.

Only model-checked: `FuncCall`, `ValuesExact` of `ExprOp`, and the properties of section 4
that do not hold.  `CallsSeeArguments` and `AssignmentsExact` say that a function returns
what its text means; for every function that is an induction over its calls, and the
trees and lists of arguments are walked by `RECURSIVE` operators.  `CallerKeepsVariables`
needs of the same trees why a changed bit is set, since a frame is put aside only where
one leads to an argument.  `ValuesExact` compares
sets of bits with numbers, by sums of powers of 2 and by the folds of `Vec`, on which the
provers have no facts.  Liveness under fairness (`TimestepsEnd`, `CallsReturn`) and ENABLED
are outside of what TLAPS proves here.

## 6. Not modelled, and why

* **Parsing, elaboration, text of the database and of reports, generator, GUI**:
  sequential code whose correctness is about text and tables; a model would be as
  long as the code.  What the models rely on is stated as assumptions of the modules.
* **Dumpfile formats**: input parsing.  How a reader drives the simulator is in
  `SimSched` (`Timestep`, `FinalTimestep`) and `NonBlock` (`SetValue`).
* **Real values**, conversions of vectors to text and to 64-bit numbers, exponents,
  selects and system functions as operators.
* **Automatic tasks**: the frame of one is kept by its thread; `FuncCall` has
  functions.  Variables of an automatic task called by two threads are shared.
* **More dimensions, part selects, concatenations** on the left of a non-blocking
  assignment: `NonBlock` has single elements of one dimension.
* **Named events, `release`/`force`, OVL assertions**: not part of the core loop.
* **Bitwise and event coverage**, numbers of whole instances, toggle and assertion
  exclusions; state machines of inlined coverage.
* **Trees of databases with different tops** (`merge.c`), options and reading of
  points of the rank command (`rank_gather_*`), more than 65535 files.
* **Two models together**: a thread's frame put aside while it is delayed, two threads
  at one statement sharing the memory of its edges (`expr.c:4464`), and
  non-blocking assignments of delays that `sim_simulate` serves within one timestep of
  the dumpfile (`sim.c:1122`) are between modules and await their composition.

Hazards that no property covers yet are in `PROJECT.json` with the reason.
