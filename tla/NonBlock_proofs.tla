-------------------------- MODULE NonBlock_proofs --------------------------
(***************************************************************************)
(* Theorems about the end of a timestep, for every design with a memory.   *)
(***************************************************************************)
EXTENDS NonBlock, FiniteSetTheorems, SequenceTheorems, TLAPS

(* Adding an element a queue does not hold yet, and removing its head.     *)
LEMMA AppendDistinct ==
  ASSUME NEW T, NEW q \in Seq(T), NEW e \in T, e \notin Range(q), Distinct(q)
  PROVE  /\ Append(q, e) \in Seq(T)
         /\ Range(Append(q, e)) = Range(q) \cup {e}
         /\ Distinct(Append(q, e))
<1> DEFINE a == Append(q, e)
<1>1. /\ a \in Seq(T) /\ Len(a) = Len(q) + 1
      /\ \A i \in 1..Len(q) : a[i] = q[i]
      /\ a[Len(q) + 1] = e
  BY AppendProperties
<1>2. DOMAIN a = 1..(Len(q) + 1) /\ DOMAIN q = 1..Len(q) /\ Len(q) \in Nat
  BY <1>1
<1>3. \A i \in DOMAIN a : i \in DOMAIN q \/ i = Len(q) + 1
  BY <1>2
<1> HIDE DEF a
<1>4. Range(a) = Range(q) \cup {e}
  BY <1>1, <1>2, <1>3 DEF Range
<1>5. \A i \in DOMAIN q : a[i] # e
  BY <1>1, <1>2 DEF Range
<1>6. Distinct(a)
  BY <1>1, <1>2, <1>3, <1>5 DEF Distinct
<1> QED BY <1>1, <1>4, <1>6 DEF a

LEMMA TailDistinct ==
  ASSUME NEW T, NEW q \in Seq(T), q # <<>>, Distinct(q)
  PROVE  /\ Tail(q) \in Seq(T) /\ Head(q) \in Range(q)
         /\ Range(Tail(q)) = Range(q) \ {Head(q)}
         /\ Distinct(Tail(q))
<1> DEFINE t == Tail(q)
<1>1. /\ t \in Seq(T) /\ Len(t) = Len(q) - 1
      /\ \A i \in 1..Len(t) : t[i] = q[i + 1]
      /\ Head(q) = q[1]
  BY HeadTailProperties
<1>2. DOMAIN t = 1..(Len(q) - 1) /\ DOMAIN q = 1..Len(q) /\ Len(q) \in Nat \ {0}
  BY <1>1
<1> HIDE DEF t
<1>3. \A i \in DOMAIN t : i + 1 \in DOMAIN q /\ t[i] = q[i + 1] /\ i + 1 # 1
  BY <1>1, <1>2
<1>4. \A i \in DOMAIN q : i # 1 => i - 1 \in DOMAIN t /\ t[i - 1] = q[i]
  BY <1>1, <1>2
<1>5. 1 \in DOMAIN q
  BY <1>2
<1>6. Head(q) \in Range(q)
  BY <1>1, <1>5 DEF Range
<1>7. Range(t) = Range(q) \ {Head(q)}
  <2>1. ASSUME NEW i \in DOMAIN t
        PROVE  t[i] \in Range(q) /\ t[i] # Head(q)
    BY <1>1, <1>3, <1>5 DEF Range, Distinct
  <2>2. ASSUME NEW i \in DOMAIN q, q[i] # Head(q)
        PROVE  q[i] \in Range(t)
    BY <1>1, <1>4, <2>2 DEF Range
  <2> QED BY <2>1, <2>2 DEF Range
<1>8. Distinct(t)
  BY <1>2, <1>3 DEF Distinct
<1> QED BY <1>1, <1>6, <1>7, <1>8 DEF t

-----------------------------------------------------------------------------
(* What is queued and what is marked *)

(* The part of the types that the marks need. *)
QueueTypes ==
  /\ added \subseteq Stmt /\ queue \in Seq(Stmt)
  /\ postsim \in Seq(Symbol) /\ DOMAIN table = Symbol

QueueInv == QueueTypes /\ QueuesFit

LEMMA InitQueueInv == Init => QueueInv
<1> SUFFICES ASSUME Init PROVE QueueInv
  OBVIOUS
<1>1. queue = <<>> /\ added = {} /\ postsim = <<>> /\ table = [y \in Symbol |-> None]
  BY DEF Init
<1>2. QueueTypes
  BY <1>1 DEF QueueTypes
<1>3. Range(<<>>) = {} /\ Distinct(<<>>)
  BY DEF Range, Distinct
<1>4. QueuesFit
  BY <1>1, <1>3 DEF QueuesFit
<1> QED BY <1>2, <1>4 DEF QueueInv

LEMMA SetValueQueueInv ==
  ASSUME QueueInv, NEW y \in Symbol, NEW v \in Int, SetValue(y, v)
  PROVE  QueueInv'
<1>0. UNCHANGED <<queue, added>> /\ table' = [table EXCEPT ![y] = v] /\ postsim' = Queued(y)
  BY DEF SetValue, Kept
<1>1. QueueTypes /\ QueuesFit /\ v # None
  BY NoneAssumption DEF QueueInv
<1> DEFINE marked == {x \in Symbol : table[x] # None}
<1>2. DOMAIN table' = Symbol /\ {x \in Symbol : table'[x] # None} = marked \cup {y}
  BY <1>0, <1>1 DEF QueueTypes
<1>3. CASE table[y] = None
  <2>1. postsim' = Append(postsim, y) /\ y \notin marked
    BY <1>0, <1>3 DEF Queued
  <2>2. postsim \in Seq(Symbol) /\ Range(postsim) = marked /\ Distinct(postsim)
    BY <1>1 DEF QueueTypes, QueuesFit
  <2>3. postsim' \in Seq(Symbol) /\ Range(postsim') = marked \cup {y} /\ Distinct(postsim')
    BY <2>1, <2>2, AppendDistinct
  <2> QED BY <1>0, <1>1, <1>2, <2>3 DEF QueueInv, QueueTypes, QueuesFit, Distinct
<1>4. CASE table[y] # None
  <2>1. postsim' = postsim /\ y \in marked
    BY <1>0, <1>4 DEF Queued
  <2> QED BY <1>0, <1>1, <1>2, <2>1 DEF QueueInv, QueueTypes, QueuesFit, Distinct
<1> QED BY <1>3, <1>4

LEMMA AssignSymbolQueueInv ==
  ASSUME QueueInv, AssignSymbol
  PROVE  QueueInv'
<1> DEFINE h == Head(postsim)
           marked == {x \in Symbol : table[x] # None}
<1>0. /\ UNCHANGED <<queue, added>> /\ postsim # <<>>
      /\ table' = [table EXCEPT ![h] = None] /\ postsim' = Tail(postsim)
  BY DEF AssignSymbol
<1>1. QueueTypes /\ QueuesFit
  BY DEF QueueInv
<1>2. /\ Tail(postsim) \in Seq(Symbol) /\ h \in marked
      /\ Range(Tail(postsim)) = marked \ {h} /\ Distinct(Tail(postsim))
  BY <1>0, <1>1, TailDistinct DEF QueueTypes, QueuesFit
<1>3. DOMAIN table' = Symbol /\ {x \in Symbol : table'[x] # None} = marked \ {h}
  BY <1>0, <1>1 DEF QueueTypes
<1> QED BY <1>0, <1>1, <1>2, <1>3 DEF QueueInv, QueueTypes, QueuesFit, Distinct

LEMMA ExecuteQueueInv ==
  ASSUME QueueInv, NEW s \in Stmt, Execute(s)
  PROVE  QueueInv'
<1>0. /\ UNCHANGED <<table, postsim>>
      /\ \/ UNCHANGED <<queue, added>>
         \/ queue' = Enqueued(s) /\ added' = added \cup {s}
  BY DEF Execute
<1>1. QueueTypes /\ QueuesFit
  BY DEF QueueInv
<1>2. CASE queue' = queue /\ added' = added
  BY <1>0, <1>1, <1>2 DEF QueueInv, QueueTypes, QueuesFit, Distinct
<1>3. CASE queue' = Append(queue, s) /\ added' = added \cup {s} /\ s \notin added
  <2>1. queue' \in Seq(Stmt) /\ Range(queue') = added' /\ Distinct(queue')
    BY <1>1, <1>3, AppendDistinct DEF QueueTypes, QueuesFit
  <2> QED BY <1>0, <1>1, <1>3, <2>1 DEF QueueInv, QueueTypes, QueuesFit, Distinct
<1> QED BY <1>0, <1>2, <1>3 DEF Enqueued

LEMMA PerformNbaQueueInv ==
  ASSUME QueueInv, PerformNba
  PROVE  QueueInv'
<1>0. /\ UNCHANGED <<table, postsim>> /\ queue # <<>>
      /\ queue' = Tail(queue) /\ added' = added \ {Head(queue)}
  BY DEF PerformNba
<1>1. QueueTypes /\ QueuesFit
  BY DEF QueueInv
<1>2. queue' \in Seq(Stmt) /\ Range(queue') = added' /\ Distinct(queue')
  BY <1>0, <1>1, TailDistinct DEF QueueTypes, QueuesFit
<1> QED BY <1>0, <1>1, <1>2 DEF QueueInv, QueueTypes, QueuesFit, Distinct

(* The values that SetValue and SetLocal take. *)
LEMMA InputsAreValues ==
  /\ \A y \in Symbol : UNION {ValuesOf[s] : s \in SignalsOf[y]} \subseteq Int
  /\ \A s \in Symbol : SignalsOf[s] \subseteq Signal
  BY MemAssumption DEF MemAssumption

LEMMA NextQueueInv == QueueInv /\ [Next]_vars => QueueInv'
<1> SUFFICES ASSUME QueueInv, [Next]_vars PROVE QueueInv'
  OBVIOUS
<1>1. ASSUME NEW y \in Symbol,
             NEW v \in UNION {ValuesOf[s] : s \in SignalsOf[y]}, SetValue(y, v)
      PROVE  QueueInv'
  BY <1>1, InputsAreValues, SetValueQueueInv
<1>2. CASE AssignSymbol
  BY <1>2, AssignSymbolQueueInv
<1>3. ASSUME NEW s \in Stmt, Execute(s)
      PROVE  QueueInv'
  BY <1>3, ExecuteQueueInv
<1>4. CASE PerformNba
  BY <1>4, PerformNbaQueueInv
<1>5. CASE UNCHANGED <<queue, added, table, postsim>>
  BY <1>5 DEF QueueInv, QueueTypes, QueuesFit, Distinct
<1>6. Timestep \/ Finish \/ EndOfPhase \/ UNCHANGED vars
        => UNCHANGED <<queue, added, table, postsim>>
  BY DEF Timestep, Finish, EndOfPhase, vars
<1>7. \A sig, v : SetLocal(sig, v) => UNCHANGED <<queue, added, table, postsim>>
  BY DEF SetLocal
<1> QED BY <1>1, <1>2, <1>3, <1>4, <1>5, <1>6, <1>7 DEF Next

(* Neither nba_queue nor timestep_tab ever holds an entry twice, and both   *)
(* hold exactly what is marked: nba_queue[nba_queue_size++] (sim.c:1226)    *)
(* and timestep_tab[postsim_size++] stay within what was allocated, also    *)
(* when $finish has cut a timestep short.                                   *)
THEOREM QueuesFitAlways == Spec => []QueuesFit
<1>1. Spec => []QueueInv
  BY InitQueueInv, NextQueueInv, PTL DEF Spec
<1>2. QueueInv => QueuesFit
  BY DEF QueueInv
<1> QED BY <1>1, <1>2, PTL

-----------------------------------------------------------------------------
(* What becomes of the values in the dumpfile *)

ValueInv ==
  /\ QueueInv /\ LastValueCounts
  /\ DOMAIN val = Signal /\ DOMAIN dumped = Symbol

LEMMA InitValueInv == Init => ValueInv
<1>1. Init => LastValueCounts /\ DOMAIN val = Signal /\ DOMAIN dumped = Symbol
  BY DEF Init, LastValueCounts
<1> QED BY <1>1, InitQueueInv DEF ValueInv

LEMMA SetValueCounts ==
  ASSUME ValueInv, NEW y \in Symbol, NEW v \in Int, SetValue(y, v)
  PROVE  LastValueCounts' /\ DOMAIN val' = Signal /\ DOMAIN dumped' = Symbol
<1>1. /\ table' = [table EXCEPT ![y] = v] /\ dumped' = [dumped EXCEPT ![y] = v]
      /\ val' = val
  BY DEF SetValue, Kept
<1>2. /\ DOMAIN table = Symbol /\ DOMAIN dumped = Symbol /\ DOMAIN val = Signal
      /\ LastValueCounts
  BY DEF ValueInv, QueueInv, QueueTypes
<1>3. table'[y] = v /\ dumped'[y] = v /\ v # None
  BY <1>1, <1>2, NoneAssumption
<1>4. \A x \in Symbol \ {y} : table'[x] = table[x] /\ dumped'[x] = dumped[x]
  BY <1>1, <1>2
<1> QED BY <1>1, <1>2, <1>3, <1>4 DEF LastValueCounts

(* The head of postsim is marked, so that what is assigned is a value, and  *)
(* the one that counts; symbols share no signals.                           *)
LEMMA AssignSymbolCounts ==
  ASSUME ValueInv, AssignSymbol
  PROVE  LastValueCounts' /\ DOMAIN val' = Signal /\ DOMAIN dumped' = Symbol
<1> DEFINE h == Head(postsim)
<1>1. /\ table' = [table EXCEPT ![h] = None] /\ dumped' = dumped
      /\ val' = [s \in Signal |-> IF s \in SignalsOf[h] THEN table[h] ELSE val[s]]
      /\ postsim # <<>>
  BY DEF AssignSymbol
<1>2. /\ DOMAIN table = Symbol /\ DOMAIN dumped = Symbol /\ LastValueCounts
  BY DEF ValueInv, QueueInv, QueueTypes
<1>3. h \in Symbol /\ table[h] # None
  <2>1. /\ postsim \in Seq(Symbol) /\ Distinct(postsim)
        /\ Range(postsim) = {y \in Symbol : table[y] # None}
    BY DEF ValueInv, QueueInv, QueueTypes, QueuesFit
  <2>2. h \in Range(postsim)
    BY <1>1, <2>1, TailDistinct
  <2> QED BY <2>1, <2>2
<1> HIDE DEF h
<1>4. \A y \in Symbol \ {h} : SignalsOf[y] \cap SignalsOf[h] = {} /\ table'[y] = table[y]
  BY <1>1, <1>2, <1>3, MemAssumption DEF MemAssumption
<1>5. \A y \in Symbol : SignalsOf[y] \subseteq Signal
  BY InputsAreValues
<1>6. ASSUME NEW y \in Symbol, dumped'[y] # None, y # h
      PROVE  IF table'[y] = None THEN \A s \in SignalsOf[y] : val'[s] = dumped'[y]
                                 ELSE table'[y] = dumped'[y]
  BY <1>1, <1>2, <1>4, <1>5, <1>6 DEF LastValueCounts
<1>7. ASSUME dumped'[h] # None
      PROVE  table'[h] = None /\ \A s \in SignalsOf[h] : val'[s] = dumped'[h]
  BY <1>1, <1>2, <1>3, <1>5, <1>7 DEF LastValueCounts
<1> QED BY <1>1, <1>2, <1>6, <1>7 DEF LastValueCounts

LEMMA SetLocalCounts ==
  ASSUME ValueInv, NEW sig \in Local, NEW v, SetLocal(sig, v)
  PROVE  LastValueCounts' /\ DOMAIN val' = Signal /\ DOMAIN dumped' = Symbol
<1>1. val' = [val EXCEPT ![sig] = v] /\ UNCHANGED <<table, dumped>>
  BY DEF SetLocal
<1>2. DOMAIN val = Signal /\ DOMAIN dumped = Symbol /\ LastValueCounts
  BY DEF ValueInv
<1>3. \A y \in Symbol : \A s \in SignalsOf[y] : s # sig /\ s \in Signal
  BY MemAssumption, InputsAreValues DEF MemAssumption
<1>4. \A y \in Symbol : \A s \in SignalsOf[y] : val'[s] = val[s]
  BY <1>1, <1>2, <1>3
<1> QED BY <1>1, <1>2, <1>4 DEF LastValueCounts

LEMMA NextValueInv == ValueInv /\ [Next]_vars => ValueInv'
<1> SUFFICES ASSUME ValueInv, [Next]_vars PROVE ValueInv'
  OBVIOUS
<1>0. QueueInv'
  BY NextQueueInv DEF ValueInv
<1> DEFINE Counts == LastValueCounts /\ DOMAIN val = Signal /\ DOMAIN dumped = Symbol
<1>1. ASSUME NEW y \in Symbol,
             NEW v \in UNION {ValuesOf[s] : s \in SignalsOf[y]}, SetValue(y, v)
      PROVE  Counts'
  BY <1>1, InputsAreValues, SetValueCounts
<1>2. AssignSymbol => Counts'
  BY AssignSymbolCounts
<1>3. ASSUME NEW sig \in Local, NEW v, SetLocal(sig, v)
      PROVE  Counts'
  BY <1>3, SetLocalCounts
<1>4. UNCHANGED <<val, table, dumped>> => Counts'
  BY DEF ValueInv, LastValueCounts
<1>5. Timestep \/ Finish \/ PerformNba \/ EndOfPhase \/ UNCHANGED vars
        => UNCHANGED <<val, table, dumped>>
  BY DEF Timestep, Finish, PerformNba, EndOfPhase, vars
<1>6. \A s : Execute(s) => UNCHANGED <<val, table, dumped>>
  BY DEF Execute
<1>7. Counts'
  BY <1>1, <1>2, <1>3, <1>4, <1>5, <1>6 DEF Next
<1> QED BY <1>0, <1>7 DEF ValueInv

(* Whatever the order in which the dumpfile gives values and timesteps are  *)
(* run, the last value of a symbol is never lost: it is stored in the table *)
(* until symtable_assign has put it in every signal of the symbol.          *)
THEOREM LastValueCountsAlways == Spec => []LastValueCounts
<1>1. Spec => []ValueInv
  BY InitValueInv, NextValueInv, PTL DEF Spec
<1>2. ValueInv => LastValueCounts
  BY DEF ValueInv
<1> QED BY <1>1, <1>2, PTL

-----------------------------------------------------------------------------
(* Positions of the elements *)

LEMMA Spaced ==
  ASSUME NEW a \in Int, NEW b \in Int, NEW w \in Nat \ {0}, a < b
  PROVE  a * w + w <= b * w
<1>1. b - (a + 1) \in Nat
  OBVIOUS
<1>2. (b - (a + 1)) * w >= 0
  BY <1>1
<1>3. (b - (a + 1)) * w = b * w - a * w - w
  OBVIOUS
<1>4. a * w \in Int /\ b * w \in Int
  OBVIOUS
<1> QED BY <1>2, <1>3, <1>4

LEMMA Sizes ==
  /\ Size \in Nat \ {0} /\ Width \in Nat \ {0} /\ FirstIndex \in Nat /\ Descending \in BOOLEAN
  /\ Unknown \in Int
  BY MemAssumption DEF MemAssumption

(* Each position of the vector is that of one element. *)
LEMMA Positions ==
  /\ \A e \in Element : Position(e) \in Offset /\ Position(e) \in Nat
  /\ \A e, f \in Element : Position(e) = Position(f) => e = f
  /\ \A o \in Offset : \E e \in Element : Position(e) = o
  /\ \A e \in Element : ElementAt(Position(e)) = e
<1> USE Sizes
<1> DEFINE place(e) == IF Descending THEN e ELSE Size - 1 - e
<1>1. ASSUME NEW e \in Element
      PROVE  place(e) \in Element /\ place(place(e)) = e /\ Position(e) = place(e) * Width
  BY DEF Element, Position
<1> HIDE DEF place
<1>2. ASSUME NEW e \in Element, NEW f \in Element, e * Width = f * Width
      PROVE  e = f
  <2>1. e \in Int /\ f \in Int
    BY DEF Element
  <2>2. ~(e < f)
    <3> SUFFICES ASSUME e < f PROVE FALSE
      OBVIOUS
    <3>1. e * Width + Width <= f * Width
      BY <2>1, Spaced
    <3>2. e * Width \in Int
      BY <2>1
    <3> QED BY <1>2, <3>1, <3>2
  <2>3. ~(f < e)
    <3> SUFFICES ASSUME f < e PROVE FALSE
      OBVIOUS
    <3>1. f * Width + Width <= e * Width
      BY <2>1, Spaced
    <3>2. f * Width \in Int
      BY <2>1
    <3> QED BY <1>2, <3>1, <3>2
  <2> QED BY <2>1, <2>2, <2>3
<1>3. ASSUME NEW e \in Element, NEW f \in Element, Position(e) = Position(f)
      PROVE  e = f
  <2>1. place(e) = place(f)
    BY <1>1, <1>2, <1>3
  <2> QED BY <1>1, <2>1
<1>4. ASSUME NEW e \in Element PROVE Position(e) \in Offset /\ Position(e) \in Nat
  <2>1. place(e) \in Element /\ place(e) \in Nat
    BY <1>1 DEF Element
  <2> QED BY <1>1, <2>1 DEF Offset
<1>5. ASSUME NEW o \in Offset PROVE \E e \in Element : Position(e) = o
  <2>1. PICK f \in Element : o = f * Width
    BY DEF Offset
  <2>2. place(f) \in Element /\ Position(place(f)) = f * Width
    BY <1>1
  <2> QED BY <2>1, <2>2
<1>6. ASSUME NEW e \in Element PROVE ElementAt(Position(e)) = e
  <2>1. \A f \in Element : Position(f) = Position(e) <=> f = e
    BY <1>3
  <2> QED BY <2>1 DEF ElementAt
<1> QED BY <1>3, <1>4, <1>5, <1>6

(* Where the code looks for an element is where the memory has it. *)
LEMMA SelectsElement ==
  ASSUME NEW i \in Int, NEW stale \in Int, i # Unknown, Descending \/ i # FirstIndex + Size
  PROVE  SelectedLsb(i, stale) = IF i - FirstIndex \in Element THEN Position(i - FirstIndex) ELSE -1
<1> USE Sizes
<1> DEFINE e == i - FirstIndex
           p == e * Width
<1>1. e \in Int /\ p \in Int /\ Size * Width \in Int /\ (Descending \/ e # Size)
  OBVIOUS
<1> HIDE DEF e
<1>2. SelectedLsb(i, stale) =
        IF p < 0 THEN -1
        ELSE IF Descending THEN IF p >= Size * Width THEN -1 ELSE p
        ELSE IF p > Size * Width THEN -1 ELSE Size * Width - (p + Width)
  BY DEF SelectedLsb, VWidth, e
<1>3. CASE e < 0
  <2>1. p + Width <= 0 * Width
    BY <1>1, <1>3, Spaced
  <2>2. p < 0 /\ e \notin Element
    BY <1>1, <1>3, <2>1 DEF Element
  <2> QED BY <1>2, <2>2 DEF e
<1>4. CASE e >= Size /\ Descending
  <2>1. p >= Size * Width
    <3>1. CASE e = Size
      BY <1>1, <3>1
    <3>2. CASE Size < e
      <4>1. Size * Width + Width <= p
        BY <1>1, <3>2, Spaced
      <4> QED BY <1>1, <4>1
    <3> QED BY <1>1, <1>4, <3>1, <3>2
  <2>2. e \notin Element
    BY <1>4 DEF Element
  <2> QED BY <1>1, <1>2, <1>4, <2>1, <2>2 DEF e
<1>5. CASE e >= Size /\ ~Descending
  <2>1. Size * Width + Width <= p
    BY <1>1, <1>5, Spaced
  <2>2. p > Size * Width /\ e \notin Element
    BY <1>1, <1>5, <2>1 DEF Element
  <2> QED BY <1>1, <1>2, <1>5, <2>2 DEF e
<1>6. CASE e >= 0 /\ e < Size
  <2>1. e \in Element /\ p >= 0 /\ p + Width <= Size * Width
    <3>1. p + Width <= Size * Width
      BY <1>1, <1>6, Spaced
    <3> QED BY <1>1, <1>6, <3>1 DEF Element
  <2>2. ~(p < 0) /\ ~(p >= Size * Width) /\ ~(p > Size * Width)
    BY <1>1, <2>1
  <2>3. (Size - 1 - e) * Width = Size * Width - (p + Width)
    BY <1>1
  <2> HIDE DEF p
  <2>4. SelectedLsb(i, stale) = IF Descending THEN p ELSE Size * Width - (p + Width)
    BY <1>2, <2>2
  <2> QED BY <2>1, <2>3, <2>4 DEF Position, p, e
<1> QED BY <1>1, <1>3, <1>4, <1>5, <1>6

-----------------------------------------------------------------------------
(* What the refinement needs to know of the state *)

(* The position kept of an index is only used while none is known. *)
IndexKnown ==
  \A s \in Stmt :
    IF val[Index[s]] = Unknown THEN currLsb[s] = -1 ELSE val[Index[s]] \in Becomes(Index[s])

TableValues ==
  \A y \in Symbol : table[y] # None => table[y] \in UNION {ValuesOf[t] : t \in SignalsOf[y]}

(* What is queued has been executed in this timestep, or $finish has come. *)
OncePerTimestep ==
  /\ phase = "run" => simulate /\ \A s \in added : runs[s] >= 1
  /\ phase = "values" /\ simulate => queue = <<>>

StateKnown == TypeOK /\ IndexKnown /\ TableValues /\ OncePerTimestep

RefInv == ValueInv /\ StateKnown

LEMMA ValuesKnown ==
  /\ Values \subseteq Int /\ Unknown \in Values
  /\ \A s \in Signal : ValuesOf[s] \subseteq Values
  /\ \A y \in Symbol : UNION {ValuesOf[t] : t \in SignalsOf[y]} \subseteq Values
  /\ \A s \in Local : s \in Signal
<1>1. \A y \in Symbol : SignalsOf[y] \subseteq Signal
  BY InputsAreValues
<1> QED BY <1>1, MemAssumption DEF MemAssumption, Values

(* A value of the dumpfile or of a block is one the signal may become. *)
LEMMA GivenValues ==
  /\ \A sig \in Local : ValuesOf[sig] \subseteq Becomes(sig)
  /\ \A y \in Symbol : \A sig \in SignalsOf[y] :
       UNION {ValuesOf[t] : t \in SignalsOf[y]} \subseteq Becomes(sig)
  BY DEF Becomes

LEMMA InitStateKnown == Init => StateKnown
<1> SUFFICES ASSUME Init PROVE StateKnown
  OBVIOUS
<1>1. 0 \in Element /\ 0 * Width = 0
  BY Sizes DEF Element
<1>2. 0 \in Offset
  BY <1>1 DEF Offset
<1>3. TypeOK
  BY <1>2, ValuesKnown, Sizes DEF Init, TypeOK
<1>4. IndexKnown
  BY MemAssumption DEF MemAssumption, Init, IndexKnown
<1>5. TableValues /\ OncePerTimestep
  BY DEF Init, TableValues, OncePerTimestep
<1> QED BY <1>3, <1>4, <1>5 DEF StateKnown

LEMMA SetValueKnown ==
  ASSUME RefInv, NEW y \in Symbol, NEW v \in UNION {ValuesOf[s] : s \in SignalsOf[y]}, SetValue(y, v)
  PROVE  StateKnown'
<1>1. /\ table' = [table EXCEPT ![y] = v] /\ dumped' = [dumped EXCEPT ![y] = v]
      /\ postsim' = Queued(y) /\ phase = "values"
      /\ UNCHANGED <<val, vec, currLsb, rhs, lhsLsb, added, queue, runs, simulate, phase>>
  BY DEF SetValue, Kept
<1>2. TypeOK /\ IndexKnown /\ TableValues /\ OncePerTimestep
  BY DEF RefInv, StateKnown
<1>3. v \in Values
  BY ValuesKnown
<1>4. postsim' \in Seq(Symbol)
  BY <1>1, <1>2 DEF Queued, TypeOK
<1>5. TypeOK'
  <2>1. table' \in [Symbol -> Values \cup {None}] /\ dumped' \in [Symbol -> Values \cup {None}]
    BY <1>1, <1>2, <1>3 DEF TypeOK
  <2> QED BY <1>1, <1>2, <1>4, <2>1 DEF TypeOK
<1>6. TableValues'
  <2>1. table' \in [Symbol -> Values \cup {None}] /\ DOMAIN table = Symbol
    BY <1>2, <1>5 DEF TypeOK
  <2> QED BY <1>1, <1>2, <2>1 DEF TableValues
<1>7. IndexKnown' /\ OncePerTimestep'
  BY <1>1, <1>2 DEF IndexKnown, OncePerTimestep
<1> QED BY <1>5, <1>6, <1>7 DEF StateKnown

(* The head of postsim is a symbol with a value, which its signals take. *)
LEMMA HeadHasValue ==
  ASSUME RefInv, postsim # <<>>
  PROVE  /\ Head(postsim) \in Symbol /\ Tail(postsim) \in Seq(Symbol)
         /\ table[Head(postsim)] \in UNION {ValuesOf[t] : t \in SignalsOf[Head(postsim)]}
<1>1. /\ postsim \in Seq(Symbol) /\ Distinct(postsim)
      /\ Range(postsim) = {y \in Symbol : table[y] # None} /\ TableValues
  BY DEF RefInv, ValueInv, QueueInv, QueueTypes, QueuesFit, StateKnown
<1>2. Head(postsim) \in Range(postsim) /\ Tail(postsim) \in Seq(Symbol)
  BY <1>1, TailDistinct
<1> QED BY <1>1, <1>2 DEF TableValues

LEMMA AssignSymbolKnown ==
  ASSUME RefInv, DeferrableDesign, AssignSymbol
  PROVE  StateKnown'
<1> DEFINE h == Head(postsim)
           v == table[h]
<1>1. /\ val' = [s \in Signal |-> IF s \in SignalsOf[h] THEN v ELSE val[s]]
      /\ table' = [table EXCEPT ![h] = None] /\ postsim' = Tail(postsim)
      /\ postsim # <<>> /\ phase = "assign"
      /\ UNCHANGED <<vec, currLsb, rhs, lhsLsb, added, queue, runs, simulate, phase, dumped>>
  BY DEF AssignSymbol
<1>2. TypeOK /\ IndexKnown /\ TableValues /\ OncePerTimestep
  BY DEF RefInv, StateKnown
<1>3. h \in Symbol /\ postsim' \in Seq(Symbol) /\ v \in UNION {ValuesOf[t] : t \in SignalsOf[h]}
  BY <1>1, HeadHasValue
<1> HIDE DEF h, v
<1>4. v \in Values /\ \A sig \in SignalsOf[h] : v \in Becomes(sig)
  BY <1>3, ValuesKnown, GivenValues
<1>5. TypeOK'
  <2>1. val' \in [Signal -> Values] /\ table' \in [Symbol -> Values \cup {None}]
    BY <1>1, <1>2, <1>4 DEF TypeOK
  <2> QED BY <1>1, <1>2, <1>3, <2>1 DEF TypeOK
<1>6. TableValues'
  <2>1. DOMAIN table = Symbol
    BY <1>2 DEF TypeOK
  <2> QED BY <1>1, <1>2, <2>1 DEF TableValues
<1>7. IndexKnown'
  <2> SUFFICES ASSUME NEW s \in Stmt
               PROVE  IF val'[Index[s]] = Unknown THEN currLsb'[s] = -1
                      ELSE val'[Index[s]] \in Becomes(Index[s])
    BY DEF IndexKnown, Becomes
  <2>1. Index[s] \in Signal /\ Unknown \notin Becomes(Index[s])
    BY MemAssumption DEF MemAssumption, DeferrableDesign
  <2>2. CASE Index[s] \in SignalsOf[h]
    <3>1. val'[Index[s]] = v
      BY <1>1, <2>1, <2>2
    <3> QED BY <1>4, <2>1, <2>2, <3>1
  <2>3. CASE Index[s] \notin SignalsOf[h]
    <3>1. val'[Index[s]] = val[Index[s]]
      BY <1>1, <2>1, <2>3
    <3> QED BY <1>1, <1>2, <3>1 DEF IndexKnown
  <2> QED BY <2>2, <2>3
<1>8. OncePerTimestep'
  BY <1>1 DEF OncePerTimestep
<1> QED BY <1>5, <1>6, <1>7, <1>8 DEF StateKnown

LEMMA SetLocalKnown ==
  ASSUME RefInv, DeferrableDesign, NEW sig \in Local, NEW v \in ValuesOf[sig], SetLocal(sig, v)
  PROVE  StateKnown'
<1>1. /\ val' = [val EXCEPT ![sig] = v] /\ phase = "run"
      /\ UNCHANGED <<vec, currLsb, rhs, lhsLsb, added, queue, table, postsim, runs, simulate, phase, dumped>>
  BY DEF SetLocal
<1>2. TypeOK /\ IndexKnown /\ TableValues /\ OncePerTimestep
  BY DEF RefInv, StateKnown
<1>3. sig \in Signal /\ v \in Values /\ v \in Becomes(sig)
  BY ValuesKnown, GivenValues
<1>4. val' \in [Signal -> Values] /\ DOMAIN val = Signal
  BY <1>1, <1>2, <1>3 DEF TypeOK
<1>5. TypeOK'
  BY <1>1, <1>2, <1>4 DEF TypeOK
<1>6. TableValues' /\ OncePerTimestep'
  BY <1>1, <1>2 DEF TableValues, OncePerTimestep
<1>7. IndexKnown'
  <2> SUFFICES ASSUME NEW s \in Stmt
               PROVE  IF val'[Index[s]] = Unknown THEN currLsb'[s] = -1
                      ELSE val'[Index[s]] \in Becomes(Index[s])
    BY DEF IndexKnown, Becomes
  <2>1. Unknown \notin Becomes(Index[s])
    BY DEF DeferrableDesign
  <2>2. CASE Index[s] = sig
    BY <1>1, <1>3, <1>4, <2>1, <2>2
  <2>3. CASE Index[s] # sig
    <3>1. val'[Index[s]] = val[Index[s]]
      BY <1>1, <2>3
    <3> QED BY <1>1, <1>2, <3>1 DEF IndexKnown
  <2> QED BY <2>2, <2>3
<1> QED BY <1>5, <1>6, <1>7 DEF StateKnown

(* Where an execution finds its element: none, or the one Verilog selects. *)
LEMMA WhereExecuted ==
  ASSUME RefInv, DeferrableDesign, NEW s \in Stmt
  PROVE  LET i == val[Index[s]]
             lsb == SelectedLsb(i, currLsb[s])
         IN  /\ i \in Int /\ lsb \in Int
             /\ IF i # Unknown /\ i - FirstIndex \in Element
                THEN lsb = Position(i - FirstIndex) /\ lsb \in Offset /\ lsb # -1
                ELSE lsb = -1
<1> DEFINE i == val[Index[s]]
           lsb == SelectedLsb(i, currLsb[s])
<1>1. i \in Int /\ currLsb[s] \in Int
  BY ValuesKnown, MemAssumption DEF MemAssumption, RefInv, StateKnown, TypeOK
<1>2. CASE i = Unknown
  <2>1. lsb = -1
    BY <1>2 DEF RefInv, StateKnown, IndexKnown, SelectedLsb
  <2> QED BY <1>1, <1>2, <2>1
<1>3. CASE i # Unknown
  <2>1. Descending \/ i # FirstIndex + Size
    BY <1>3 DEF RefInv, StateKnown, IndexKnown, DeferrableDesign
  <2>2. lsb = IF i - FirstIndex \in Element THEN Position(i - FirstIndex) ELSE -1
    BY <1>1, <1>3, <2>1, SelectsElement
  <2>3. CASE i - FirstIndex \in Element
    <3> DEFINE p == Position(i - FirstIndex)
    <3>1. p \in Offset /\ p \in Nat
      BY <2>3, Positions
    <3>2. lsb = p
      BY <2>2, <2>3
    <3> HIDE DEF lsb, p
    <3>3. lsb \in Int /\ lsb # -1 /\ lsb \in Offset
      BY <3>1, <3>2
    <3> QED BY <1>1, <1>3, <2>3, <3>2, <3>3 DEF p, lsb
  <2>4. CASE i - FirstIndex \notin Element
    BY <1>1, <1>3, <2>2, <2>4
  <2> QED BY <2>3, <2>4
<1> QED BY <1>2, <1>3

LEMMA RightType ==
  ASSUME NEW s, NEW v \in Int
  PROVE  Right(s, v) \in Int
BY DEF Right

LEMMA ExecuteKnown ==
  ASSUME RefInv, DeferrableDesign, NEW s \in Stmt, Execute(s)
  PROVE  StateKnown'
<1> DEFINE lsb == SelectedLsb(val[Index[s]], currLsb[s])
           v == Right(s, val[Data[s]])
<1>1. /\ runs' = [runs EXCEPT ![s] = @ + 1]
      /\ rhs' = IF s \in Plain THEN rhs ELSE [rhs EXCEPT ![s] = v]
      /\ currLsb' = [currLsb EXCEPT ![s] = lsb]
      /\ IF lsb = -1 THEN UNCHANGED <<vec, lhsLsb, added, queue>>
         ELSE IF s \in Blocking THEN vec' = Push(lsb, v) /\ UNCHANGED <<lhsLsb, added, queue>>
         ELSE /\ lhsLsb' = [lhsLsb EXCEPT ![s] = lsb]
              /\ queue' = Enqueued(s) /\ added' = added \cup {s} /\ UNCHANGED vec
      /\ phase = "run"
      /\ UNCHANGED <<val, table, postsim, simulate, phase, dumped>>
  BY DEF Execute
<1>2. TypeOK /\ IndexKnown /\ TableValues /\ OncePerTimestep
  BY DEF RefInv, StateKnown
<1>3. lsb \in Int /\ (lsb # -1 => lsb \in Offset) /\ (val[Index[s]] = Unknown => lsb = -1)
  BY WhereExecuted
<1>4. v \in Int
  <2>1. val[Data[s]] \in Int
    BY <1>2, ValuesKnown, MemAssumption DEF TypeOK, MemAssumption
  <2> QED BY <2>1, RightType
<1> HIDE DEF lsb, v
<1>5. TypeOK'
  <2>1. runs' \in [Stmt -> Nat] /\ rhs' \in [Stmt -> Int] /\ currLsb' \in [Stmt -> Int]
    BY <1>1, <1>2, <1>3, <1>4 DEF TypeOK
  <2>2. vec' \in [Offset -> Int] /\ lhsLsb' \in [Stmt -> Offset]
    BY <1>1, <1>2, <1>3, <1>4 DEF TypeOK, Push
  <2>3. added' \subseteq Stmt \ Blocking /\ queue' \in Seq(Stmt \ Blocking)
    <3>1. added \subseteq Stmt \ Blocking /\ queue \in Seq(Stmt \ Blocking)
      BY <1>2 DEF TypeOK
    <3>2. CASE lsb = -1 \/ s \in Blocking
      BY <1>1, <3>1, <3>2
    <3>3. CASE lsb # -1 /\ s \notin Blocking
      <4>1. s \in Stmt \ Blocking /\ added' = added \cup {s} /\ queue' = Enqueued(s)
        BY <1>1, <3>3
      <4>2. queue' = queue \/ queue' = Append(queue, s)
        BY <4>1 DEF Enqueued
      <4> QED BY <3>1, <4>1, <4>2
    <3> QED BY <3>2, <3>3
  <2> QED BY <1>1, <1>2, <2>1, <2>2, <2>3 DEF TypeOK
<1>6. TableValues'
  BY <1>1, <1>2 DEF TableValues
<1>7. OncePerTimestep'
  <2>1. runs \in [Stmt -> Nat] /\ added' \subseteq added \cup {s} /\ added \subseteq Stmt
    BY <1>1, <1>2 DEF TypeOK
  <2>2. \A t \in added' : runs'[t] >= 1
    BY <1>1, <1>2, <2>1 DEF OncePerTimestep
  <2> QED BY <1>1, <1>2, <2>2 DEF OncePerTimestep
<1>8. IndexKnown'
  <2> SUFFICES ASSUME NEW t \in Stmt
               PROVE  IF val'[Index[t]] = Unknown THEN currLsb'[t] = -1
                      ELSE val'[Index[t]] \in Becomes(Index[t])
    BY DEF IndexKnown, Becomes
  <2>1. currLsb \in [Stmt -> Int]
    BY <1>2 DEF TypeOK
  <2>2. CASE t = s
    BY <1>1, <1>2, <1>3, <2>1, <2>2 DEF IndexKnown
  <2>3. CASE t # s
    BY <1>1, <1>2, <2>1, <2>3 DEF IndexKnown
  <2> QED BY <2>2, <2>3
<1> QED BY <1>5, <1>6, <1>7, <1>8 DEF StateKnown

LEMMA PerformNbaKnown ==
  ASSUME RefInv, PerformNba
  PROVE  StateKnown'
<1> DEFINE h == Head(queue)
<1>1. /\ vec' = Push(lhsLsb[h], RhsVec(h)) /\ added' = added \ {h} /\ queue' = Tail(queue)
      /\ phase = "nba" /\ queue # <<>>
      /\ UNCHANGED <<val, currLsb, rhs, lhsLsb, table, postsim, runs, simulate, phase, dumped>>
  BY DEF PerformNba
<1>2. TypeOK /\ IndexKnown /\ TableValues /\ OncePerTimestep
  BY DEF RefInv, StateKnown
<1>3. queue' \in Seq(Stmt \ Blocking) /\ h \in Stmt
  <2>1. queue \in Seq(Stmt \ Blocking)
    BY <1>2 DEF TypeOK
  <2> QED BY <1>1, <2>1, HeadTailProperties
<1>4. RhsVec(h) \in Int
  BY <1>2, <1>3, ValuesKnown, MemAssumption DEF TypeOK, MemAssumption, RhsVec
<1> HIDE DEF h
<1>5. vec' \in [Offset -> Int]
  BY <1>1, <1>2, <1>4 DEF TypeOK, Push
<1>6. TypeOK'
  BY <1>1, <1>2, <1>3, <1>5 DEF TypeOK
<1>7. IndexKnown' /\ TableValues' /\ OncePerTimestep'
  BY <1>1, <1>2 DEF IndexKnown, TableValues, OncePerTimestep
<1> QED BY <1>6, <1>7 DEF StateKnown

LEMMA PhaseKnown ==
  ASSUME RefInv, Timestep \/ Finish \/ EndOfPhase
  PROVE  StateKnown'
<1>1. UNCHANGED <<val, vec, currLsb, rhs, lhsLsb, added, queue, table, postsim, dumped>>
  BY DEF Timestep, Finish, EndOfPhase
<1>2. TypeOK /\ IndexKnown /\ TableValues /\ OncePerTimestep
  BY DEF RefInv, StateKnown
<1>3. /\ runs' \in [Stmt -> Nat] /\ simulate' \in BOOLEAN
      /\ phase' \in {"values", "run", "assign", "nba"}
  <2>1. runs \in [Stmt -> Nat] /\ simulate \in BOOLEAN
    BY <1>2 DEF TypeOK
  <2>2. [s \in Stmt |-> 0] \in [Stmt -> Nat]
    OBVIOUS
  <2>3. runs' = runs \/ runs' = [s \in Stmt |-> 0]
    BY DEF Timestep, Finish, EndOfPhase
  <2>4. /\ simulate' = simulate \/ simulate' = FALSE
        /\ phase' \in {"values", "run", "assign", "nba"}
    BY DEF Timestep, Finish, EndOfPhase
  <2> QED BY <2>1, <2>2, <2>3, <2>4
<1>4. TypeOK'
  BY <1>1, <1>2, <1>3 DEF TypeOK
<1>5. IndexKnown' /\ TableValues'
  BY <1>1, <1>2 DEF IndexKnown, TableValues
<1>6. OncePerTimestep'
  <2>1. CASE Timestep
    <3>1. phase' = "run" /\ simulate' /\ queue = <<>>
      BY <1>2, <2>1 DEF Timestep, OncePerTimestep
    <3>2. added' = {}
      <4>1. Range(queue) = added
        BY DEF RefInv, ValueInv, QueueInv, QueuesFit
      <4> QED BY <1>1, <3>1, <4>1 DEF Range
    <3> QED BY <3>1, <3>2 DEF OncePerTimestep
  <2>2. CASE Finish
    <3>1. phase' = "values" /\ ~simulate'
      BY <2>2 DEF Finish
    <3> QED BY <3>1 DEF OncePerTimestep
  <2>3. CASE EndOfPhase
    <3>1. phase' # "run" /\ (phase' = "values" => queue' = <<>>)
      BY <1>1, <2>3 DEF EndOfPhase
    <3> QED BY <3>1 DEF OncePerTimestep
  <2> QED BY <2>1, <2>2, <2>3
<1> QED BY <1>4, <1>5, <1>6 DEF StateKnown

LEMMA NextRefInv ==
  ASSUME RefInv, DeferrableDesign, [Next]_vars
  PROVE  RefInv'
<1>1. ValueInv'
  BY NextValueInv DEF RefInv
<1>2. CASE UNCHANGED vars
  <2>1. StateKnown
    BY DEF RefInv
  <2> QED BY <1>1, <1>2, <2>1 DEF RefInv, StateKnown, TypeOK, IndexKnown, TableValues, OncePerTimestep, vars
<1>3. ASSUME NEW y \in Symbol, NEW v \in UNION {ValuesOf[s] : s \in SignalsOf[y]}, SetValue(y, v)
      PROVE  StateKnown'
  BY <1>3, SetValueKnown
<1>4. ASSUME NEW s \in Stmt, Execute(s) PROVE StateKnown'
  BY <1>4, ExecuteKnown
<1>5. ASSUME NEW sig \in Local, NEW v \in ValuesOf[sig], SetLocal(sig, v) PROVE StateKnown'
  BY <1>5, SetLocalKnown
<1>6. CASE Timestep \/ Finish \/ EndOfPhase
  BY <1>1, <1>6, PhaseKnown DEF RefInv
<1>7. CASE AssignSymbol
  BY <1>1, <1>7, AssignSymbolKnown DEF RefInv
<1>8. CASE PerformNba
  BY <1>1, <1>8, PerformNbaKnown DEF RefInv
<1> QED BY <1>1, <1>2, <1>3, <1>4, <1>5, <1>6, <1>7, <1>8 DEF Next, RefInv

-----------------------------------------------------------------------------
(* The steps as steps of VerilogMemory *)

Mem == [e \in Element |-> vec[Position(e)]]

Value(s) == IF s \in Plain THEN val[Data[s]] ELSE rhs[s]

(* The abstract variables before and after a step. *)
LEMMA Mapped ==
  /\ Pending = [i \in DOMAIN queue |-> [elem |-> ElementAt(lhsLsb[queue[i]]), val |-> Value(queue[i])]]
  /\ Pending' = [i \in DOMAIN queue' |->
       [elem |-> ElementAt(lhsLsb'[queue'[i]]),
        val |-> IF queue'[i] \in Plain THEN val'[Data[queue'[i]]] ELSE rhs'[queue'[i]]]]
  /\ Mem' = [e \in Element |-> vec'[Position(e)]]
<1>1. Pending = [i \in DOMAIN queue |-> [elem |-> ElementAt(lhsLsb[queue[i]]), val |-> Value(queue[i])]]
  BY DEF Pending, RhsVec, Value
<1>2. Pending' = [i \in DOMAIN queue' |->
       [elem |-> ElementAt(lhsLsb'[queue'[i]]),
        val |-> IF queue'[i] \in Plain THEN val'[Data[queue'[i]]] ELSE rhs'[queue'[i]]]]
  BY DEF Pending, RhsVec, ElementAt, Position, Element
<1>3. Mem' = [e \in Element |-> vec'[Position(e)]]
  BY DEF Mem, Position, Element
<1> QED BY <1>1, <1>2, <1>3

LEMMA SameDesign ==
  /\ Verilog!Element = Element
  /\ \A s, v : Verilog!Right(s, v) = Right(s, v)
BY DEF Verilog!Element, Element, Verilog!Right, Right

LEMMA RefinesInit ==
  ASSUME val = [s \in Signal |-> Unknown], Mem = [e \in Element |-> Unknown],
         Pending = <<>>, phase # "nba"
  PROVE  Verilog!Init
<1>1. Mem = [e \in Verilog!Element |-> Unknown] /\ (phase = "nba") = FALSE
  BY SameDesign
<1> QED BY <1>1 DEF Verilog!Init, Mem

LEMMA RefinesStutter ==
  ASSUME UNCHANGED <<val, Mem, Pending, phase = "nba">>
  PROVE  UNCHANGED Verilog!vars
BY DEF Verilog!vars, Mem

LEMMA RefinesChange ==
  ASSUME phase # "nba", val' \in [Signal -> Int], UNCHANGED <<Mem, Pending, phase = "nba">>
  PROVE  Verilog!Next
BY DEF Verilog!Next, Verilog!Change, Mem

LEMMA RefinesBegin ==
  ASSUME phase # "nba", phase' = "nba", UNCHANGED <<val, Mem, Pending>>
  PROVE  Verilog!Next
<1>1. (phase' = "nba") = TRUE
  OBVIOUS
<1> QED BY <1>1 DEF Verilog!Next, Verilog!BeginUpdate, Mem

LEMMA RefinesEnd ==
  ASSUME phase = "nba", phase' # "nba", Pending = <<>>, UNCHANGED <<val, Mem, Pending>>
  PROVE  Verilog!Next
<1>1. (phase' = "nba") = FALSE
  OBVIOUS
<1> QED BY <1>1 DEF Verilog!Next, Verilog!EndUpdate, Mem

LEMMA RefinesUpdate ==
  ASSUME phase = "nba", Pending # <<>>, Pending' = Tail(Pending),
         Mem' = [Mem EXCEPT ![Head(Pending).elem] = Head(Pending).val],
         UNCHANGED <<val, phase = "nba">>
  PROVE  Verilog!Next
BY DEF Verilog!Next, Verilog!Update, Mem

LEMMA RefinesExecute ==
  ASSUME NEW s \in Stmt, NEW e \in Element, phase # "nba",
         val[Index[s]] # Unknown, val[Index[s]] = FirstIndex + e,
         LET v == Right(s, val[Data[s]])
         IN  IF s \in Blocking
             THEN Mem' = [Mem EXCEPT ![e] = v] /\ UNCHANGED Pending
             ELSE Pending' = Append(Pending, [elem |-> e, val |-> v]) /\ UNCHANGED Mem,
         UNCHANGED <<val, phase = "nba">>
  PROVE  Verilog!Next
<1>1. Verilog!Selects(s, e) /\ e \in Verilog!Element
  BY SameDesign DEF Verilog!Selects
<1>2. Verilog!Right(s, val[Data[s]]) = Right(s, val[Data[s]])
  BY SameDesign
<1>3. Verilog!Execute(s)
  BY <1>1, <1>2 DEF Verilog!Execute, Mem
<1> QED BY <1>3 DEF Verilog!Next

LEMMA StayPut ==
  ASSUME UNCHANGED <<queue, lhsLsb>>,
         \A i \in DOMAIN queue :
           (IF queue[i] \in Plain THEN val'[Data[queue[i]]] ELSE rhs'[queue[i]]) = Value(queue[i])
  PROVE  UNCHANGED Pending
<1>1. Pending = [i \in DOMAIN queue |-> [elem |-> ElementAt(lhsLsb[queue[i]]), val |-> Value(queue[i])]]
  BY Mapped
<1>2. Pending' = [i \in DOMAIN queue |->
       [elem |-> ElementAt(lhsLsb[queue[i]]),
        val |-> IF queue[i] \in Plain THEN val'[Data[queue[i]]] ELSE rhs'[queue[i]]]]
  BY Mapped
<1> QED BY <1>1, <1>2

LEMMA StayMem ==
  ASSUME UNCHANGED vec
  PROVE  UNCHANGED Mem
BY Mapped DEF Mem

LEMMA Pushed ==
  ASSUME vec \in [Offset -> Int], NEW e \in Element, NEW v, vec' = Push(Position(e), v)
  PROVE  Mem' = [Mem EXCEPT ![e] = v]
<1>1. /\ \A x \in Element : Position(x) \in Offset
      /\ \A x \in Element : Position(x) = Position(e) => x = e
  BY Positions
<1>2. \A x \in Element : vec'[Position(x)] = IF x = e THEN v ELSE vec[Position(x)]
  BY <1>1 DEF Push
<1>3. Mem' = [x \in Element |-> vec'[Position(x)]]
  BY Mapped
<1> QED BY <1>2, <1>3 DEF Mem

LEMMA OffsetElement ==
  ASSUME NEW o \in Offset
  PROVE  ElementAt(o) \in Element /\ Position(ElementAt(o)) = o
BY Positions

(* The queue in the types that the steps need. *)
LEMMA QueueShape ==
  ASSUME RefInv
  PROVE  /\ queue \in Seq(Stmt \ Blocking) /\ DOMAIN queue = 1..Len(queue) /\ Len(queue) \in Nat
         /\ \A i \in DOMAIN queue : queue[i] \in added /\ queue[i] \in Stmt \ Blocking
         /\ lhsLsb \in [Stmt -> Offset] /\ vec \in [Offset -> Int]
         /\ val \in [Signal -> Int] /\ rhs \in [Stmt -> Int] /\ runs \in [Stmt -> Nat]
<1>1. TypeOK /\ Range(queue) = added
  BY DEF RefInv, StateKnown, ValueInv, QueueInv, QueuesFit
<1>2. queue \in Seq(Stmt \ Blocking)
  BY <1>1 DEF TypeOK
<1>3. DOMAIN queue = 1..Len(queue) /\ Len(queue) \in Nat
      /\ \A i \in DOMAIN queue : queue[i] \in Stmt \ Blocking
  BY <1>2
<1>4. \A i \in DOMAIN queue : queue[i] \in added
  BY <1>1 DEF Range
<1>5. val \in [Signal -> Int]
  BY <1>1, ValuesKnown DEF TypeOK
<1> QED BY <1>1, <1>2, <1>3, <1>4, <1>5 DEF TypeOK

LEMMA SetValueStep ==
  ASSUME NEW y, NEW v, SetValue(y, v)
  PROVE  UNCHANGED Verilog!vars
<1>1. UNCHANGED <<val, vec, rhs, lhsLsb, queue, phase>>
  BY DEF SetValue
<1>2. UNCHANGED <<Mem, Pending>>
  BY <1>1, StayPut, StayMem DEF Value
<1> QED BY <1>1, <1>2, RefinesStutter

(* What changes a signal changes no pending value: those of plain right     *)
(* sides are neither in the dumpfile nor variables of a block.              *)
LEMMA SignalStep ==
  ASSUME RefInv, DeferrableDesign, phase # "nba", UNCHANGED <<vec, rhs, lhsLsb, queue, phase>>,
         val' \in [Signal -> Int],
         \A s \in Signal : s \notin Local \cup UNION {SignalsOf[y] : y \in Symbol} => val'[s] = val[s]
  PROVE  Verilog!Next
<1>1. ASSUME NEW i \in DOMAIN queue
      PROVE  (IF queue[i] \in Plain THEN val'[Data[queue[i]]] ELSE rhs'[queue[i]]) = Value(queue[i])
  <2>1. queue[i] \in Stmt \ Blocking
    BY QueueShape
  <2>2. CASE queue[i] \in Plain
    <3>1. /\ Data[queue[i]] \in Signal
          /\ Data[queue[i]] \notin Local \cup UNION {SignalsOf[y] : y \in Symbol}
      BY <2>1, <2>2, MemAssumption DEF MemAssumption, DeferrableDesign
    <3> QED BY <2>2, <3>1 DEF Value
  <2>3. CASE queue[i] \notin Plain
    BY <2>3 DEF Value
  <2> QED BY <2>2, <2>3
<1>2. UNCHANGED <<Mem, Pending, phase = "nba">>
  BY <1>1, StayPut, StayMem
<1> QED BY <1>2, RefinesChange

LEMMA AssignSymbolStep ==
  ASSUME RefInv, DeferrableDesign, AssignSymbol
  PROVE  Verilog!Next
<1> DEFINE h == Head(postsim)
<1>1. /\ val' = [s \in Signal |-> IF s \in SignalsOf[h] THEN table[h] ELSE val[s]]
      /\ phase = "assign" /\ postsim # <<>>
      /\ UNCHANGED <<vec, rhs, lhsLsb, queue, phase>>
  BY DEF AssignSymbol
<1>2. h \in Symbol /\ table[h] \in Int
  BY <1>1, HeadHasValue, ValuesKnown
<1>3. val \in [Signal -> Int]
  BY QueueShape
<1> HIDE DEF h
<1>4. val' \in [Signal -> Int]
  BY <1>1, <1>2, <1>3
<1>5. \A s \in Signal : s \notin Local \cup UNION {SignalsOf[y] : y \in Symbol} => val'[s] = val[s]
  BY <1>1, <1>2
<1> QED BY <1>1, <1>4, <1>5, SignalStep

LEMMA SetLocalStep ==
  ASSUME RefInv, DeferrableDesign, NEW sig \in Local, NEW v \in ValuesOf[sig], SetLocal(sig, v)
  PROVE  Verilog!Next
<1>1. /\ val' = [val EXCEPT ![sig] = v] /\ phase = "run"
      /\ UNCHANGED <<vec, rhs, lhsLsb, queue, phase>>
  BY DEF SetLocal
<1>2. sig \in Signal /\ v \in Int
  BY ValuesKnown
<1>3. val \in [Signal -> Int]
  BY QueueShape
<1>4. val' \in [Signal -> Int] /\ \A s \in Signal : s \notin Local => val'[s] = val[s]
  BY <1>1, <1>2, <1>3
<1> QED BY <1>1, <1>4, SignalStep

LEMMA PhaseStep ==
  ASSUME RefInv, Timestep \/ Finish \/ EndOfPhase
  PROVE  [Verilog!Next]_Verilog!vars
<1>1. UNCHANGED <<val, vec, rhs, lhsLsb, queue>>
  BY DEF Timestep, Finish, EndOfPhase
<1>2. UNCHANGED <<val, Mem, Pending>>
  BY <1>1, StayPut, StayMem DEF Value
<1>3. CASE phase # "nba" /\ phase' # "nba"
  BY <1>2, <1>3, RefinesStutter
<1>4. CASE phase # "nba" /\ phase' = "nba"
  BY <1>2, <1>4, RefinesBegin
<1>5. CASE phase = "nba"
  <2>1. phase' # "nba" /\ queue = <<>>
    BY <1>5 DEF Timestep, Finish, EndOfPhase
  <2>2. Pending = <<>>
    BY <2>1 DEF Pending
  <2> QED BY <1>2, <1>5, <2>1, <2>2, RefinesEnd
<1> QED BY <1>3, <1>4, <1>5

Writes == [elem : Element, val : Int]

LEMMA AppendForm ==
  ASSUME NEW S, NEW q \in Seq(S), NEW x \in S
  PROVE  Append(q, x) = [k \in 1..(Len(q) + 1) |-> IF k <= Len(q) THEN q[k] ELSE x]
<1> DEFINE a == Append(q, x)
<1>1. a \in Seq(S) /\ Len(a) = Len(q) + 1 /\ a[Len(q) + 1] = x
      /\ \A k \in 1..Len(q) : a[k] = q[k]
  BY AppendProperties
<1> HIDE DEF a
<1>2. a = [k \in 1..Len(a) |-> a[k]] /\ Len(q) \in Nat
  BY <1>1
<1>3. \A k \in 1..(Len(q) + 1) : a[k] = IF k <= Len(q) THEN q[k] ELSE x
  BY <1>1, <1>2
<1> QED BY <1>1, <1>2, <1>3 DEF a

LEMMA TailForm ==
  ASSUME NEW S, NEW q \in Seq(S), q # <<>>
  PROVE  /\ Tail(q) = [k \in 1..(Len(q) - 1) |-> q[k + 1]]
         /\ Head(q) = q[1] /\ Len(q) \in Nat /\ Len(q) > 0 /\ 1 \in 1..Len(q)
<1> DEFINE a == Tail(q)
<1>1. a \in Seq(S) /\ Len(a) = Len(q) - 1 /\ Head(q) = q[1]
      /\ \A k \in 1..Len(a) : a[k] = q[k + 1]
  BY HeadTailProperties
<1> HIDE DEF a
<1>2. a = [k \in 1..Len(a) |-> a[k]] /\ Len(q) \in Nat /\ Len(q) > 0
  BY <1>1
<1> QED BY <1>1, <1>2 DEF a

LEMMA PendingShape ==
  ASSUME RefInv
  PROVE  /\ Pending \in Seq(Writes) /\ Len(Pending) = Len(queue)
         /\ \A i \in 1..Len(queue) :
              /\ Pending[i] = [elem |-> ElementAt(lhsLsb[queue[i]]), val |-> Value(queue[i])]
              /\ Pending[i] \in Writes
<1> DEFINE n == Len(queue)
           entry(i) == [elem |-> ElementAt(lhsLsb[queue[i]]), val |-> Value(queue[i])]
<1>1. Pending = [i \in 1..n |-> entry(i)] /\ n \in Nat
  BY Mapped, QueueShape
<1>2. ASSUME NEW i \in 1..n PROVE entry(i) \in Writes
  <2>1. queue[i] \in Stmt /\ lhsLsb[queue[i]] \in Offset
    BY QueueShape
  <2>2. Value(queue[i]) \in Int
    BY <2>1, QueueShape, MemAssumption DEF Value, MemAssumption
  <2>3. ElementAt(lhsLsb[queue[i]]) \in Element
    BY <2>1, OffsetElement
  <2> QED BY <2>2, <2>3 DEF Writes
<1> HIDE DEF n, entry
<1>3. Pending \in Seq(Writes) /\ Len(Pending) = n
  BY <1>1, <1>2
<1>4. \A i \in 1..n : Pending[i] = entry(i)
  BY <1>1
<1> QED BY <1>2, <1>3, <1>4 DEF n, entry

(* An assignment that is executed is not queued: it has not been executed   *)
(* before in this timestep.                                                 *)
LEMMA NotQueued ==
  ASSUME RefInv, DeferrableDesign, NEW s \in Stmt, Execute(s)
  PROVE  s \notin added /\ \A i \in DOMAIN queue : queue[i] # s
<1>1. s \notin added
  <2> SUFFICES ASSUME s \in added PROVE FALSE
    OBVIOUS
  <2>1. phase = "run" /\ runs[s] < Executions[s]
    BY DEF Execute
  <2>2. runs[s] >= 1 /\ s \in Stmt \ Blocking
    BY <2>1 DEF RefInv, StateKnown, OncePerTimestep, TypeOK
  <2>3. Executions[s] <= 1
    BY <2>2 DEF DeferrableDesign
  <2>4. runs[s] \in Nat /\ Executions[s] \in Nat
    BY QueueShape, MemAssumption DEF MemAssumption
  <2> QED BY <2>1, <2>2, <2>3, <2>4
<1> QED BY <1>1, QueueShape

LEMMA ExecuteStep ==
  ASSUME RefInv, DeferrableDesign, NEW s \in Stmt, Execute(s)
  PROVE  [Verilog!Next]_Verilog!vars
<1> DEFINE i == val[Index[s]]
           lsb == SelectedLsb(i, currLsb[s])
           v == Right(s, val[Data[s]])
           e == i - FirstIndex
<1>1. /\ phase = "run" /\ UNCHANGED <<val, phase>>
      /\ rhs' = IF s \in Plain THEN rhs ELSE [rhs EXCEPT ![s] = v]
      /\ IF lsb = -1 THEN UNCHANGED <<vec, lhsLsb, added, queue>>
         ELSE IF s \in Blocking THEN vec' = Push(lsb, v) /\ UNCHANGED <<lhsLsb, added, queue>>
         ELSE /\ lhsLsb' = [lhsLsb EXCEPT ![s] = lsb]
              /\ queue' = Enqueued(s) /\ UNCHANGED vec
  BY DEF Execute
<1>2. /\ i \in Int /\ lsb \in Int
      /\ IF i # Unknown /\ e \in Element THEN lsb = Position(e) /\ lsb \in Offset /\ lsb # -1
                                         ELSE lsb = -1
  BY WhereExecuted
<1>3. s \notin added /\ \A k \in DOMAIN queue : queue[k] # s
  BY NotQueued
<1>4. /\ queue \in Seq(Stmt \ Blocking) /\ DOMAIN queue = 1..Len(queue) /\ Len(queue) \in Nat
      /\ \A k \in DOMAIN queue : queue[k] \in Stmt
      /\ lhsLsb \in [Stmt -> Offset] /\ vec \in [Offset -> Int] /\ rhs \in [Stmt -> Int]
  BY QueueShape
<1> DEFINE after(t) == IF t \in Plain THEN val'[Data[t]] ELSE rhs'[t]
<1>5. \A k \in DOMAIN queue : after(queue[k]) = Value(queue[k])
  BY <1>1, <1>3, <1>4 DEF Value
<1>6. after(s) = v
  BY <1>1, <1>4 DEF Right
<1>7. v \in Int
  <2>1. val[Data[s]] \in Int
    BY QueueShape, MemAssumption DEF MemAssumption
  <2> QED BY <2>1, RightType
<1>8. CASE lsb = -1
  <2>1. UNCHANGED <<Mem, Pending>>
    BY <1>1, <1>5, <1>8, StayPut, StayMem
  <2> QED BY <1>1, <2>1, RefinesStutter
<1>9. CASE lsb # -1 /\ s \in Blocking
  <2>1. e \in Element /\ i # Unknown /\ vec' = Push(Position(e), v) /\ i = FirstIndex + e
    BY <1>1, <1>2, <1>9, Sizes
  <2>2. UNCHANGED Pending
    BY <1>1, <1>5, <1>9, StayPut
  <2>3. Mem' = [Mem EXCEPT ![e] = v]
    BY <1>4, <2>1, Pushed
  <2> HIDE DEF e
  <2> QED BY <1>1, <1>9, <2>1, <2>2, <2>3, RefinesExecute
<1>10. CASE lsb # -1 /\ s \notin Blocking
  <2>1. /\ e \in Element /\ i # Unknown /\ lsb = Position(e) /\ i = FirstIndex + e
        /\ ElementAt(lsb) = e
    BY <1>2, <1>10, Sizes, Positions
  <2>2. /\ lhsLsb' = [lhsLsb EXCEPT ![s] = lsb] /\ queue' = Append(queue, s) /\ UNCHANGED vec
    BY <1>1, <1>3, <1>10 DEF Enqueued
  <2> DEFINE n == Len(queue)
             w == [elem |-> e, val |-> v]
             entry(k) == [elem |-> ElementAt(lhsLsb'[queue'[k]]), val |-> after(queue'[k])]
  <2>3. Pending' = [k \in DOMAIN queue' |-> entry(k)]
    BY Mapped
  <2>4. /\ DOMAIN queue' = 1..(n + 1) /\ queue'[n + 1] = s
        /\ \A k \in 1..n : queue'[k] = queue[k]
    BY <1>4, <2>2
  <2>5. w \in Writes
    BY <1>7, <2>1 DEF Writes
  <2>6. Pending \in Seq(Writes) /\ Len(Pending) = n
        /\ \A k \in 1..n : /\ Pending[k] = [elem |-> ElementAt(lhsLsb[queue[k]]), val |-> Value(queue[k])]
                           /\ Pending[k] \in Writes
    BY PendingShape
  <2>7. entry(n + 1) = w
    BY <1>4, <1>6, <2>1, <2>2, <2>4
  <2>8. ASSUME NEW k \in 1..n PROVE entry(k) = Pending[k]
    <3>1. /\ k \in DOMAIN queue /\ queue'[k] = queue[k] /\ queue[k] # s
          /\ after(queue[k]) = Value(queue[k])
      BY <1>3, <1>4, <1>5, <2>4
    <3>2. lhsLsb'[queue[k]] = lhsLsb[queue[k]]
      BY <2>2, <3>1
    <3> HIDE DEF after
    <3> QED BY <2>6, <3>1, <3>2
  <2> HIDE DEF entry, w, n
  <2>9. Append(Pending, w) = [k \in 1..(n + 1) |-> IF k <= n THEN Pending[k] ELSE w]
    BY <2>5, <2>6, AppendForm
  <2>10. \A k \in 1..(n + 1) : entry(k) = IF k <= n THEN Pending[k] ELSE w
    <3>1. n \in Nat
      BY <1>4 DEF n
    <3> QED BY <2>7, <2>8, <3>1
  <2>11. Pending' = Append(Pending, w)
    BY <2>3, <2>4, <2>9, <2>10
  <2>12. UNCHANGED Mem
    BY <2>2, StayMem
  <2> HIDE DEF e
  <2> QED BY <1>1, <1>10, <2>1, <2>11, <2>12, RefinesExecute DEF w
<1> QED BY <1>8, <1>9, <1>10

LEMMA PerformNbaStep ==
  ASSUME RefInv, PerformNba
  PROVE  Verilog!Next
<1> DEFINE h == Head(queue)
           n == Len(queue)
<1>1. /\ vec' = Push(lhsLsb[h], RhsVec(h)) /\ queue' = Tail(queue)
      /\ phase = "nba" /\ queue # <<>>
      /\ UNCHANGED <<val, rhs, lhsLsb, phase>>
  BY DEF PerformNba
<1>2. /\ queue \in Seq(Stmt \ Blocking) /\ n \in Nat /\ n > 0
      /\ h = queue[1] /\ 1 \in 1..n /\ h \in Stmt
      /\ lhsLsb \in [Stmt -> Offset] /\ vec \in [Offset -> Int]
  <2>1. queue \in Seq(Stmt \ Blocking)
    BY QueueShape
  <2>2. h = queue[1] /\ n \in Nat /\ n > 0 /\ 1 \in 1..n
    BY <1>1, <2>1, TailForm
  <2>3. h \in Stmt
    BY <2>1, <2>2
  <2> QED BY <2>1, <2>2, <2>3, QueueShape
<1>3. /\ Pending \in Seq(Writes) /\ Len(Pending) = n
      /\ \A k \in 1..n : /\ Pending[k] = [elem |-> ElementAt(lhsLsb[queue[k]]), val |-> Value(queue[k])]
                         /\ Pending[k] \in Writes
  BY PendingShape
<1> DEFINE e == ElementAt(lhsLsb[h])
<1>4. e \in Element /\ Position(e) = lhsLsb[h]
  BY <1>2, OffsetElement
<1>5. Pending # <<>> /\ Head(Pending) = [elem |-> e, val |-> Value(h)]
  <2>1. Pending # <<>>
    BY <1>2, <1>3
  <2>2. Head(Pending) = Pending[1]
    BY <1>3, <2>1, TailForm
  <2> QED BY <1>2, <1>3, <2>1, <2>2
<1>6. Mem' = [Mem EXCEPT ![e] = Value(h)]
  <2>1. vec' = Push(Position(e), Value(h))
    BY <1>1, <1>4 DEF RhsVec, Value
  <2> HIDE DEF e, h
  <2> QED BY <1>2, <1>4, <2>1, Pushed
<1>7. Pending' = Tail(Pending)
  <2>1. DOMAIN queue' = 1..(n - 1) /\ \A k \in 1..(n - 1) : queue'[k] = queue[k + 1]
    BY <1>1, <1>2
  <2> DEFINE entry(k) == [elem |-> ElementAt(lhsLsb'[queue'[k]]),
                          val |-> IF queue'[k] \in Plain THEN val'[Data[queue'[k]]] ELSE rhs'[queue'[k]]]
  <2>2. Pending' = [k \in DOMAIN queue' |-> entry(k)]
    BY Mapped
  <2>3. ASSUME NEW k \in 1..(n - 1) PROVE entry(k) = Pending[k + 1]
    <3>1. k + 1 \in 1..n /\ queue'[k] = queue[k + 1]
      BY <1>2, <2>1
    <3> QED BY <1>1, <1>3, <3>1 DEF Value
  <2> HIDE DEF entry, n
  <2>4. Tail(Pending) = [k \in 1..(n - 1) |-> Pending[k + 1]]
    BY <1>3, <1>5, TailForm DEF n
  <2> QED BY <2>1, <2>2, <2>3, <2>4
<1> HIDE DEF e, h
<1>8. Mem' = [Mem EXCEPT ![Head(Pending).elem] = Head(Pending).val]
  <2>1. Head(Pending).elem = e /\ Head(Pending).val = Value(h)
    BY <1>5
  <2> QED BY <1>6, <2>1
<1> QED BY <1>1, <1>5, <1>7, <1>8, RefinesUpdate

LEMMA InitRefines == Init => Verilog!Init
<1> SUFFICES ASSUME Init PROVE Verilog!Init
  OBVIOUS
<1>1. /\ val = [s \in Signal |-> Unknown] /\ vec = [o \in Offset |-> Unknown]
      /\ queue = <<>> /\ phase # "nba"
  BY DEF Init
<1>2. Mem = [e \in Element |-> Unknown]
  BY <1>1, Positions DEF Mem
<1>3. Pending = <<>>
  BY <1>1 DEF Pending
<1> QED BY <1>1, <1>2, <1>3, RefinesInit

LEMMA NextRefines ==
  ASSUME RefInv, DeferrableDesign, [Next]_vars
  PROVE  [Verilog!Next]_Verilog!vars
<1>1. CASE UNCHANGED vars
  <2>1. UNCHANGED <<val, vec, rhs, lhsLsb, queue, phase>>
    BY <1>1 DEF vars
  <2>2. UNCHANGED <<Mem, Pending>>
    BY <2>1, StayPut, StayMem DEF Value
  <2> QED BY <2>1, <2>2, RefinesStutter
<1>2. ASSUME NEW y, NEW v, SetValue(y, v) PROVE UNCHANGED Verilog!vars
  BY <1>2, SetValueStep
<1>3. ASSUME NEW s \in Stmt, Execute(s) PROVE [Verilog!Next]_Verilog!vars
  BY <1>3, ExecuteStep
<1>4. ASSUME NEW sig \in Local, NEW v \in ValuesOf[sig], SetLocal(sig, v) PROVE Verilog!Next
  BY <1>4, SetLocalStep
<1>5. CASE Timestep \/ Finish \/ EndOfPhase
  BY <1>5, PhaseStep
<1>6. CASE AssignSymbol
  BY <1>6, AssignSymbolStep
<1>7. CASE PerformNba
  BY <1>7, PerformNbaStep
<1> QED BY <1>1, <1>2, <1>3, <1>4, <1>5, <1>6, <1>7 DEF Next

(* The queue of structures, the positions in the vector and the order of    *)
(* the assignments at the end of a timestep do what the non-blocking        *)
(* assignments of Verilog mean, in every design that does not meet one of   *)
(* the four things DeferrableDesign rules out.                              *)
THEOREM MemoryIsImplemented ==
  ASSUME DeferrableDesign
  PROVE  Spec => NonBlockingIsDeferred
<1>1. Init => RefInv
  BY InitValueInv, InitStateKnown DEF RefInv
<1>2. RefInv /\ [Next]_vars => RefInv'
  BY NextRefInv
<1>3. RefInv /\ [Next]_vars => [Verilog!Next]_Verilog!vars
  BY NextRefines
<1> QED BY <1>1, <1>2, <1>3, InitRefines, PTL DEF Spec, NonBlockingIsDeferred, Verilog!Spec

(* Type correctness; it includes that a structure in the queue has the      *)
(* position of an element, which sim_perform_nba does not look at again.    *)
THEOREM TypeCorrect ==
  ASSUME DeferrableDesign
  PROVE  Spec => []TypeOK
<1>1. Init => RefInv
  BY InitValueInv, InitStateKnown DEF RefInv
<1>2. RefInv /\ [Next]_vars => RefInv'
  BY NextRefInv
<1>3. RefInv => TypeOK
  BY DEF RefInv, StateKnown
<1> QED BY <1>1, <1>2, <1>3, PTL DEF Spec
=============================================================================
