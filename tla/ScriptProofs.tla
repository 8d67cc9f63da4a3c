---------------------------- MODULE ScriptProofs ----------------------------
(***************************************************************************)
(* The compiler keeps the effect of every script whose sleeps fit.  The    *)
(* optimiser does: the merged instruction does what the two did, so the    *)
(* output and the pending instruction do what has been read.  And so does  *)
(* the bytecode: the board fetches the instructions of the output one      *)
(* after another, as each lies behind those before it and is told by its   *)
(* first word.                                                             *)
(***************************************************************************)
EXTENDS Script, SequenceTheorems, Induction, TLAPS

\* What the boot module does when a register is written.
RegisterWrites == [addr : Nat, value : Words, after : Int]

\* The width of an int: all merged sleeps fit it.
LEMMA IntWidth ==
  /\ IntMod \in Nat /\ IntMod >= 32
  /\ MaxSleep \in Nat
  /\ \A x \in 0 .. 2 * MaxSleep : ToInt(x) = x
<1>1. IntMod \in Nat /\ IntMod >= 32 /\ IntMod % 32 = 0
  BY ScriptAssumption DEF ScriptAssumption
<1>2. PICK k \in Nat : IntMod = 32 * k
  BY <1>1
<1>3. MaxSleep = 2 * k - 1 /\ IntMod \div 2 = 16 * k /\ k >= 1
  BY <1>1, <1>2 DEF MaxSleep
<1>4. ASSUME NEW x \in 0 .. 2 * MaxSleep
      PROVE  ToInt(x) = x
  <2>1. x + IntMod \div 2 \in 0 .. IntMod - 1
    BY <1>2, <1>3
  <2>2. (x + IntMod \div 2) % IntMod = x + IntMod \div 2
    BY <2>1, <1>1
  <2> QED
    BY <2>2, <1>3 DEF ToInt
<1> QED
  BY <1>1, <1>3, <1>4

LEMMA IntRange ==
  ASSUME NEW x \in Int
  PROVE  ToInt(x) \in Ints
<1>1. PICK k \in Nat : IntMod = 32 * k /\ IntMod \div 2 = 16 * k /\ k >= 1
  BY ScriptAssumption DEF ScriptAssumption
<1>2. (x + 16 * k) % IntMod \in 0 .. IntMod - 1
  BY <1>1
<1> QED
  BY <1>1, <1>2 DEF ToInt, Ints

LEMMA InstructionFields ==
  ASSUME NEW ins \in BaseInstructions
  PROVE  /\ ins.op \in {"store", "sleep", "halt"}
         /\ ins.op = "store" =>
              /\ ins = Store(ins.module, ins.base, ins.values)
              /\ ins.module \in Modules \cup {NoModule}
              /\ ins.base \in Nat
              /\ ins.values \in Seq(Words) /\ ins.values # <<>>
         /\ ins.op = "sleep" => ins = Sleep(ins.timeout) /\ ins.timeout \in Int
         /\ ins.op = "halt" => ins = Halt
BY DEF BaseInstructions, Store, Sleep, Halt, Ints

LEMMA StoreFields ==
  ASSUME NEW m \in Modules \cup {NoModule}, NEW base \in Nat,
         NEW s \in Seq(Words), s # <<>>
  PROVE  /\ Store(m, base, s) \in BaseInstructions
         /\ Store(m, base, s).op = "store"
         /\ Store(m, base, s).values = s
BY DEF Store, BaseInstructions

\* A store that the board executes.
LEMMA RunStore ==
  ASSUME NEW brd, NEW ins, ~brd.halted, ins.op = "store"
  PROVE  Run(brd, ins) = [writes |-> brd.writes \o Writes(ins, brd.slept),
                          slept |-> 0, halted |-> FALSE]
BY DEF Run

LEMMA WritesType ==
  ASSUME NEW ins \in BaseInstructions, ins.op = "store", NEW slept \in Int
  PROVE  /\ Writes(ins, slept) \in Seq(RegisterWrites)
         /\ Len(Writes(ins, slept)) = Len(ins.values)
<1>1. ins.base \in Nat /\ ins.values \in Seq(Words)
  BY InstructionFields
<1>2. Len(ins.values) \in Nat
  BY <1>1, LenProperties
<1>3. \A i \in 1 .. Len(ins.values) :
        [addr |-> ins.base + 4 * (i - 1), value |-> ins.values[i],
         after |-> IF i = 1 THEN slept ELSE 0] \in RegisterWrites
  <2> SUFFICES ASSUME NEW i \in 1 .. Len(ins.values)
               PROVE  /\ ins.base + 4 * (i - 1) \in Nat
                      /\ ins.values[i] \in Words
                      /\ (IF i = 1 THEN slept ELSE 0) \in Int
    BY DEF RegisterWrites
  <2>1. ins.values[i] \in Words
    BY <1>1, ElementOfSeq
  <2> QED
    BY <1>1, <1>2, <2>1
<1> QED
  BY <1>2, <1>3, IsASeq DEF Writes

\* A board stays a board.
LEMMA RunType ==
  ASSUME NEW b \in Boards, NEW ins \in BaseInstructions
  PROVE  Run(b, ins) \in Boards
<1>1. /\ b.writes \in Seq(RegisterWrites) /\ b.slept \in Int /\ b.halted \in BOOLEAN
      /\ Boards = [writes : Seq(RegisterWrites), slept : Int, halted : BOOLEAN]
  BY DEF Boards, RegisterWrites
<1>2. CASE b.halted
  BY <1>2 DEF Run
<1>3. CASE ~b.halted /\ ins.op = "store"
  <2>1. b.writes \o Writes(ins, b.slept) \in Seq(RegisterWrites)
    BY <1>1, <1>3, WritesType, ConcatProperties
  <2> QED
    BY <1>1, <1>3, <2>1 DEF Run
<1>4. CASE ~b.halted /\ ins.op = "sleep"
  BY <1>1, <1>4, InstructionFields DEF Run
<1>5. CASE ~b.halted /\ ins.op = "halt"
  BY <1>1, <1>5 DEF Run
<1> QED
  BY <1>2, <1>3, <1>4, <1>5, InstructionFields

\* Of the two stores that make one.
LEMMA MergedValues ==
  ASSUME NEW s \in Seq(Words), NEW t \in Seq(Words), s # <<>>
  PROVE  /\ Len(s) \in Nat /\ Len(s) >= 1 /\ Len(t) \in Nat
         /\ s \o t \in Seq(Words) /\ s \o t # <<>>
         /\ Len(s \o t) = Len(s) + Len(t)
         /\ \A i \in 1 .. Len(s) : (s \o t)[i] = s[i]
         /\ \A i \in 1 .. Len(t) : (s \o t)[Len(s) + i] = t[i]
<1>1. Len(s) \in Nat /\ Len(t) \in Nat /\ Len(s) # 0
  BY LenProperties, EmptySeq
<1>2. /\ s \o t \in Seq(Words) /\ Len(s \o t) = Len(s) + Len(t)
      /\ \A i \in 1 .. Len(s) + Len(t) :
           (s \o t)[i] = IF i <= Len(s) THEN s[i] ELSE t[i - Len(s)]
  BY ConcatProperties
<1>3. s \o t # <<>>
  BY <1>1, <1>2, EmptySeq
<1>4. ASSUME NEW i \in 1 .. Len(t)
      PROVE  (s \o t)[Len(s) + i] = t[i]
  BY <1>1, <1>2
<1> QED
  BY <1>1, <1>2, <1>3, <1>4

\* A sequence put together from two.
LEMMA IsConcatenation ==
  ASSUME NEW S, NEW a \in Seq(S), NEW b \in Seq(S), NEW c \in Seq(S),
         Len(c) = Len(a) + Len(b),
         \A i \in 1 .. Len(a) : c[i] = a[i],
         \A j \in 1 .. Len(b) : c[Len(a) + j] = b[j]
  PROVE  c = a \o b
<1>1. Len(a) \in Nat /\ Len(b) \in Nat
  BY LenProperties
<1>2. /\ a \o b \in Seq(S) /\ Len(a \o b) = Len(a) + Len(b)
      /\ \A i \in 1 .. Len(a) + Len(b) :
           (a \o b)[i] = IF i <= Len(a) THEN a[i] ELSE b[i - Len(a)]
  BY ConcatProperties
<1>3. ASSUME NEW i \in 1 .. Len(c)
      PROVE  c[i] = (a \o b)[i]
  <2>1. CASE i <= Len(a)
    <3>1. i \in 1 .. Len(a)
      BY <1>1, <2>1
    <3> QED
      BY <1>1, <1>2, <2>1, <3>1
  <2>2. CASE ~(i <= Len(a))
    <3>1. i - Len(a) \in 1 .. Len(b) /\ Len(a) + (i - Len(a)) = i
      BY <1>1, <2>2
    <3>2. c[i] = b[i - Len(a)]
      BY <3>1
    <3> QED
      BY <1>1, <1>2, <2>2, <3>2
  <2> QED
    BY <2>1, <2>2
<1> QED
  BY <1>2, <1>3, SeqEqual

\* The writes of two stores that follow one another are those of one.
LEMMA StoresMerge ==
  ASSUME NEW a \in BaseInstructions, NEW b \in BaseInstructions, NEW slept \in Int,
         a.op = "store", b.op = "store", b.base = a.base + 4 * Len(a.values)
  PROVE  Writes(Store(a.module, a.base, a.values \o b.values), slept)
           = Writes(a, slept) \o Writes(b, 0)
<1> DEFINE m == a.module
           n == b.module
           base == a.base
           s == a.values
           t == b.values
           next_base == base + 4 * Len(s)
           A == Writes(Store(m, base, s), slept)
           B == Writes(Store(n, next_base, t), 0)
           C == Writes(Store(m, base, s \o t), slept)
<1>a. /\ m \in Modules \cup {NoModule} /\ n \in Modules \cup {NoModule}
      /\ base \in Nat /\ s \in Seq(Words) /\ t \in Seq(Words) /\ s # <<>> /\ t # <<>>
  BY InstructionFields
<1>b. Store(m, base, s) = a /\ Store(n, next_base, t) = b
  BY InstructionFields
<1> HIDE DEF m, n, base, s, t
<1>1. /\ Len(s) \in Nat /\ Len(s) >= 1 /\ Len(t) \in Nat
      /\ s \o t \in Seq(Words) /\ s \o t # <<>>
      /\ Len(s \o t) = Len(s) + Len(t)
      /\ \A i \in 1 .. Len(s) : (s \o t)[i] = s[i]
      /\ \A i \in 1 .. Len(t) : (s \o t)[Len(s) + i] = t[i]
  BY <1>a, MergedValues
<1>2. /\ next_base \in Nat
      /\ Store(m, base, s) \in BaseInstructions
      /\ Store(n, next_base, t) \in BaseInstructions
      /\ Store(m, base, s \o t) \in BaseInstructions
  BY <1>a, <1>1 DEF Store, BaseInstructions
<1>3. /\ A \in Seq(RegisterWrites) /\ Len(A) = Len(s)
      /\ B \in Seq(RegisterWrites) /\ Len(B) = Len(t)
      /\ C \in Seq(RegisterWrites) /\ Len(C) = Len(s) + Len(t)
  <2>1. /\ Store(m, base, s).op = "store" /\ Store(m, base, s).values = s
        /\ Store(n, next_base, t).op = "store" /\ Store(n, next_base, t).values = t
        /\ Store(m, base, s \o t).op = "store" /\ Store(m, base, s \o t).values = s \o t
    BY DEF Store
  <2> HIDE DEF next_base
  <2> QED
    BY <1>1, <1>2, <2>1, WritesType
<1>5. ASSUME NEW i \in 1 .. Len(s) + Len(t)
      PROVE  C[i] = [addr |-> base + 4 * (i - 1), value |-> (s \o t)[i],
                     after |-> IF i = 1 THEN slept ELSE 0]
  BY <1>1 DEF Writes, Store
<1>6. ASSUME NEW i \in 1 .. Len(s)
      PROVE  A[i] = [addr |-> base + 4 * (i - 1), value |-> s[i],
                     after |-> IF i = 1 THEN slept ELSE 0]
  BY DEF Writes, Store
<1>7. ASSUME NEW i \in 1 .. Len(t)
      PROVE  B[i] = [addr |-> next_base + 4 * (i - 1), value |-> t[i], after |-> 0]
  BY DEF Writes, Store
<1>8. ASSUME NEW i \in 1 .. Len(s)
      PROVE  C[i] = A[i]
  <2>1. i \in 1 .. Len(s) + Len(t) /\ (s \o t)[i] = s[i]
    BY <1>1
  <2> HIDE DEF A, B, C
  <2>2. C[i] = [addr |-> base + 4 * (i - 1), value |-> (s \o t)[i],
                after |-> IF i = 1 THEN slept ELSE 0]
    BY <1>5, <2>1
  <2> QED
    BY <1>6, <2>1, <2>2
<1>9. ASSUME NEW j \in 1 .. Len(t)
      PROVE  C[Len(s) + j] = B[j]
  <2> DEFINE i == Len(s) + j
  <2>1. i \in 1 .. Len(s) + Len(t) /\ (s \o t)[i] = t[j] /\ i # 1
    BY <1>1
  <2>2. next_base + 4 * (j - 1) = base + 4 * (i - 1)
    BY <1>a, <1>1
  <2> HIDE DEF A, B, C, i, next_base
  <2>3. C[i] = [addr |-> base + 4 * (i - 1), value |-> (s \o t)[i],
                after |-> IF i = 1 THEN slept ELSE 0]
    BY <1>5, <2>1
  <2>4. B[j] = [addr |-> next_base + 4 * (j - 1), value |-> t[j], after |-> 0]
    BY <1>7
  <2>5. C[i] = B[j]
    BY <2>1, <2>2, <2>3, <2>4
  <2> QED
    BY <2>5 DEF i
<1> HIDE DEF A, B, C
<1>10. C = A \o B
  <2>1. Len(C) = Len(A) + Len(B)
    BY <1>3
  <2>2. \A i \in 1 .. Len(A) : C[i] = A[i]
    BY <1>3, <1>8
  <2>3. \A j \in 1 .. Len(B) : C[Len(A) + j] = B[j]
    BY <1>3, <1>9
  <2>4. A \in Seq(RegisterWrites) /\ B \in Seq(RegisterWrites) /\ C \in Seq(RegisterWrites)
    BY <1>3
  <2> QED
    BY <2>1, <2>2, <2>3, <2>4, IsConcatenation, Zenon
<1>11. Writes(Store(m, base, s \o t), slept) = Writes(a, slept) \o Writes(b, 0)
  BY <1>10, <1>b DEF A, B, C
<1> QED
  BY <1>11 DEF m, base, s, t

LEMMA WritesAssociate ==
  \A s, t, u \in Seq(RegisterWrites) : (s \o t) \o u = s \o (t \o u)
BY ConcatAssociative

-----------------------------------------------------------------------------

\* Whether an instruction is no sleep, or one that fits a SLEEP word.
SleepFits(ins) == ins.op = "sleep" => ins.timeout \in 0 .. MaxSleep

\* The merged instruction is one, and its sleep fits if those it is made of do.
LEMMA CombineType ==
  ASSUME NEW a \in BaseInstructions, NEW b \in BaseInstructions, CanCombine(a, b)
  PROVE  /\ Combine(a, b) \in BaseInstructions
         /\ SleepFits(a) /\ SleepFits(b) => SleepFits(Combine(a, b))
<1>1. CASE a.op = "halt"
  BY <1>1 DEF Combine
<1>2. CASE a.op = "store"
  <2>1. b.op = "store"
    BY <1>2 DEF CanCombine, StoreCanCombine
  <2>2. /\ a.module \in Modules \cup {NoModule} /\ a.base \in Nat
        /\ a.values \in Seq(Words) /\ a.values # <<>> /\ b.values \in Seq(Words)
    BY <1>2, <2>1, InstructionFields
  <2>3. a.values \o b.values \in Seq(Words) /\ a.values \o b.values # <<>>
    BY <2>2, MergedValues
  <2>4. Combine(a, b) = Store(a.module, a.base, a.values \o b.values)
    BY <1>2 DEF Combine
  <2> QED
    BY <2>2, <2>3, <2>4, StoreFields DEF SleepFits
<1>3. CASE a.op = "sleep" /\ b.op = "sleep"
  <2>1. a.timeout \in Int /\ b.timeout \in Int
    BY <1>3, InstructionFields
  <2>2. /\ Combine(a, b) = Sleep(ToInt(a.timeout + b.timeout))
        /\ ToInt(a.timeout + b.timeout) <= MaxSleep
    BY <1>3 DEF Combine, CanCombine, SleepCanCombine
  <2>3. ToInt(a.timeout + b.timeout) \in Ints
    BY <2>1, IntRange
  <2>4. Combine(a, b) \in BaseInstructions
    BY <2>2, <2>3 DEF BaseInstructions, Sleep
  <2>5. ASSUME SleepFits(a), SleepFits(b)
        PROVE  ToInt(a.timeout + b.timeout) \in 0 .. MaxSleep
    <3>1. a.timeout + b.timeout \in 0 .. 2 * MaxSleep
      BY <1>3, <2>5, IntWidth DEF SleepFits
    <3> QED
      BY <2>2, <3>1, IntWidth
  <2> QED
    BY <2>2, <2>4, <2>5 DEF SleepFits, Sleep
<1>4. CASE a.op = "sleep" /\ b.op = "halt"
  BY <1>4 DEF Combine, SleepFits
<1>5. a.op = "sleep" => b.op \in {"sleep", "halt"}
  BY DEF CanCombine, SleepCanCombine
<1> QED
  BY <1>1, <1>2, <1>3, <1>4, <1>5, InstructionFields

\* To the board, the merged instruction is the two after one another.
LEMMA CombineEffect ==
  ASSUME NEW board0 \in Boards, NEW a \in BaseInstructions, NEW b \in BaseInstructions,
         CanCombine(a, b), SleepFits(a), SleepFits(b)
  PROVE  Run(Run(board0, a), b) = Run(board0, Combine(a, b))
<1>0. /\ board0.writes \in Seq(RegisterWrites) /\ board0.slept \in Int
      /\ board0.halted \in BOOLEAN
  BY DEF Boards, RegisterWrites
<1>1. CASE board0.halted
  BY <1>1 DEF Run
<1>2. CASE ~board0.halted /\ a.op = "halt"
  BY <1>2 DEF Run, Combine
<1>3. CASE ~board0.halted /\ a.op = "store"
  <2>1. b.op = "store" /\ b.base = a.base + 4 * Len(a.values)
    BY <1>3 DEF CanCombine, StoreCanCombine
  <2>2. /\ a = Store(a.module, a.base, a.values) /\ b = Store(b.module, b.base, b.values)
        /\ a.module \in Modules \cup {NoModule} /\ b.module \in Modules \cup {NoModule}
        /\ a.base \in Nat /\ a.values \in Seq(Words) /\ a.values # <<>>
        /\ b.values \in Seq(Words) /\ b.values # <<>>
    BY <1>3, <2>1, InstructionFields
  <2>3. Combine(a, b) = Store(a.module, a.base, a.values \o b.values)
    BY <1>3 DEF Combine
  <2>4. PICK A \in Seq(RegisterWrites), B \in Seq(RegisterWrites) :
          /\ A = Writes(a, board0.slept) /\ B = Writes(b, 0)
          /\ Writes(Combine(a, b), board0.slept) = A \o B
    <3>1. /\ Writes(a, board0.slept) \in Seq(RegisterWrites)
          /\ Writes(b, 0) \in Seq(RegisterWrites)
      BY <1>0, <1>3, <2>1, WritesType
    <3>2. Writes(Store(a.module, a.base, a.values \o b.values), board0.slept)
            = Writes(a, board0.slept) \o Writes(b, 0)
      BY <1>0, <1>3, <2>1, StoresMerge
    <3> QED
      BY <2>3, <3>1, <3>2
  <2>5. (board0.writes \o A) \o B = board0.writes \o (A \o B)
    BY <1>0, WritesAssociate
  <2>6. Run(board0, a) = [writes |-> board0.writes \o A, slept |-> 0, halted |-> FALSE]
    BY <1>3, <2>4, RunStore
  <2>7. Run(Run(board0, a), b)
          = [writes |-> (board0.writes \o A) \o B, slept |-> 0, halted |-> FALSE]
    <3> DEFINE r == Run(board0, a)
    <3>1. r.writes = board0.writes \o A /\ r.slept = 0 /\ ~r.halted
      BY <2>6
    <3> HIDE DEF r
    <3>2. Run(r, b) = [writes |-> r.writes \o Writes(b, r.slept), slept |-> 0, halted |-> FALSE]
      BY <2>1, <3>1, RunStore
    <3>3. Run(r, b) = [writes |-> (board0.writes \o A) \o B, slept |-> 0, halted |-> FALSE]
      BY <2>4, <3>1, <3>2
    <3> QED
      BY <3>3 DEF r
  <2>8. Run(board0, Combine(a, b))
          = [writes |-> board0.writes \o (A \o B), slept |-> 0, halted |-> FALSE]
    <3>1. Combine(a, b).op = "store"
      BY <2>3 DEF Store
    <3> QED
      BY <1>3, <2>4, <3>1, RunStore
  <2> QED
    BY <2>5, <2>7, <2>8
<1>4. CASE ~board0.halted /\ a.op = "sleep" /\ b.op = "sleep"
  <2>1. a.timeout \in 0 .. MaxSleep /\ b.timeout \in 0 .. MaxSleep
    BY <1>4 DEF SleepFits
  <2>2. Combine(a, b) = Sleep(a.timeout + b.timeout)
    <3>1. a.timeout + b.timeout \in 0 .. 2 * MaxSleep
      BY <2>1, IntWidth
    <3> QED
      BY <1>4, <3>1, IntWidth DEF Combine
  <2>3. /\ Run(board0, a) = [writes |-> board0.writes,
                             slept |-> board0.slept + a.timeout, halted |-> FALSE]
        /\ Run(board0, Combine(a, b))
             = [writes |-> board0.writes,
                slept |-> board0.slept + (a.timeout + b.timeout), halted |-> FALSE]
    BY <1>4, <2>2 DEF Run, Sleep
  <2>4. Run(Run(board0, a), b)
          = [writes |-> board0.writes,
             slept |-> (board0.slept + a.timeout) + b.timeout, halted |-> FALSE]
    BY <1>4, <2>3 DEF Run
  <2>5. (board0.slept + a.timeout) + b.timeout = board0.slept + (a.timeout + b.timeout)
    BY <1>0, <2>1, IntWidth
  <2> QED
    BY <2>3, <2>4, <2>5
<1>5. CASE ~board0.halted /\ a.op = "sleep" /\ b.op = "halt"
  BY <1>5 DEF Run, Combine
<1>6. a.op = "sleep" => b.op \in {"sleep", "halt"}
  BY DEF CanCombine, SleepCanCombine
<1> QED
  BY <1>0, <1>1, <1>2, <1>3, <1>4, <1>5, <1>6, InstructionFields

-----------------------------------------------------------------------------

\* The pending instruction, if there is one.
LEMMA Pending ==
  ASSUME OptimiserInv, prevIns # <<>>
  PROVE  /\ Len(prevIns) = 1
         /\ prevIns[1] \in BaseInstructions
         /\ SleepsFit(instructions) => SleepFits(prevIns[1])
<1>1. prevIns \in Seq(BaseInstructions) /\ Len(prevIns) <= 1
  BY DEF OptimiserInv
<1>2. Len(prevIns) \in Nat /\ Len(prevIns) # 0 /\ Len(prevIns) <= 1
  BY <1>1, LenProperties, EmptySeq
<1>3. Len(prevIns) = 1 /\ prevIns[1] \in BaseInstructions
  <2>1. Len(prevIns) = 1
    <3>1. \A n \in Nat : n # 0 /\ n <= 1 => n = 1
      OBVIOUS
    <3> QED
      BY <1>2, <3>1, Zenon
  <2>2. prevIns \in [1 .. Len(prevIns) -> BaseInstructions]
    BY <1>1, LenProperties
  <2> QED
    BY <2>1, <2>2
<1> QED
  BY <1>3 DEF OptimiserInv, SleepsFit, SleepFits

\* An invariant about the pending instruction, from facts about that one.
LEMMA OnePending ==
  ASSUME NEW ins \in BaseInstructions
  PROVE  /\ <<ins>> \in Seq(BaseInstructions) /\ Len(<<ins>>) = 1 /\ <<ins>> # <<>>
         /\ <<ins>>[1] = ins
         /\ SleepFits(ins) => SleepsFit(<<ins>>)
<1>1. <<ins>> \in Seq(BaseInstructions) /\ Len(<<ins>>) = 1 /\ <<ins>>[1] = ins
  OBVIOUS
<1> QED
  BY <1>1 DEF SleepsFit, SleepFits

THEOREM OptimiserInit == ScriptInit => OptimiserInv
<1> SUFFICES ASSUME ScriptInit PROVE OptimiserInv
  OBVIOUS
<1>1. instructions \in Seq(BaseInstructions) /\ next = 1 /\ prevIns = <<>>
  BY ScriptsAreParsed DEF ScriptInit
<1>2. Reset \in Boards
  <2>1. <<>> \in Seq(RegisterWrites)
    OBVIOUS
  <2> QED
    BY <2>1 DEF Reset, Boards, RegisterWrites
<1>3. intended = emitted
  BY DEF ScriptInit
<1>4. pc = "optimize" => intended \in Boards /\ emitted \in Boards
  BY <1>2 DEF ScriptInit
<1>5. SleepsFit(prevIns)
  BY <1>1 DEF SleepsFit
<1>6. prevIns \in Seq(BaseInstructions) /\ Len(prevIns) <= 1
  BY <1>1
<1> QED
  BY <1>1, <1>3, <1>4, <1>5, <1>6 DEF OptimiserInv, SameEffect

\* The first instruction is pended.
LEMMA VisitFirst ==
  ASSUME OptimiserInv, Visit, prevIns = <<>>, prevIns' = <<instructions[next]>>,
         UNCHANGED emitted
  PROVE  OptimiserInv'
<1> DEFINE ins == instructions[next]
<1>1. /\ instructions \in Seq(BaseInstructions) /\ next \in 1 .. Len(instructions)
      /\ intended \in Boards /\ emitted \in Boards
      /\ pc' = "optimize" /\ instructions' = instructions /\ next' = next + 1
      /\ intended' = Run(intended, ins)
  BY DEF OptimiserInv, Visit
<1>2. ins \in BaseInstructions /\ (SleepsFit(instructions) => SleepFits(ins))
  BY <1>1, ElementOfSeq DEF SleepsFit, SleepFits
<1> HIDE DEF ins
<1>3. /\ prevIns' \in Seq(BaseInstructions) /\ Len(prevIns') <= 1
      /\ prevIns' # <<>> /\ prevIns'[1] = ins
      /\ SleepFits(ins) => SleepsFit(prevIns')
  BY <1>2, OnePending DEF ins
<1>4. intended' \in Boards /\ emitted' \in Boards /\ next' \in Nat \ {0}
  BY <1>1, <1>2, RunType
<1>5. SameEffect'
  <2> SUFFICES ASSUME SleepsFit(instructions) PROVE intended' = Run(emitted', prevIns'[1])
    BY <1>1, <1>3 DEF SameEffect
  <2>1. intended = emitted
    BY DEF OptimiserInv, SameEffect
  <2> QED
    BY <1>1, <1>3, <2>1
<1> QED
  BY <1>1, <1>2, <1>3, <1>4, <1>5 DEF OptimiserInv

\* The pending instruction goes to the output, and the next one is pended.
LEMMA VisitEmit ==
  ASSUME OptimiserInv, Visit, prevIns # <<>>, prevIns' = <<instructions[next]>>,
         emitted' = Run(emitted, prevIns[1])
  PROVE  OptimiserInv'
<1> DEFINE ins == instructions[next]
<1>1. /\ instructions \in Seq(BaseInstructions) /\ next \in 1 .. Len(instructions)
      /\ intended \in Boards /\ emitted \in Boards
      /\ pc' = "optimize" /\ instructions' = instructions /\ next' = next + 1
      /\ intended' = Run(intended, ins)
  BY DEF OptimiserInv, Visit
<1>2. ins \in BaseInstructions /\ (SleepsFit(instructions) => SleepFits(ins))
  BY <1>1, ElementOfSeq DEF SleepsFit, SleepFits
<1> HIDE DEF ins
<1>3. /\ prevIns' \in Seq(BaseInstructions) /\ Len(prevIns') <= 1
      /\ prevIns' # <<>> /\ prevIns'[1] = ins
      /\ SleepFits(ins) => SleepsFit(prevIns')
  BY <1>2, OnePending DEF ins
<1>4. intended' \in Boards /\ emitted' \in Boards /\ next' \in Nat \ {0}
  BY <1>1, <1>2, RunType, Pending
<1>5. SameEffect'
  <2> SUFFICES ASSUME SleepsFit(instructions) PROVE intended' = Run(emitted', prevIns'[1])
    BY <1>1, <1>3 DEF SameEffect
  <2>1. intended = Run(emitted, prevIns[1])
    BY DEF OptimiserInv, SameEffect
  <2> QED
    BY <1>1, <1>3, <2>1
<1> QED
  BY <1>1, <1>2, <1>3, <1>4, <1>5 DEF OptimiserInv

\* The instruction is merged into the pending one.
LEMMA VisitMerge ==
  ASSUME OptimiserInv, Visit, prevIns # <<>>, CanCombine(prevIns[1], instructions[next]),
         prevIns' = <<Combine(prevIns[1], instructions[next])>>, UNCHANGED emitted
  PROVE  OptimiserInv'
<1> DEFINE ins == instructions[next]
           merged == Combine(prevIns[1], ins)
<1>1. /\ instructions \in Seq(BaseInstructions) /\ next \in 1 .. Len(instructions)
      /\ intended \in Boards /\ emitted \in Boards
      /\ pc' = "optimize" /\ instructions' = instructions /\ next' = next + 1
      /\ intended' = Run(intended, ins)
  BY DEF OptimiserInv, Visit
<1>2. ins \in BaseInstructions /\ (SleepsFit(instructions) => SleepFits(ins))
  BY <1>1, ElementOfSeq DEF SleepsFit, SleepFits
<1>3. merged \in BaseInstructions /\ (SleepsFit(instructions) => SleepFits(merged))
  BY <1>2, Pending, CombineType
<1> HIDE DEF merged
<1>4. /\ prevIns' \in Seq(BaseInstructions) /\ Len(prevIns') <= 1
      /\ prevIns' # <<>> /\ prevIns'[1] = merged
      /\ SleepFits(merged) => SleepsFit(prevIns')
  BY <1>3, OnePending DEF merged
<1>5. intended' \in Boards /\ emitted' \in Boards /\ next' \in Nat \ {0}
  BY <1>1, <1>2, RunType
<1>6. SameEffect'
  <2> SUFFICES ASSUME SleepsFit(instructions) PROVE intended' = Run(emitted, merged)
    BY <1>1, <1>4 DEF SameEffect
  <2>1. intended = Run(emitted, prevIns[1])
    BY DEF OptimiserInv, SameEffect
  <2>2. Run(Run(emitted, prevIns[1]), ins) = Run(emitted, merged)
    BY <1>1, <1>2, Pending, CombineEffect DEF merged
  <2> QED
    BY <1>1, <2>1, <2>2
<1> QED
  BY <1>1, <1>2, <1>3, <1>4, <1>5, <1>6 DEF OptimiserInv

\* The halt is added, merged with the pending instruction or not.
LEMMA AddHaltKeeps ==
  ASSUME OptimiserInv, AddHalt
  PROVE  OptimiserInv'
<1>1. /\ instructions \in Seq(BaseInstructions) /\ instructions' = instructions
      /\ pc = "optimize" /\ pc' = "compile" /\ prevIns # <<>> /\ prevIns' = <<>>
      /\ intended \in Boards /\ emitted \in Boards
      /\ intended' = Run(intended, Halt)
  BY DEF OptimiserInv, AddHalt
<1>2. Halt \in BaseInstructions /\ SleepFits(Halt)
  BY DEF Halt, BaseInstructions, SleepFits
<1>3. SleepsFit(instructions) => intended' = emitted'
  <2> SUFFICES ASSUME SleepsFit(instructions) PROVE intended' = emitted'
    OBVIOUS
  <2>1. intended = Run(emitted, prevIns[1])
    BY <1>1 DEF OptimiserInv, SameEffect
  <2>2. CASE CanCombine(prevIns[1], Halt)
    <3>1. emitted' = Run(emitted, Combine(prevIns[1], Halt))
      BY <2>2 DEF AddHalt
    <3>2. Run(Run(emitted, prevIns[1]), Halt) = Run(emitted, Combine(prevIns[1], Halt))
      BY <1>1, <1>2, <2>2, Pending, CombineEffect
    <3> QED
      BY <1>1, <2>1, <3>1, <3>2
  <2>3. CASE ~CanCombine(prevIns[1], Halt)
    <3>1. emitted' = Run(Run(emitted, prevIns[1]), Halt)
      BY <2>3 DEF AddHalt
    <3> QED
      BY <1>1, <2>1, <3>1
  <2> QED
    BY <2>2, <2>3
<1>4. prevIns' \in Seq(BaseInstructions) /\ Len(prevIns') <= 1 /\ SleepsFit(prevIns')
  BY <1>1 DEF SleepsFit
<1> QED
  BY <1>1, <1>3, <1>4 DEF OptimiserInv, SameEffect

THEOREM OptimiserNext == OptimiserInv /\ [ScriptNext]_scriptVars => OptimiserInv'
<1> SUFFICES ASSUME OptimiserInv, [ScriptNext]_scriptVars PROVE OptimiserInv'
  OBVIOUS
<1>1. CASE Visit
  BY <1>1, VisitFirst, VisitEmit, VisitMerge DEF Visit
<1>2. CASE AddHalt
  BY <1>2, AddHaltKeeps
<1>3. ASSUME UNCHANGED <<instructions, prevIns, intended, emitted>>,
             pc # "optimize" \/ next' = next, pc' = "optimize" => pc = "optimize",
             pc' # "optimize" => prevIns = <<>>
      PROVE  OptimiserInv'
  BY <1>3 DEF OptimiserInv, SameEffect, SleepsFit
<1>4. CASE NothingToEnd
  BY <1>3, <1>4 DEF NothingToEnd
<1>5. CASE Compile
  BY <1>3, <1>5 DEF Compile, OptimiserInv
<1>6. CASE WriteOutput
  BY <1>3, <1>6 DEF WriteOutput, OptimiserInv
<1>7. CASE BoardStep
  BY <1>3, <1>7 DEF BoardStep, OptimiserInv
<1>8. CASE UNCHANGED scriptVars
  BY <1>3, <1>8 DEF scriptVars, OptimiserInv
<1> QED
  BY <1>1, <1>2, <1>4, <1>5, <1>6, <1>7, <1>8 DEF ScriptNext

THEOREM OptimiserInvariant == ScriptSpec => []OptimiserInv
BY OptimiserInit, OptimiserNext, PTL DEF ScriptSpec

\* Whatever the script, the optimised one has the same effect on the board.
THEOREM OptimiserKeepsEffect == ScriptSpec => []SameEffect
<1>1. OptimiserInv => SameEffect
  BY DEF OptimiserInv
<1> QED
  BY <1>1, OptimiserInvariant, PTL
-----------------------------------------------------------------------------

LEMMA ResetBoard == Reset \in Boards
<1>1. <<>> \in Seq(RegisterWrites)
  OBVIOUS
<1> QED
  BY <1>1 DEF Reset, Boards, RegisterWrites

\* The boards that Effects names are those that the instructions leave.
LEMMA EffectsStep ==
  ASSUME NEW script \in Seq(BaseInstructions)
  PROVE  /\ Effects(script)[0] = Reset
         /\ \A k \in 1 .. Len(script) :
              Effects(script)[k] = Run(Effects(script)[k - 1], script[k])
         /\ \A k \in 0 .. Len(script) : Effects(script)[k] \in Boards
<1> DEFINE N == Len(script)
           Step(b, k) == IF k = 0 THEN Reset ELSE Run(b, script[k])
           step == [q \in Boards \X (1 .. N) |-> Run(q[1], script[q[2]])]
           Body(boards) == [k \in 0 .. N |-> Step(boards[k - 1], k)]
<1>1. N \in Nat /\ \A k \in 1 .. N : script[k] \in BaseInstructions
  BY LenProperties, ElementOfSeq
<1>2. ASSUME NEW b \in Boards, NEW k \in 1 .. N
      PROVE  /\ Run(b, script[k]) \in Boards
             /\ step[<<b, k>>] = Run(b, script[k])
  BY <1>1, RunType
<1>3. step \in StepFunctions(Boards, N)
  BY <1>1, RunType DEF StepFunctions
<1>4. /\ \A b : Step(b, 0) = Reset
      /\ \A b, k : k \in 1 .. N => Step(b, k) = Run(b, script[k])
  BY <1>1
<1>5. Effects(script) = CHOOSE boards : boards = Body(boards)
  BY DEF Effects
<1> HIDE DEF step, Step, N
<1>6. PICK f \in [0 .. N -> Boards] : Follows(f, Reset, step, N)
  BY <1>1, <1>3, ResetBoard, RecursionExists
<1>7. f = Body(f)
  <2>1. ASSUME NEW k \in 0 .. N PROVE f[k] = Step(f[k - 1], k)
    <3>1. CASE k = 0
      BY <1>4, <1>6, <3>1 DEF Follows
    <3>2. CASE k # 0
      <4>1. k \in 1 .. N /\ k - 1 \in 0 .. N
        BY <1>1, <3>2
      <4>2. f[k - 1] \in Boards
        BY <1>6, <4>1
      <4>3. Step(f[k - 1], k) = Run(f[k - 1], script[k])
        BY <1>4, <4>1
      <4>4. step[<<f[k - 1], k>>] = Run(f[k - 1], script[k])
        BY <1>2, <4>1, <4>2
      <4>5. f[k] = step[<<f[k - 1], k>>]
        BY <1>6, <4>1 DEF Follows
      <4> QED
        BY <4>3, <4>4, <4>5
    <3> QED
      BY <3>1, <3>2
  <2> QED
    BY <1>6, <2>1
<1>8. Effects(script) = Body(Effects(script))
  <2> HIDE DEF Body
  <2> QED
    BY <1>5, <1>7
<1> DEFINE boards == Effects(script)
<1>9. boards = Body(boards)
  BY <1>8
<1> HIDE DEF boards
<1>10. boards[0] = Reset /\ \A k \in 1 .. N : boards[k] = Run(boards[k - 1], script[k])
  <2>1. \A k \in 0 .. N : boards[k] = Step(boards[k - 1], k)
    BY <1>9
  <2>2. 0 \in 0 .. N /\ \A k \in 1 .. N : k \in 0 .. N
    BY <1>1
  <2> QED
    BY <1>4, <2>1, <2>2
<1> DEFINE T == {k \in 0 .. N : boards[k] \in Boards}
<1>11. 0 \in T
  BY <1>1, <1>10, ResetBoard
<1>12. ASSUME NEW k \in 0 .. N - 1, k \in T PROVE k + 1 \in T
  <2>1. k + 1 \in 1 .. N /\ k + 1 \in 0 .. N /\ k + 1 - 1 = k
    BY <1>1
  <2>2. boards[k + 1] = Run(boards[k], script[k + 1])
    BY <1>10, <2>1
  <2> QED
    BY <1>1, <1>12, <2>1, <2>2, RunType
<1> HIDE DEF T
<1>13. 0 .. N \subseteq T
  BY <1>1, <1>11, <1>12, BoundedInduction
<1> QED
  BY <1>10, <1>13 DEF T, boards, N

\* Its length in bytecode: two words and the values, or one value without a
\* count.
LEMMA AssembledLength ==
  ASSUME NEW ins \in BaseInstructions
  PROVE  /\ Len(Assemble(ins)) \in Nat /\ Len(Assemble(ins)) >= 1
         /\ Assemble(ins) \in Seq(Int)
         /\ ins.op = "store" =>
              /\ Len(ins.values) \in Nat /\ Len(ins.values) >= 1
              /\ Len(Assemble(ins)) = IF Len(ins.values) = 1 THEN 2 ELSE 2 + Len(ins.values)
         /\ ins.op # "store" => Len(Assemble(ins)) = 1
<1>1. CASE ins.op = "store"
  <2>1. ins.base \in Int /\ ins.values \in Seq(Words) /\ ins.values # <<>>
    BY <1>1, InstructionFields
  <2>2. Words \subseteq Int
    BY IntWidth DEF Words
  <2>3. ins.values \in Seq(Int)
    BY <2>1, <2>2, SeqMonotonic
  <2>4. Len(ins.values) \in Nat /\ Len(ins.values) >= 1
    BY <2>1, EmptySeq
  <2>5. CASE Len(ins.values) = 1
    <3>1. Assemble(ins) = <<ins.base>> \o ins.values
      BY <1>1, <2>5 DEF Assemble
    <3>2. <<ins.base>> \in Seq(Int) /\ Len(<<ins.base>>) = 1
      BY <2>1
    <3>3. Assemble(ins) \in Seq(Int) /\ Len(Assemble(ins)) = 1 + Len(ins.values)
      BY <2>3, <3>1, <3>2, ConcatProperties
    <3> QED
      BY <1>1, <2>4, <2>5, <3>3
  <2>6. CASE Len(ins.values) # 1
    <3>1. Assemble(ins) = <<ins.base + 1, Len(ins.values)>> \o ins.values
      BY <1>1, <2>6 DEF Assemble
    <3>2. /\ <<ins.base + 1, Len(ins.values)>> \in Seq(Int)
          /\ Len(<<ins.base + 1, Len(ins.values)>>) = 2
      BY <2>1, <2>4
    <3>3. Assemble(ins) \in Seq(Int) /\ Len(Assemble(ins)) = 2 + Len(ins.values)
      BY <2>3, <3>1, <3>2, ConcatProperties
    <3> QED
      BY <1>1, <2>4, <2>6, <3>3
  <2> QED
    BY <2>5, <2>6
<1>2. CASE ins.op = "sleep"
  <2>1. Assemble(ins) = <<SleepWord(ins.timeout) + 2>>
    BY <1>2 DEF Assemble
  <2>2. ins.timeout * 16 \in Int
    BY <1>2, InstructionFields
  <2>3. SleepWord(ins.timeout) + 2 \in Int
    BY <2>2, IntRange, IntWidth DEF SleepWord, Ints
  <2> QED
    BY <1>2, <2>1, <2>3
<1>3. CASE ins.op = "halt"
  BY <1>3 DEF Assemble
<1> QED
  BY <1>1, <1>2, <1>3, InstructionFields

\* The positions are the sums of the lengths.
LEMMA PositionsStep ==
  ASSUME NEW script \in Seq(BaseInstructions)
  PROVE  /\ Positions(script)[0] = 0
         /\ \A k \in 1 .. Len(script) :
              Positions(script)[k] = Positions(script)[k - 1] + Len(Assemble(script[k]))
         /\ \A k \in 0 .. Len(script) : Positions(script)[k] \in Nat
<1> DEFINE N == Len(script)
           Length(k) == Len(Assemble(script[k]))
           Step(p, k) == IF k = 0 THEN 0 ELSE p + Length(k)
           step == [q \in Nat \X (1 .. N) |-> q[1] + Length(q[2])]
           Body(p) == [k \in 0 .. N |-> Step(p[k - 1], k)]
<1>1. N \in Nat /\ \A k \in 1 .. N : Length(k) \in Nat
  BY LenProperties, ElementOfSeq, AssembledLength
<1>2. Positions(script) = CHOOSE p : p = Body(p)
  BY DEF Positions
<1> HIDE DEF Length
<1>3. \A n \in Nat, k \in 1 .. N : step[<<n, k>>] = n + Length(k)
  OBVIOUS
<1>4. step \in StepFunctions(Nat, N)
  BY <1>1 DEF StepFunctions
<1>5. /\ \A n : Step(n, 0) = 0
      /\ \A n, k : k \in 1 .. N => Step(n, k) = n + Length(k)
  BY <1>1
<1> HIDE DEF step, Step, N
<1>6. PICK f \in [0 .. N -> Nat] : Follows(f, 0, step, N)
  BY <1>1, <1>4, RecursionExists
<1>7. f = Body(f)
  <2>1. ASSUME NEW k \in 0 .. N PROVE f[k] = Step(f[k - 1], k)
    <3>1. CASE k = 0
      BY <1>5, <1>6, <3>1 DEF Follows
    <3>2. CASE k # 0
      <4>1. k \in 1 .. N /\ k - 1 \in 0 .. N
        BY <1>1, <3>2
      <4>2. f[k - 1] \in Nat
        BY <1>6, <4>1
      <4> QED
        BY <1>3, <1>5, <1>6, <4>1, <4>2 DEF Follows
    <3> QED
      BY <3>1, <3>2
  <2> QED
    BY <1>6, <2>1
<1>8. Positions(script) = Body(Positions(script))
  <2> HIDE DEF Body
  <2> QED
    BY <1>2, <1>7
<1> DEFINE p == Positions(script)
<1>9. p = Body(p)
  BY <1>8
<1> HIDE DEF p
<1>10. p[0] = 0 /\ \A k \in 1 .. N : p[k] = p[k - 1] + Length(k)
  <2>1. \A k \in 0 .. N : p[k] = Step(p[k - 1], k)
    BY <1>9
  <2>2. 0 \in 0 .. N /\ \A k \in 1 .. N : k \in 0 .. N
    BY <1>1
  <2> QED
    BY <1>5, <2>1, <2>2
<1> DEFINE T == {k \in 0 .. N : p[k] \in Nat}
<1>11. 0 \in T
  BY <1>1, <1>10
<1>12. ASSUME NEW k \in 0 .. N - 1, k \in T PROVE k + 1 \in T
  <2>1. k + 1 \in 1 .. N /\ k + 1 \in 0 .. N /\ k + 1 - 1 = k
    BY <1>1
  <2>2. p[k + 1] = p[k] + Length(k + 1) /\ Length(k + 1) \in Nat /\ p[k] \in Nat
    BY <1>1, <1>10, <1>12, <2>1
  <2> QED
    BY <2>1, <2>2
<1> HIDE DEF T
<1>13. 0 .. N \subseteq T
  BY <1>1, <1>11, <1>12, BoundedInduction
<1> QED
  BY <1>10, <1>13 DEF T, p, N, Length
\* The boards and the positions of a script do not depend on what follows.
LEMMA EffectsAppend ==
  ASSUME NEW script \in Seq(BaseInstructions), NEW ins \in BaseInstructions
  PROVE  Effect(Append(script, ins)) = Run(Effect(script), ins)
<1> DEFINE N == Len(script)
           longer == Append(script, ins)
           A == Effects(script)
           B == Effects(longer)
           T == {k \in 0 .. N : A[k] = B[k]}
<1>1. /\ N \in Nat /\ longer \in Seq(BaseInstructions) /\ Len(longer) = N + 1
      /\ \A k \in 1 .. N : longer[k] = script[k]
      /\ longer[N + 1] = ins
  BY LenProperties, AppendProperties
<1>2. A[0] = Reset /\ \A k \in 1 .. N : A[k] = Run(A[k - 1], script[k])
  BY EffectsStep
<1> HIDE DEF longer
<1>3. B[0] = Reset /\ \A k \in 1 .. N + 1 : B[k] = Run(B[k - 1], longer[k])
  <2>1. /\ Effects(longer)[0] = Reset
        /\ \A k \in 1 .. Len(longer) : Effects(longer)[k] = Run(Effects(longer)[k - 1], longer[k])
    BY <1>1, EffectsStep
  <2> QED
    BY <1>1, <2>1
<1>4. Effect(script) = A[N] /\ Effect(longer) = B[N + 1]
  BY <1>1 DEF Effect
<1> HIDE DEF A, B, N
<1>5. 0 \in T
  BY <1>1, <1>2, <1>3
<1>6. ASSUME NEW k \in 0 .. N - 1, k \in T PROVE k + 1 \in T
  <2>1. k + 1 \in 1 .. N /\ k + 1 \in 1 .. N + 1 /\ k + 1 \in 0 .. N /\ k + 1 - 1 = k
    BY <1>1
  <2>2. A[k + 1] = Run(A[k], script[k + 1]) /\ B[k + 1] = Run(B[k], longer[k + 1])
    BY <1>2, <1>3, <2>1
  <2> QED
    BY <1>1, <1>6, <2>1, <2>2
<1> HIDE DEF T
<1>7. 0 .. N \subseteq T
  BY <1>1, <1>5, <1>6, BoundedInduction
<1>8. A[N] = B[N]
  BY <1>1, <1>7 DEF T
<1>9. B[N + 1] = Run(B[N], ins)
  <2>1. N + 1 \in 1 .. N + 1 /\ N + 1 - 1 = N
    BY <1>1
  <2> QED
    BY <1>1, <1>3, <2>1
<1> QED
  BY <1>4, <1>8, <1>9 DEF longer

LEMMA PositionsAppend ==
  ASSUME NEW script \in Seq(BaseInstructions), NEW ins \in BaseInstructions
  PROVE  Size(Append(script, ins)) = Size(script) + Len(Assemble(ins))
<1> DEFINE N == Len(script)
           longer == Append(script, ins)
           A == Positions(script)
           B == Positions(longer)
           T == {k \in 0 .. N : A[k] = B[k]}
           Length(one) == Len(Assemble(one))
<1>1. /\ N \in Nat /\ longer \in Seq(BaseInstructions) /\ Len(longer) = N + 1
      /\ \A k \in 1 .. N : longer[k] = script[k]
      /\ longer[N + 1] = ins
  BY LenProperties, AppendProperties
<1>2. A[0] = 0 /\ \A k \in 1 .. N : A[k] = A[k - 1] + Length(script[k])
  BY PositionsStep
<1> HIDE DEF longer
<1>3. B[0] = 0 /\ \A k \in 1 .. N + 1 : B[k] = B[k - 1] + Length(longer[k])
  <2>1. /\ Positions(longer)[0] = 0
        /\ \A k \in 1 .. Len(longer) :
             Positions(longer)[k] = Positions(longer)[k - 1] + Len(Assemble(longer[k]))
    BY <1>1, PositionsStep
  <2> QED
    BY <1>1, <2>1
<1>4. Size(script) = A[N] /\ Size(longer) = B[N + 1]
  BY <1>1 DEF Size
<1> HIDE DEF A, B, N, Length
<1>5. 0 \in T
  BY <1>1, <1>2, <1>3
<1>6. ASSUME NEW k \in 0 .. N - 1, k \in T PROVE k + 1 \in T
  <2>1. k + 1 \in 1 .. N /\ k + 1 \in 1 .. N + 1 /\ k + 1 \in 0 .. N /\ k + 1 - 1 = k
    BY <1>1
  <2>2. A[k + 1] = A[k] + Length(script[k + 1]) /\ B[k + 1] = B[k] + Length(longer[k + 1])
    BY <1>2, <1>3, <2>1
  <2> QED
    BY <1>1, <1>6, <2>1, <2>2
<1> HIDE DEF T
<1>7. 0 .. N \subseteq T
  BY <1>1, <1>5, <1>6, BoundedInduction
<1>8. A[N] = B[N]
  BY <1>1, <1>7 DEF T
<1>9. B[N + 1] = B[N] + Length(ins)
  <2>1. N + 1 \in 1 .. N + 1 /\ N + 1 - 1 = N
    BY <1>1
  <2> QED
    BY <1>1, <1>3, <2>1
<1> QED
  BY <1>4, <1>8, <1>9 DEF longer, Length

LEMMA EffectAndSize ==
  ASSUME NEW script \in Seq(BaseInstructions)
  PROVE  Effect(script) \in Boards /\ Size(script) \in Nat
<1>1. Len(script) \in 0 .. Len(script)
  BY LenProperties
<1>2. /\ \A k \in 0 .. Len(script) : Effects(script)[k] \in Boards
      /\ \A k \in 0 .. Len(script) : Positions(script)[k] \in Nat
  BY EffectsStep, PositionsStep
<1> QED
  BY <1>1, <1>2 DEF Effect, Size

\* The shortest scripts.
LEMMA ShortScripts ==
  /\ <<>> \in Seq(BaseInstructions) /\ Effect(<<>>) = Reset /\ Size(<<>>) = 0
  /\ \A ins \in BaseInstructions : Size(<<ins>>) = Len(Assemble(ins))
<1>1. <<>> \in Seq(BaseInstructions) /\ Len(<<>>) = 0
  BY EmptySeq
<1> DEFINE none == <<>>
<1>2. none \in Seq(BaseInstructions) /\ Len(none) = 0
  BY <1>1
<1> HIDE DEF none
<1>3. Effects(none)[0] = Reset /\ Positions(none)[0] = 0
  BY <1>2, EffectsStep, PositionsStep
<1>4. Effect(none) = Reset /\ Size(none) = 0
  BY <1>2, <1>3 DEF Effect, Size
<1>5. ASSUME NEW ins \in BaseInstructions PROVE Size(<<ins>>) = Len(Assemble(ins))
  <2>1. Append(none, ins) = <<ins>>
    BY DEF none
  <2>2. Size(Append(none, ins)) = Size(none) + Len(Assemble(ins))
    BY <1>2, PositionsAppend
  <2>3. Len(Assemble(ins)) \in Nat
    BY AssembledLength
  <2> DEFINE n == Len(Assemble(ins))
  <2>4. n \in Nat /\ Size(<<ins>>) = 0 + n
    BY <1>4, <2>1, <2>2, <2>3
  <2> HIDE DEF n
  <2>5. Size(<<ins>>) = n
    BY <2>4
  <2> QED
    BY <2>5 DEF n
<1> QED
  BY <1>1, <1>4, <1>5 DEF none

\* A halted board stays as it is.
LEMMA HaltedStays ==
  ASSUME NEW script \in Seq(BaseInstructions), NEW k \in 0 .. Len(script),
         Effects(script)[k].halted
  PROVE  Effect(script) = Effects(script)[k]
<1> DEFINE N == Len(script)
           A == Effects(script)
           T == {j \in 0 .. N : j >= k => A[j] = A[k]}
<1>1. N \in Nat /\ k \in 0 .. N /\ A[k].halted
  BY LenProperties
<1>2. \A j \in 1 .. N : A[j] = Run(A[j - 1], script[j])
  BY EffectsStep
<1>3. Effect(script) = A[N]
  BY DEF Effect
<1> HIDE DEF A, N
<1>4. 0 \in T
  <2>1. 0 >= k => k = 0
    BY <1>1
  <2> QED
    BY <1>1, <2>1
<1>5. ASSUME NEW j \in 0 .. N - 1, j \in T PROVE j + 1 \in T
  <2>1. j + 1 \in 1 .. N /\ j + 1 \in 0 .. N /\ j + 1 - 1 = j
    BY <1>1
  <2>2. A[j + 1] = Run(A[j], script[j + 1])
    BY <1>2, <2>1
  <2>3. CASE j + 1 = k
    BY <2>1, <2>3
  <2>4. CASE j >= k
    <3>1. A[j] = A[k]
      BY <1>5, <2>4
    <3>2. Run(A[j], script[j + 1]) = A[j]
      BY <1>1, <3>1 DEF Run
    <3> QED
      BY <2>1, <2>2, <3>1, <3>2
  <2>5. j + 1 >= k => j + 1 = k \/ j >= k
    BY <1>1
  <2> QED
    BY <2>1, <2>3, <2>4, <2>5
<1> HIDE DEF T
<1>6. 0 .. N \subseteq T
  BY <1>1, <1>4, <1>5, BoundedInduction
<1>7. N \in T /\ N >= k
  BY <1>1, <1>6
<1> QED
  BY <1>3, <1>7 DEF T, A

\* Every instruction begins after those before it.
LEMMA PositionsGrow ==
  ASSUME NEW script \in Seq(BaseInstructions), NEW k \in 0 .. Len(script)
  PROVE  /\ Positions(script)[k] <= Size(script)
         /\ k < Len(script) => Positions(script)[k] < Size(script)
<1> DEFINE N == Len(script)
           A == Positions(script)
           Length(i) == Len(Assemble(script[i]))
           T == {j \in 0 .. N : j > k => A[k] < A[j]}
<1>1. N \in Nat /\ k \in 0 .. N
  BY LenProperties
<1>2. /\ \A j \in 1 .. N : A[j] = A[j - 1] + Length(j)
      /\ \A j \in 0 .. N : A[j] \in Nat
  BY PositionsStep
<1>3. \A j \in 1 .. N : Length(j) \in Nat /\ Length(j) >= 1
  <2>1. \A j \in 1 .. N : script[j] \in BaseInstructions
    BY ElementOfSeq
  <2> QED
    BY <2>1, AssembledLength
<1>4. Size(script) = A[N]
  BY DEF Size
<1> HIDE DEF A, N, Length
<1>5. 0 \in T
  BY <1>1
<1>6. ASSUME NEW j \in 0 .. N - 1, j \in T PROVE j + 1 \in T
  <2>1. /\ j + 1 \in 1 .. N /\ j + 1 \in 0 .. N /\ j + 1 - 1 = j /\ j \in 0 .. N
        /\ A[k] \in Nat /\ A[j] \in Nat
    BY <1>1, <1>2
  <2>2. A[j + 1] > A[j] /\ A[j + 1] \in Nat
    <3>1. A[j + 1] = A[j] + Length(j + 1) /\ Length(j + 1) \in Nat /\ Length(j + 1) >= 1
      BY <1>2, <1>3, <2>1
    <3> QED
      BY <2>1, <3>1
  <2>3. j + 1 > k => j = k \/ j > k
    BY <1>1
  <2>4. j + 1 > k => A[k] < A[j + 1]
    BY <1>6, <2>1, <2>2, <2>3
  <2> QED
    BY <2>1, <2>4
<1> HIDE DEF T
<1>7. 0 .. N \subseteq T
  BY <1>1, <1>5, <1>6, BoundedInduction
<1>8. N \in T /\ A[k] \in Nat /\ A[N] \in Nat
  BY <1>1, <1>2, <1>7
<1>9. N > k => A[k] < A[N]
  BY <1>8 DEF T
<1>10. N > k \/ N = k
  BY <1>1
<1>11. A[k] <= A[N] /\ (k < N => A[k] < A[N])
  BY <1>1, <1>8, <1>9, <1>10
<1> QED
  BY <1>4, <1>11 DEF A, N

\* No instruction is longer than the script.
LEMMA LengthInScript ==
  ASSUME NEW script \in Seq(BaseInstructions), NEW k \in 1 .. Len(script)
  PROVE  Len(Assemble(script[k])) <= Size(script)
<1> DEFINE n == Len(Assemble(script[k]))
           p == Positions(script)[k - 1]
           q == Positions(script)[k]
<1>1. Len(script) \in Nat /\ k \in 0 .. Len(script) /\ k - 1 \in 0 .. Len(script)
  BY LenProperties
<1>2. /\ \A j \in 1 .. Len(script) :
           Positions(script)[j] = Positions(script)[j - 1] + Len(Assemble(script[j]))
      /\ \A j \in 0 .. Len(script) : Positions(script)[j] \in Nat
  BY PositionsStep
<1>3. q = p + n /\ p \in Nat /\ q \in Nat
  BY <1>1, <1>2
<1>4. q <= Size(script) /\ Size(script) \in Nat /\ n \in Nat
  <2>1. script[k] \in BaseInstructions
    BY ElementOfSeq
  <2> QED
    BY <1>1, <2>1, PositionsGrow, EffectAndSize, AssembledLength
<1> HIDE DEF n, p, q
<1>5. n <= Size(script)
  BY <1>3, <1>4
<1> QED
  BY <1>5 DEF n
-----------------------------------------------------------------------------
(* What the board reads is what was assembled *)

\* The words of a store.
LEMMA SingleWords ==
  ASSUME NEW ins \in BaseInstructions, ins.op = "store", Len(ins.values) = 1
  PROVE  /\ Len(Assemble(ins)) = 2
         /\ Assemble(ins)[1] = ins.base /\ Assemble(ins)[2] = ins.values[1]
<1>1. ins.base \in Int /\ ins.values \in Seq(Words)
  BY InstructionFields
<1>2. Assemble(ins) = <<ins.base>> \o ins.values
  BY DEF Assemble
<1>3. Words \subseteq Int /\ ins.values \in Seq(Int)
  <2>1. Words \subseteq Int
    BY IntWidth DEF Words
  <2> QED
    BY <1>1, <2>1, SeqMonotonic
<1> DEFINE first == <<ins.base>>
<1>4. first \in Seq(Int) /\ Len(first) = 1 /\ first[1] = ins.base
  BY <1>1
<1> HIDE DEF first
<1>5. /\ Len(first \o ins.values) = Len(first) + Len(ins.values)
      /\ \A i \in 1 .. Len(first) + Len(ins.values) :
           (first \o ins.values)[i] = IF i <= Len(first) THEN first[i] ELSE ins.values[i - Len(first)]
  BY <1>3, <1>4, ConcatProperties
<1>6. (first \o ins.values)[1] = ins.base /\ (first \o ins.values)[2] = ins.values[1]
  BY <1>4, <1>5
<1> QED
  BY <1>2, <1>4, <1>5, <1>6 DEF first

LEMMA FillWords ==
  ASSUME NEW ins \in BaseInstructions, ins.op = "store", Len(ins.values) # 1
  PROVE  /\ Len(ins.values) \in Nat /\ Len(ins.values) > 1
         /\ Len(Assemble(ins)) = 2 + Len(ins.values)
         /\ Assemble(ins)[1] = ins.base + 1
         /\ Assemble(ins)[2] = Len(ins.values)
         /\ \A i \in 1 .. Len(ins.values) : Assemble(ins)[i + 2] = ins.values[i]
<1>1. ins.base \in Int /\ ins.values \in Seq(Words) /\ ins.values # <<>>
  BY InstructionFields
<1> DEFINE n == Len(ins.values)
           first == <<ins.base + 1, n>>
<1>2. n \in Nat /\ n > 1
  <2>1. n \in Nat \ {0} /\ n # 1
    BY <1>1, EmptySeq
  <2> HIDE DEF n
  <2> QED
    BY <2>1
<1>3. Assemble(ins) = first \o ins.values
  BY DEF Assemble
<1>4. Words \subseteq Int /\ ins.values \in Seq(Int)
  <2>1. Words \subseteq Int
    BY IntWidth DEF Words
  <2> QED
    BY <1>1, <2>1, SeqMonotonic
<1> HIDE DEF n
<1>5. first \in Seq(Int) /\ Len(first) = 2 /\ first[1] = ins.base + 1 /\ first[2] = n
  BY <1>1, <1>2
<1> HIDE DEF first
<1>6. /\ Len(first \o ins.values) = Len(first) + Len(ins.values)
      /\ \A i \in 1 .. Len(first) + Len(ins.values) :
           (first \o ins.values)[i] = IF i <= Len(first) THEN first[i] ELSE ins.values[i - Len(first)]
  BY <1>4, <1>5, ConcatProperties
<1>7. /\ Len(Assemble(ins)) = 2 + n
      /\ Assemble(ins)[1] = ins.base + 1 /\ Assemble(ins)[2] = n
  BY <1>2, <1>3, <1>5, <1>6 DEF n
<1>8. ASSUME NEW i \in 1 .. n PROVE Assemble(ins)[i + 2] = ins.values[i]
  <2>1. i + 2 \in 1 .. 2 + n /\ ~(i + 2 <= 2) /\ i + 2 - 2 = i
    BY <1>2
  <2> QED
    BY <1>3, <1>5, <1>6, <2>1 DEF n
<1> QED
  BY <1>2, <1>7, <1>8 DEF n

\* The word of a sleep that can be compiled, and what the board makes of it.
LEMMA SleepDecodes ==
  ASSUME NEW t \in Int, Fits(16, SleepWord(t))
  PROVE  /\ SleepWord(t) + 2 \in Words
         /\ (SleepWord(t) + 2) % 4 = 2 /\ (SleepWord(t) + 2) % 16 = 2
         /\ (SleepWord(t) + 2) \div 16 \in Ints
         /\ t \in 0 .. MaxSleep => (SleepWord(t) + 2) \div 16 = t
<1> DEFINE w == SleepWord(t)
<1>1. PICK k \in Nat : IntMod = 32 * k /\ IntMod \div 2 = 16 * k /\ IntMod \div 16 = 2 * k /\ k >= 1
  BY ScriptAssumption DEF ScriptAssumption
<1>2. w \in 0 .. 32 * k - 1 /\ w % 16 = 0
  BY <1>1 DEF Fits, Words
<1>3. t \in 0 .. MaxSleep => w = 16 * t
  <2> SUFFICES ASSUME t \in 0 .. MaxSleep PROVE w = 16 * t
    OBVIOUS
  <2>1. t <= 2 * k - 1 /\ t >= 0
    BY <1>1 DEF MaxSleep
  <2>2. w = ((t * 16 + 16 * k) % (32 * k)) - 16 * k
    BY <1>1 DEF SleepWord, ToInt
  <2>3. CASE t < k
    <3>1. (t * 16 + 16 * k) % (32 * k) = t * 16 + 16 * k
      BY <1>1, <2>1, <2>3
    <3> QED
      BY <2>2, <3>1
  <2>4. CASE t >= k
    <3>1. (t * 16 + 16 * k) % (32 * k) = t * 16 - 16 * k
      BY <1>1, <2>1, <2>4
    <3>2. w < 0
      BY <1>1, <2>1, <2>2, <3>1
    <3> QED
      BY <1>2, <3>2
  <2> QED
    BY <1>1, <2>3, <2>4
<1> HIDE DEF w
<1>4. PICK j \in Nat : w = 16 * j /\ j < 2 * k
  BY <1>1, <1>2
<1>5. /\ w + 2 \in 0 .. 32 * k - 1 /\ (w + 2) % 4 = 2 /\ (w + 2) % 16 = 2
      /\ (w + 2) \div 16 = j
  BY <1>1, <1>4
<1>6. j \in -(16 * k) .. (16 * k - 1) /\ (t \in 0 .. MaxSleep => j = t)
  BY <1>1, <1>3, <1>4, IntWidth
<1> QED
  BY <1>1, <1>5, <1>6 DEF w, Words, Ints

\* Where an instruction is in the bytecode.
Holds(code, p, ins) ==
  /\ Assembles(ins)
  /\ p + Len(Assemble(ins)) <= Len(code)
  /\ \A j \in 1 .. Len(Assemble(ins)) : code[p + j] = Assemble(ins)[j]

\* A store does the same to the board whatever module it names.
LEMMA RunAbsolute ==
  ASSUME NEW b, NEW ins \in BaseInstructions, ins.op = "store"
  PROVE  Run(b, Store(NoModule, ins.base, ins.values)) = Run(b, ins)
<1> DEFINE absolute == Store(NoModule, ins.base, ins.values)
<1>1. absolute.op = "store" /\ absolute.base = ins.base /\ absolute.values = ins.values
  BY DEF Store
<1> HIDE DEF absolute
<1>2. Writes(absolute, b.slept) = Writes(ins, b.slept)
  BY <1>1 DEF Writes
<1>3. CASE b.halted
  BY <1>3 DEF Run, absolute
<1>4. CASE ~b.halted
  <2>1. Run(b, absolute) = [writes |-> b.writes \o Writes(absolute, b.slept),
                            slept |-> 0, halted |-> FALSE]
    BY <1>1, <1>4, RunStore
  <2>2. Run(b, ins) = [writes |-> b.writes \o Writes(ins, b.slept),
                       slept |-> 0, halted |-> FALSE]
    BY <1>4, RunStore
  <2> QED
    BY <1>2, <2>1, <2>2 DEF absolute
<1> QED
  BY <1>3, <1>4

\* The addresses of registers leave two bits for the opcode of a store.
LEMMA StoreOpcodes ==
  ASSUME NEW a \in Nat, a % 4 = 0
  PROVE  /\ a % 4 # 1 /\ a % 16 # 2
         /\ (a + 1) % 4 = 1 /\ (a + 1) % 4 # 0 /\ (a + 1) % 16 # 2
<1>1. PICK k \in Nat : a = 4 * k
  OBVIOUS
<1> QED
  BY <1>1

\* The board fetches the instruction that was assembled.
LEMMA Decodes ==
  ASSUME NEW code \in Seq(Words), NEW p \in Nat, NEW ins \in BaseInstructions,
         Holds(code, p, ins)
  PROVE  /\ Fetch(code, p + 1).len = Len(Assemble(ins))
         /\ Fetch(code, p + 1).ins \in BaseInstructions
         /\ SleepFits(ins) => \A b : Run(b, Fetch(code, p + 1).ins) = Run(b, ins)
<1> DEFINE w == code[p + 1]
           n == Len(ins.values)
<1>1. /\ Len(Assemble(ins)) \in Nat /\ Len(Assemble(ins)) >= 1
      /\ Len(code) \in Nat /\ p + Len(Assemble(ins)) <= Len(code)
  BY AssembledLength, LenProperties DEF Holds
<1>2. w = Assemble(ins)[1]
  BY <1>1 DEF Holds
<1>3. CASE ins.op = "store" /\ n = 1
  <2>1. /\ ins.base % 4 = 0 /\ ins.base \in Nat
        /\ ins.values \in Seq(Words) /\ ins.values # <<>>
        /\ ins = Store(ins.module, ins.base, ins.values)
    BY <1>3, InstructionFields DEF Holds, Assembles, Fits
  <2>2. w = ins.base /\ code[p + 2] = ins.values[1] /\ Len(Assemble(ins)) = 2
    BY <1>2, <1>3, SingleWords DEF Holds
  <2>3. Fetch(code, p + 1) = [ins |-> Store(NoModule, w, <<code[p + 2]>>), len |-> 2]
    <3>1. w % 4 = 0 /\ w % 4 # 1 /\ w % 16 # 2 /\ p + 1 + 1 = p + 2
      BY <2>1, <2>2, StoreOpcodes
    <3> HIDE DEF w
    <3>2. code[p + 1] = w
      BY DEF w
    <3> QED
      BY <3>1, <3>2 DEF Fetch
  <2>4. <<code[p + 2]>> = ins.values
    <3>1. ins.values[1] \in Words
      BY <1>3, <2>1, ElementOfSeq
    <3> DEFINE one == <<code[p + 2]>>
    <3>2. one \in Seq(Words) /\ Len(one) = 1 /\ one[1] = ins.values[1]
      BY <2>2, <3>1
    <3> HIDE DEF one
    <3>3. one = ins.values
      BY <1>3, <2>1, <3>2, SeqEqual
    <3> QED
      BY <3>3 DEF one
  <2>5. Fetch(code, p + 1) = [ins |-> Store(NoModule, ins.base, ins.values), len |-> 2]
    BY <2>2, <2>3, <2>4
  <2>6. Store(NoModule, ins.base, ins.values) \in BaseInstructions
    BY <2>1, StoreFields
  <2> QED
    BY <1>3, <2>2, <2>5, <2>6, RunAbsolute
<1>4. CASE ins.op = "store" /\ n # 1
  <2>1. /\ ins.base % 4 = 0 /\ ins.base \in Nat
        /\ ins.values \in Seq(Words) /\ ins.values # <<>>
        /\ ins = Store(ins.module, ins.base, ins.values)
    BY <1>4, InstructionFields DEF Holds, Assembles, Fits
  <2>2. /\ n \in Nat /\ n > 1 /\ Len(Assemble(ins)) = 2 + n
        /\ Assemble(ins)[1] = ins.base + 1 /\ Assemble(ins)[2] = n
        /\ \A i \in 1 .. n : Assemble(ins)[i + 2] = ins.values[i]
    BY <1>4, FillWords
  <2> HIDE DEF n, w
  <2>3. w = ins.base + 1 /\ code[p + 2] = n
    BY <1>2, <2>2 DEF Holds
  <2>4. ASSUME NEW i \in 1 .. n PROVE code[p + 2 + i] = ins.values[i]
    <3>1. i + 2 \in 1 .. 2 + n /\ p + (i + 2) = p + 2 + i
      BY <2>2
    <3> QED
      BY <2>2, <3>1 DEF Holds
  <2> DEFINE vals == SubSeq(code, p + 3, p + 2 + n)
  <2>5. vals = ins.values
    <3> DEFINE lo == p + 3
               hi == p + 2 + n
    <3>1. /\ lo \in Int /\ hi \in Int /\ lo <= hi /\ hi - lo + 1 = n
          /\ \A i \in lo .. hi : i \in 1 .. Len(code)
          /\ \A i \in 1 .. n : lo + i - 1 = p + 2 + i
      BY <1>1, <2>2
    <3> HIDE DEF lo, hi
    <3>2. \A i \in lo .. hi : code[i] \in Words
      BY <3>1, ElementOfSeq
    <3>3. /\ SubSeq(code, lo, hi) \in Seq(Words)
          /\ Len(SubSeq(code, lo, hi)) = IF lo <= hi THEN hi - lo + 1 ELSE 0
          /\ \A i \in 1 .. hi - lo + 1 : SubSeq(code, lo, hi)[i] = code[lo + i - 1]
      BY <3>1, <3>2, SubSeqProperties
    <3>4. vals = SubSeq(code, lo, hi)
      BY DEF lo, hi
    <3> HIDE DEF vals
    <3>5. Len(vals) = n /\ \A i \in 1 .. n : vals[i] = ins.values[i]
      BY <2>4, <3>1, <3>3, <3>4
    <3> QED
      BY <2>1, <3>3, <3>4, <3>5, SeqEqual DEF n
  <2>6. Fetch(code, p + 1) = [ins |-> Store(NoModule, w - 1, vals), len |-> 2 + n]
    <3>1. w % 4 = 1 /\ w % 4 # 0 /\ w % 16 # 2
      BY <2>1, <2>3, StoreOpcodes
    <3>2. p + 1 + 1 = p + 2 /\ p + 1 + 2 = p + 3 /\ p + 1 + 1 + n = p + 2 + n
      BY <2>2
    <3>3. code[p + 1] = w
      BY DEF w
    <3> QED
      BY <2>3, <3>1, <3>2, <3>3 DEF Fetch
  <2> HIDE DEF vals
  <2>7. w - 1 = ins.base
    BY <2>1, <2>3
  <2>8. Fetch(code, p + 1) = [ins |-> Store(NoModule, ins.base, ins.values), len |-> 2 + n]
    BY <2>5, <2>6, <2>7
  <2>9. Store(NoModule, ins.base, ins.values) \in BaseInstructions
    BY <2>1, StoreFields
  <2> QED
    BY <1>4, <2>2, <2>8, <2>9, RunAbsolute
<1>5. CASE ins.op = "sleep"
  <2> DEFINE t == ins.timeout
  <2>1. t \in Int /\ ins = Sleep(t)
    BY <1>5, InstructionFields
  <2>2. Fits(16, SleepWord(t))
    BY <1>5 DEF Holds, Assembles
  <2>3. /\ w = SleepWord(t) + 2 /\ Len(Assemble(ins)) = 1
    BY <1>2, <1>5 DEF Assemble
  <2> HIDE DEF t, w
  <2>4. /\ w % 4 = 2 /\ w % 16 = 2 /\ w \div 16 \in Ints
        /\ t \in 0 .. MaxSleep => w \div 16 = t
    BY <2>1, <2>2, <2>3, SleepDecodes
  <2>5. Fetch(code, p + 1) = [ins |-> Sleep(w \div 16), len |-> 1]
    <3>1. w % 4 # 0 /\ w % 4 # 1
      BY <2>4
    <3> QED
      BY <2>4, <3>1 DEF Fetch, w
  <2>6. Sleep(w \div 16) \in BaseInstructions
    BY <2>4 DEF Sleep, BaseInstructions
  <2>7. SleepFits(ins) => Sleep(w \div 16) = ins
    BY <1>5, <2>1, <2>4 DEF SleepFits, t
  <2> QED
    BY <2>3, <2>5, <2>6, <2>7
<1>6. CASE ins.op = "halt"
  <2>1. w = 6 /\ Len(Assemble(ins)) = 1 /\ ins = Halt
    BY <1>2, <1>6, InstructionFields DEF Assemble
  <2>2. Fetch(code, p + 1) = [ins |-> Halt, len |-> 1]
    <3>1. 6 % 4 = 2 /\ 6 % 16 = 6
      OBVIOUS
    <3> QED
      BY <2>1, <3>1 DEF Fetch
  <2> QED
    BY <2>1, <2>2
<1> QED
  BY <1>3, <1>4, <1>5, <1>6, InstructionFields
\* All the words of an instruction that is not too long are words.
LEMMA AssembledWords ==
  ASSUME NEW ins \in BaseInstructions, Assembles(ins), Len(Assemble(ins)) < IntMod
  PROVE  Assemble(ins) \in Seq(Words)
<1>1. IntMod \in Nat /\ IntMod >= 32 /\ IntMod % 4 = 0 /\ Words = 0 .. IntMod - 1
  <2>1. PICK k \in Nat : IntMod = 32 * k /\ k >= 1
    BY ScriptAssumption DEF ScriptAssumption
  <2> QED
    BY <2>1 DEF Words
<1>2. CASE ins.op = "store"
  <2>1. /\ ins.base \in Words /\ ins.base % 4 = 0
        /\ ins.values \in Seq(Words) /\ ins.values # <<>>
    BY <1>2, InstructionFields DEF Assembles, Fits
  <2>2. ins.base + 1 \in Words
    <3>1. PICK j \in Nat : IntMod = 4 * j
      BY <1>1
    <3>2. PICK i \in Nat : ins.base = 4 * i
      BY <1>1, <2>1
    <3> QED
      BY <1>1, <2>1, <3>1, <3>2
  <2>3. CASE Len(ins.values) = 1
    <3>1. Assemble(ins) = <<ins.base>> \o ins.values
      BY <1>2, <2>3 DEF Assemble
    <3>2. <<ins.base>> \in Seq(Words)
      BY <2>1
    <3> QED
      BY <2>1, <3>1, <3>2, ConcatProperties
  <2>4. CASE Len(ins.values) # 1
    <3>1. Assemble(ins) = <<ins.base + 1, Len(ins.values)>> \o ins.values
      BY <1>2, <2>4 DEF Assemble
    <3>2. Len(ins.values) \in Words
      <4> DEFINE n == Len(ins.values)
      <4>1. n \in Nat /\ 2 + n < IntMod
        BY <1>2, <2>4, FillWords
      <4> HIDE DEF n
      <4>2. n \in Words
        BY <1>1, <4>1
      <4> QED
        BY <4>2 DEF n
    <3>3. <<ins.base + 1, Len(ins.values)>> \in Seq(Words)
      BY <2>2, <3>2
    <3> QED
      BY <2>1, <3>1, <3>3, ConcatProperties
  <2> QED
    BY <2>3, <2>4
<1>3. CASE ins.op = "sleep"
  <2>1. SleepWord(ins.timeout) + 2 \in Words
    <3>1. ins.timeout \in Int /\ Fits(16, SleepWord(ins.timeout))
      BY <1>3, InstructionFields DEF Assembles
    <3> QED
      BY <3>1, SleepDecodes
  <2>2. Assemble(ins) = <<SleepWord(ins.timeout) + 2>>
    BY <1>3 DEF Assemble
  <2> QED
    BY <2>1, <2>2
<1>4. CASE ins.op = "halt"
  BY <1>1, <1>4 DEF Assemble
<1> QED
  BY <1>2, <1>3, <1>4, InstructionFields

\* Merging two instructions saves words.
LEMMA CombineLength ==
  ASSUME NEW a \in BaseInstructions, NEW b \in BaseInstructions, CanCombine(a, b)
  PROVE  Len(Assemble(Combine(a, b))) <= Len(Assemble(a)) + Len(Assemble(b))
<1> DEFINE c == Combine(a, b)
           m == Len(Assemble(a))
           n == Len(Assemble(b))
           l == Len(Assemble(c))
<1>1. /\ m \in Nat /\ m >= 1 /\ n \in Nat /\ n >= 1
      /\ a.op # "store" => m = 1
  BY AssembledLength
<1>2. c \in BaseInstructions
  BY CombineType
<1>3. CASE a.op = "store"
  <2>1. b.op = "store" /\ c = Store(a.module, a.base, a.values \o b.values)
    BY <1>3 DEF CanCombine, StoreCanCombine, Combine
  <2>2. /\ a.values \in Seq(Words) /\ a.values # <<>>
        /\ b.values \in Seq(Words) /\ b.values # <<>>
    BY <1>3, <2>1, InstructionFields
  <2> HIDE DEF c
  <2>3. c.op = "store" /\ c.values = a.values \o b.values
    <3> DEFINE vals == a.values \o b.values
    <3>1. c = Store(a.module, a.base, vals)
      BY <2>1
    <3> HIDE DEF vals
    <3>2. c.op = "store" /\ c.values = vals
      BY <3>1 DEF Store
    <3> QED
      BY <3>2 DEF vals
  <2> DEFINE i == Len(a.values)
             j == Len(b.values)
             k == Len(c.values)
  <2>4. k = i + j
    BY <2>2, <2>3, ConcatProperties
  <2>5. /\ i \in Nat /\ i >= 1 /\ m = IF i = 1 THEN 2 ELSE 2 + i
        /\ j \in Nat /\ j >= 1 /\ n = IF j = 1 THEN 2 ELSE 2 + j
        /\ k \in Nat /\ l = IF k = 1 THEN 2 ELSE 2 + k
    BY <1>2, <1>3, <2>1, <2>3, AssembledLength
  <2> HIDE DEF i, j, k, m, n, l
  <2>6. l <= m + n
    BY <2>4, <2>5
  <2> QED
    BY <2>6 DEF m, n, l, c
<1>4. CASE a.op # "store"
  <2>1. c.op # "store"
    BY <1>4, InstructionFields DEF Combine, CanCombine, SleepCanCombine, Sleep
  <2> HIDE DEF c
  <2>2. l = 1
    BY <1>2, <2>1, AssembledLength
  <2> HIDE DEF m, n, l
  <2>3. l <= m + n
    BY <1>1, <2>2
  <2> QED
    BY <2>3 DEF m, n, l, c
<1> QED
  BY <1>3, <1>4

\* A halt that is merged is all that is left.
LEMMA CombineHalt ==
  ASSUME NEW a \in BaseInstructions, CanCombine(a, Halt)
  PROVE  Combine(a, Halt) = Halt /\ Len(Assemble(a)) = 1
<1>1. a.op \in {"sleep", "halt"}
  BY InstructionFields DEF CanCombine, StoreCanCombine, Halt
<1>2. Combine(a, Halt) = Halt
  BY <1>1, InstructionFields DEF Combine, Halt
<1> QED
  BY <1>1, <1>2, AssembledLength

LEMMA HaltLength ==
  Halt \in BaseInstructions /\ SleepFits(Halt) /\ Len(Assemble(Halt)) = 1
<1>1. Halt \in BaseInstructions /\ Halt.op = "halt"
  BY DEF Halt, BaseInstructions
<1> QED
  BY <1>1, AssembledLength DEF SleepFits

-----------------------------------------------------------------------------
(* The bytecode of a script *)

\* The first n instructions of the output are in the bytecode, and no more.
Laid(n) ==
  /\ Len(words) = Positions(output)[n]
  /\ \A k \in 1 .. n : Holds(words, Positions(output)[k - 1], output[k])

\* The output does what the instructions in it do.
OutputInv ==
  /\ pc \in {"optimize", "compile", "written", "exception", "too long"}
  /\ instructions \in Scripts
  /\ next \in Nat \ {0}
  /\ output \in Seq(BaseInstructions)
  /\ SleepsFit(instructions) => SleepsFit(output)
  /\ words \in Seq(Words)
  /\ intended \in Boards /\ board \in Boards
  /\ emitted = Effect(output)

\* What is read takes as many words as the output and the pending instruction,
\* and a halt is merged with nothing that is kept.
ReadingInv ==
  pc = "optimize" =>
    /\ next <= Len(instructions) + 1
    /\ words = <<>>
    /\ Size(output) + Size(prevIns) <= Positions(instructions)[next - 1]
    /\ next > 1 /\ instructions[next - 1] = Halt => prevIns = <<Halt>>

\* The words of a halt that may have to be added.
HaltWords == IF instructions # <<>> /\ Last(instructions) = Halt THEN 0 ELSE 1

\* The instructions before the next are in the bytecode.
CompilingInv ==
  /\ pc \in {"compile", "written"} => Size(output) <= Size(instructions) + HaltWords
  /\ pc = "compile" => next \in 1 .. Len(output) + 1 /\ Laid(next - 1)

\* The board is between two instructions, and has done those before; the
\* EEPROM has room for them all.
BootingInv ==
  /\ pc # "written" => board = Reset
  /\ pc = "written" =>
       /\ Len(words) <= MaxWords
       /\ Laid(Len(output))
       /\ \E k \in 0 .. Len(output) :
            /\ next = Positions(output)[k] + 1
            /\ SleepsFit(instructions) => board = Effects(output)[k]

CodeInv == OptimiserInv /\ OutputInv /\ ReadingInv /\ CompilingInv /\ BootingInv

\* A script that SleepsFit calls fit is one of sleeps that fit.
LEMMA SleepsFitEach ==
  ASSUME NEW script
  PROVE  SleepsFit(script) <=> \A i \in 1 .. Len(script) : SleepFits(script[i])
BY DEF SleepsFit, SleepFits

LEMMA AppendFits ==
  ASSUME NEW script \in Seq(BaseInstructions), NEW ins \in BaseInstructions,
         SleepsFit(script), SleepFits(ins)
  PROVE  SleepsFit(Append(script, ins))
<1> DEFINE longer == Append(script, ins)
<1>1. /\ Len(script) \in Nat /\ Len(longer) = Len(script) + 1
      /\ \A i \in 1 .. Len(script) : longer[i] = script[i]
      /\ longer[Len(script) + 1] = ins
  BY LenProperties, AppendProperties
<1>2. \A i \in 1 .. Len(script) : SleepFits(script[i])
  BY SleepsFitEach
<1> HIDE DEF longer
<1>3. ASSUME NEW i \in 1 .. Len(longer) PROVE SleepFits(longer[i])
  <2>1. i \in 1 .. Len(script) \/ i = Len(script) + 1
    BY <1>1
  <2> QED
    BY <1>1, <1>2, <2>1
<1>4. SleepsFit(longer)
  BY <1>3, SleepsFitEach
<1> QED
  BY <1>4 DEF longer

\* The pending instruction makes up the pending list.
LEMMA PendingIsOne ==
  ASSUME OptimiserInv, prevIns # <<>>
  PROVE  prevIns = <<prevIns[1]>> /\ Size(prevIns) = Len(Assemble(prevIns[1]))
<1>1. Len(prevIns) = 1 /\ prevIns[1] \in BaseInstructions /\ prevIns \in Seq(BaseInstructions)
  BY Pending DEF OptimiserInv
<1> DEFINE one == <<prevIns[1]>>
<1>2. one \in Seq(BaseInstructions) /\ Len(one) = 1 /\ one[1] = prevIns[1]
  BY <1>1
<1> HIDE DEF one
<1>3. prevIns = one
  BY <1>1, <1>2, SeqEqual
<1>4. Size(one) = Len(Assemble(prevIns[1]))
  BY <1>1, ShortScripts DEF one
<1> QED
  BY <1>3, <1>4 DEF one

LEMMA CodeInit == ScriptInit => CodeInv
<1> SUFFICES ASSUME ScriptInit PROVE CodeInv
  OBVIOUS
<1>1. /\ instructions \in Scripts /\ instructions \in Seq(BaseInstructions)
      /\ next = 1 /\ prevIns = <<>> /\ words = <<>> /\ board = Reset
  BY ScriptsAreParsed DEF ScriptInit
<1>2. OptimiserInv
  BY OptimiserInit
<1>3. words \in Seq(Words) /\ Len(words) = 0 /\ SleepsFit(<<>>)
  BY <1>1, EmptySeq DEF SleepsFit
<1>4. Reset \in Boards /\ Effect(instructions) \in Boards
  BY <1>1, ResetBoard, EffectAndSize
<1>5. /\ Positions(instructions)[0] = 0
      /\ Effect(<<>>) = Reset /\ Size(<<>>) = 0 /\ <<>> \in Seq(BaseInstructions)
      /\ Size(instructions) \in Nat /\ Len(instructions) \in Nat
  BY <1>1, PositionsStep, ShortScripts, EffectAndSize, LenProperties
<1>6. CASE pc = "optimize" /\ output = <<>> /\ intended = Reset /\ emitted = Reset
  BY <1>1, <1>2, <1>3, <1>4, <1>5, <1>6
     DEF CodeInv, OutputInv, ReadingInv, CompilingInv, BootingInv
<1>7. CASE /\ pc = "compile" /\ output = instructions
           /\ intended = Effect(instructions) /\ emitted = Effect(instructions)
  <2>1. Laid(0)
    BY <1>3, <1>5, <1>7 DEF Laid
  <2>2. Size(output) <= Size(instructions) + HaltWords
    BY <1>5, <1>7 DEF HaltWords
  <2> QED
    BY <1>1, <1>2, <1>3, <1>4, <1>5, <1>7, <2>1, <2>2
       DEF CodeInv, OutputInv, ReadingInv, CompilingInv, BootingInv
<1> QED
  BY <1>6, <1>7 DEF ScriptInit
\* Reading an instruction makes the read part longer by it.
LEMMA ReadOne ==
  ASSUME CodeInv, Visit
  PROVE  /\ instructions[next] \in BaseInstructions
         /\ SleepsFit(instructions) => SleepFits(instructions[next])
         /\ next \in Nat /\ next >= 1 /\ next <= Len(instructions) /\ Len(instructions) \in Nat
         /\ Positions(instructions)[next - 1] \in Nat
         /\ Positions(instructions)[next]
              = Positions(instructions)[next - 1] + Len(Assemble(instructions[next]))
<1>1. instructions \in Seq(BaseInstructions) /\ next \in Nat \ {0}
  BY DEF CodeInv, OptimiserInv, OutputInv
<1>2. Len(instructions) \in Nat /\ next <= Len(instructions)
  BY <1>1, LenProperties DEF Visit
<1>3. next \in 1 .. Len(instructions) /\ next - 1 \in 0 .. Len(instructions)
  BY <1>1, <1>2
<1>4. instructions[next] \in BaseInstructions
  BY <1>1, <1>3, ElementOfSeq
<1>5. SleepsFit(instructions) => SleepFits(instructions[next])
  BY <1>3, SleepsFitEach
<1>6. /\ \A k \in 1 .. Len(instructions) :
           Positions(instructions)[k]
             = Positions(instructions)[k - 1] + Len(Assemble(instructions[k]))
      /\ \A k \in 0 .. Len(instructions) : Positions(instructions)[k] \in Nat
  BY <1>1, PositionsStep
<1> QED
  BY <1>1, <1>2, <1>3, <1>4, <1>5, <1>6

\* What a turn of the optimiser leaves to be shown.
LEMMA VisitKeeps ==
  ASSUME CodeInv, Visit,
         output' \in Seq(BaseInstructions), emitted' = Effect(output'),
         SleepsFit(instructions) => SleepsFit(output'),
         Size(output') + Size(prevIns') <= Positions(instructions)[next],
         instructions[next] = Halt => prevIns' = <<Halt>>
  PROVE  CodeInv'
<1>1. /\ pc = "optimize" /\ pc' = "optimize" /\ next' = next + 1
      /\ instructions' = instructions /\ words' = words /\ board' = board
      /\ intended' = Run(intended, instructions[next])
  BY DEF Visit
<1>2. OptimiserInv'
  BY OptimiserNext DEF CodeInv, ScriptNext
<1>3. OutputInv'
  <2>1. intended' \in Boards
    BY <1>1, ReadOne, RunType DEF CodeInv, OutputInv
  <2>2. (SleepsFit(instructions) => SleepsFit(output))'
    BY <1>1 DEF SleepsFit
  <2>3. next' \in Nat \ {0}
    BY <1>1, ReadOne
  <2> QED
    BY <1>1, <2>1, <2>2, <2>3 DEF CodeInv, OutputInv
<1>4. next' - 1 = next /\ next' <= Len(instructions) + 1
  BY <1>1, ReadOne
<1>5. ReadingInv'
  BY <1>1, <1>4 DEF CodeInv, ReadingInv
<1>6. CompilingInv' /\ BootingInv'
  BY <1>1 DEF CodeInv, CompilingInv, BootingInv
<1> QED
  BY <1>2, <1>3, <1>5, <1>6 DEF CodeInv

LEMMA VisitFirstCode ==
  ASSUME CodeInv, Visit, prevIns = <<>>, prevIns' = <<instructions[next]>>,
         UNCHANGED <<output, emitted>>
  PROVE  CodeInv'
<1> DEFINE ins == instructions[next]
           p == Positions(instructions)[next - 1]
           n == Len(Assemble(ins))
           o == Size(output)
<1>1. /\ ins \in BaseInstructions /\ p \in Nat /\ Positions(instructions)[next] = p + n
  BY ReadOne
<1>2. /\ output \in Seq(BaseInstructions) /\ emitted = Effect(output)
      /\ (SleepsFit(instructions) => SleepsFit(output))
      /\ o + Size(prevIns) <= p
  BY DEF CodeInv, OutputInv, ReadingInv, Visit
<1>3. o \in Nat /\ n \in Nat /\ Size(prevIns) = 0 /\ Size(prevIns') = n
  BY <1>1, <1>2, EffectAndSize, ShortScripts, AssembledLength
<1> HIDE DEF p, n, o
<1>4. o + Size(prevIns') <= Positions(instructions)[next]
  BY <1>1, <1>2, <1>3
<1> QED
  BY <1>2, <1>4, VisitKeeps DEF o

LEMMA VisitEmitCode ==
  ASSUME CodeInv, Visit, prevIns # <<>>, prevIns' = <<instructions[next]>>,
         output' = Append(output, prevIns[1]), emitted' = Run(emitted, prevIns[1])
  PROVE  CodeInv'
<1> DEFINE ins == instructions[next]
           prev == prevIns[1]
           p == Positions(instructions)[next - 1]
           n == Len(Assemble(ins))
           m == Len(Assemble(prev))
           o == Size(output)
<1>1. /\ ins \in BaseInstructions /\ p \in Nat /\ Positions(instructions)[next] = p + n
  BY ReadOne
<1>2. /\ output \in Seq(BaseInstructions) /\ emitted = Effect(output)
      /\ (SleepsFit(instructions) => SleepsFit(output))
      /\ o + Size(prevIns) <= p
  BY DEF CodeInv, OutputInv, ReadingInv, Visit
<1>3. /\ prev \in BaseInstructions /\ Size(prevIns) = m
      /\ SleepsFit(instructions) => SleepFits(prev)
  BY Pending, PendingIsOne DEF CodeInv
<1>4. o \in Nat /\ n \in Nat /\ m \in Nat /\ Size(prevIns') = n
  BY <1>1, <1>2, <1>3, EffectAndSize, ShortScripts, AssembledLength
<1>5. /\ output' \in Seq(BaseInstructions) /\ Size(output') = o + m
      /\ Effect(output') = Run(Effect(output), prev)
  BY <1>2, <1>3, AppendProperties, PositionsAppend, EffectsAppend
<1>6. SleepsFit(instructions) => SleepsFit(output')
  BY <1>2, <1>3, AppendFits
<1> HIDE DEF p, n, m, o
<1>7. Size(output') + Size(prevIns') <= Positions(instructions)[next]
  BY <1>1, <1>2, <1>3, <1>4, <1>5
<1> QED
  BY <1>2, <1>5, <1>6, <1>7, VisitKeeps

LEMMA VisitMergeCode ==
  ASSUME CodeInv, Visit, prevIns # <<>>, CanCombine(prevIns[1], instructions[next]),
         prevIns' = <<Combine(prevIns[1], instructions[next])>>, UNCHANGED <<output, emitted>>
  PROVE  CodeInv'
<1> DEFINE ins == instructions[next]
           prev == prevIns[1]
           merged == Combine(prev, ins)
           p == Positions(instructions)[next - 1]
           n == Len(Assemble(ins))
           m == Len(Assemble(prev))
           l == Len(Assemble(merged))
           o == Size(output)
<1>1. /\ ins \in BaseInstructions /\ p \in Nat /\ Positions(instructions)[next] = p + n
  BY ReadOne
<1>2. /\ output \in Seq(BaseInstructions) /\ emitted = Effect(output)
      /\ (SleepsFit(instructions) => SleepsFit(output))
      /\ o + Size(prevIns) <= p
  BY DEF CodeInv, OutputInv, ReadingInv, Visit
<1>3. prev \in BaseInstructions /\ Size(prevIns) = m
  BY Pending, PendingIsOne DEF CodeInv
<1>4. merged \in BaseInstructions /\ l <= m + n
  BY <1>1, <1>3, CombineType, CombineLength
<1>5. /\ o \in Nat /\ n \in Nat /\ m \in Nat /\ l \in Nat /\ Size(prevIns') = l
  BY <1>1, <1>2, <1>3, <1>4, EffectAndSize, ShortScripts, AssembledLength
<1>6. ins = Halt => prevIns' = <<Halt>>
  BY <1>3, CombineHalt
<1> HIDE DEF p, n, m, l, o
<1>7. o + Size(prevIns') <= Positions(instructions)[next]
  BY <1>1, <1>2, <1>3, <1>4, <1>5
<1> QED
  BY <1>2, <1>6, <1>7, VisitKeeps DEF o

\* Adding the halt adds a word, or none when there is a halt at the end.
LEMMA AddHaltCode ==
  ASSUME CodeInv, AddHalt
  PROVE  CodeInv'
<1> DEFINE prev == prevIns[1]
           m == Len(Assemble(prev))
           o == Size(output)
           size == Size(instructions)
<1>1. /\ pc = "optimize" /\ pc' = "compile" /\ next' = 1 /\ prevIns # <<>> /\ prevIns' = <<>>
      /\ next > Len(instructions)
      /\ instructions' = instructions /\ words' = words /\ board' = board
      /\ intended' = Run(intended, Halt)
  BY DEF AddHalt
<1>2. OptimiserInv /\ OptimiserInv'
  BY OptimiserNext DEF CodeInv, ScriptNext
<1>3. /\ instructions \in Seq(BaseInstructions) /\ instructions \in Scripts
      /\ next \in Nat \ {0} /\ intended \in Boards /\ board \in Boards /\ board = Reset
      /\ output \in Seq(BaseInstructions) /\ emitted = Effect(output)
      /\ (SleepsFit(instructions) => SleepsFit(output))
      /\ words = <<>> /\ words \in Seq(Words)
      /\ next <= Len(instructions) + 1
      /\ o + Size(prevIns) <= Positions(instructions)[next - 1]
      /\ (next > 1 /\ instructions[next - 1] = Halt => prevIns = <<Halt>>)
  BY <1>1, <1>2 DEF CodeInv, OutputInv, ReadingInv, BootingInv, OptimiserInv
<1>4. /\ prev \in BaseInstructions /\ Size(prevIns) = m /\ prevIns = <<prev>>
      /\ SleepsFit(instructions) => SleepFits(prev)
  BY <1>1, <1>2, Pending, PendingIsOne
<1>5. o \in Nat /\ m \in Nat /\ size \in Nat /\ Len(instructions) \in Nat
  BY <1>3, <1>4, EffectAndSize, AssembledLength, LenProperties
<1>6. next - 1 = Len(instructions)
  BY <1>1, <1>3, <1>5
<1>7. o + m <= size
  BY <1>3, <1>4, <1>6 DEF Size
<1>8. /\ output' \in Seq(BaseInstructions) /\ emitted' = Effect(output')
      /\ SleepsFit(instructions) => SleepsFit(output')
      /\ Size(output') <= size + HaltWords
  <2>1. CASE CanCombine(prev, Halt)
    <3>1. Combine(prev, Halt) = Halt /\ m = 1
      BY <1>4, <2>1, CombineHalt
    <3>2. output' = output \o <<Halt>> /\ emitted' = Run(emitted, Halt)
      BY <2>1, <3>1 DEF AddHalt
    <3>3. output' = Append(output, Halt)
      BY <1>3, <3>2, HaltLength, AppendIsConcat
    <3>4. /\ output' \in Seq(BaseInstructions) /\ Size(output') = o + 1
          /\ Effect(output') = Run(Effect(output), Halt)
      <4>1. output \in Seq(BaseInstructions) /\ Size(output) = o
        BY <1>3
      <4>2. Append(output, Halt) \in Seq(BaseInstructions)
        BY <4>1, HaltLength, AppendProperties
      <4>3. Size(Append(output, Halt)) = Size(output) + Len(Assemble(Halt))
        BY <4>1, HaltLength, PositionsAppend
      <4>4. Effect(Append(output, Halt)) = Run(Effect(output), Halt)
        BY <4>1, HaltLength, EffectsAppend
      <4>5. Size(output') = o + 1
        BY <3>3, <4>1, <4>3, HaltLength
      <4> QED
        BY <3>3, <4>2, <4>4, <4>5
    <3>5. SleepsFit(instructions) => SleepsFit(output')
      BY <1>3, <3>3, HaltLength, AppendFits
    <3> HIDE DEF m, o, size
    <3>6. Size(output') <= size + HaltWords
      BY <1>5, <1>7, <3>1, <3>4 DEF HaltWords
    <3> QED
      BY <1>3, <3>2, <3>4, <3>5, <3>6 DEF size
  <2>2. CASE ~CanCombine(prev, Halt)
    <3> DEFINE some == Append(output, prev)
    <3>1. /\ output' = output \o <<prev, Halt>>
          /\ emitted' = Run(Run(emitted, prev), Halt)
      BY <2>2 DEF AddHalt
    <3>2. /\ some \in Seq(BaseInstructions) /\ Size(some) = o + m
          /\ Effect(some) = Run(Effect(output), prev)
          /\ SleepsFit(instructions) => SleepsFit(some)
      BY <1>3, <1>4, AppendProperties, PositionsAppend, EffectsAppend, AppendFits
    <3>3. output' = Append(some, Halt)
      <4>1. <<prev>> \in Seq(BaseInstructions) /\ <<Halt>> \in Seq(BaseInstructions)
        BY <1>4, HaltLength
      <4>2. <<prev, Halt>> = <<prev>> \o <<Halt>>
        OBVIOUS
      <4>3. some = output \o <<prev>>
        BY <1>3, <1>4, AppendIsConcat
      <4> DEFINE a == <<prev>>
                 b == <<Halt>>
      <4>4. /\ a \in Seq(BaseInstructions) /\ b \in Seq(BaseInstructions)
            /\ output' = output \o (a \o b) /\ some = output \o a
        BY <3>1, <4>1, <4>2, <4>3
      <4> HIDE DEF a, b, some
      <4>5. output' = some \o b
        <5>1. (output \o a) \o b = output \o (a \o b)
          <6>1. output \in Seq(BaseInstructions)
            BY <1>3
          <6> QED
            BY ONLY <6>1, <4>4, ConcatAssociative
        <5> QED
          BY <4>4, <5>1
      <4>6. Append(some, Halt) = some \o <<Halt>>
        BY <3>2, HaltLength, AppendIsConcat
      <4> QED
        BY <4>5, <4>6 DEF b
    <3> HIDE DEF some
    <3>4. /\ output' \in Seq(BaseInstructions) /\ Size(output') = (o + m) + 1
          /\ Effect(output') = Run(Effect(some), Halt)
          /\ SleepsFit(instructions) => SleepsFit(output')
      <4>1. Append(some, Halt) \in Seq(BaseInstructions)
        BY <3>2, HaltLength, AppendProperties
      <4>2. Size(Append(some, Halt)) = Size(some) + Len(Assemble(Halt))
        BY <3>2, HaltLength, PositionsAppend
      <4>3. Effect(Append(some, Halt)) = Run(Effect(some), Halt)
        BY <3>2, HaltLength, EffectsAppend
      <4>4. SleepsFit(instructions) => SleepsFit(Append(some, Halt))
        BY <3>2, HaltLength, AppendFits
      <4>5. Size(output') = (o + m) + 1
        BY <3>2, <3>3, <4>2, HaltLength
      <4> QED
        BY <3>3, <4>1, <4>3, <4>4, <4>5
    <3>5. HaltWords = 1
      <4>1. prev # Halt
        BY <2>2 DEF CanCombine, Halt
      <4>2. ASSUME instructions # <<>> PROVE Last(instructions) # Halt
        <5>1. next > 1 /\ Last(instructions) = instructions[next - 1]
          BY <1>3, <1>6, <4>2, EmptySeq DEF Last
        <5> QED
          BY <1>3, <1>4, <4>1, <5>1
      <4> QED
        BY <4>2 DEF HaltWords
    <3> HIDE DEF m, o, size
    <3>6. Size(output') <= size + HaltWords
      BY <1>5, <1>7, <3>4, <3>5
    <3> QED
      BY <1>3, <3>1, <3>2, <3>4, <3>6 DEF size
  <2> QED
    BY <2>1, <2>2
<1>9. OutputInv'
  <2>1. Run(intended, Halt) \in Boards
    BY <1>3, HaltLength, RunType
  <2> QED
    BY <1>1, <1>3, <1>8, <2>1 DEF OutputInv, SleepsFit
<1>10. Laid(0)'
  BY <1>1, <1>3, <1>8, PositionsStep DEF Laid
<1>11. CompilingInv'
  <2>1. Len(output') \in Nat
    BY <1>8, LenProperties
  <2>2. 1 \in 1 .. Len(output') + 1
    BY <2>1
  <2>3. Laid(next - 1)'
    BY <1>1, <1>10
  <2>4. HaltWords' = HaltWords
    BY <1>1 DEF HaltWords
  <2> QED
    BY <1>1, <1>8, <2>2, <2>3, <2>4 DEF CompilingInv
<1>12. ReadingInv' /\ BootingInv'
  BY <1>1, <1>3 DEF ReadingInv, BootingInv
<1> QED
  BY <1>2, <1>9, <1>11, <1>12 DEF CodeInv
\* What is in the bytecode stays there when words are added, and the added
\* instruction comes after it.
LEMMA HoldsMore ==
  ASSUME NEW code \in Seq(Words), NEW more \in Seq(Words),
         NEW p \in Nat, NEW ins \in BaseInstructions, Holds(code, p, ins)
  PROVE  Holds(code \o more, p, ins)
<1> DEFINE n == Len(Assemble(ins))
           c == Len(code)
<1>1. n \in Nat /\ c \in Nat /\ p + n <= c /\ Assembles(ins) /\ Len(more) \in Nat
  BY AssembledLength, LenProperties DEF Holds
<1>2. /\ Len(code \o more) = c + Len(more)
      /\ \A i \in 1 .. c + Len(more) :
           (code \o more)[i] = IF i <= c THEN code[i] ELSE more[i - c]
  BY ConcatProperties
<1>3. \A j \in 1 .. n : code[p + j] = Assemble(ins)[j]
  BY DEF Holds
<1> HIDE DEF n, c
<1>4. ASSUME NEW j \in 1 .. n PROVE (code \o more)[p + j] = Assemble(ins)[j]
  <2>1. p + j \in 1 .. c + Len(more) /\ p + j <= c
    BY <1>1
  <2> QED
    BY <1>2, <1>3, <2>1
<1>5. p + n <= Len(code \o more)
  BY <1>1, <1>2
<1> QED
  BY <1>1, <1>4, <1>5 DEF Holds, n

LEMMA HoldsLast ==
  ASSUME NEW code \in Seq(Words), NEW ins \in BaseInstructions,
         Assembles(ins), Assemble(ins) \in Seq(Words)
  PROVE  Holds(code \o Assemble(ins), Len(code), ins)
<1> DEFINE more == Assemble(ins)
           n == Len(more)
           c == Len(code)
<1>1. n \in Nat /\ c \in Nat
  BY LenProperties
<1>2. /\ Len(code \o more) = c + n
      /\ \A i \in 1 .. c + n :
           (code \o more)[i] = IF i <= c THEN code[i] ELSE more[i - c]
  BY ConcatProperties
<1> HIDE DEF n, c, more
<1>3. ASSUME NEW j \in 1 .. n PROVE (code \o more)[c + j] = more[j]
  <2> DEFINE i == c + j
  <2>1. i \in 1 .. c + n /\ ~(i <= c) /\ i - c = j
    BY <1>1
  <2> HIDE DEF i
  <2>2. (code \o more)[i] = more[j]
    BY <1>2, <2>1
  <2> QED
    BY <2>2 DEF i
<1>4. c + n <= Len(code \o more)
  BY <1>1, <1>2
<1> QED
  BY <1>3, <1>4 DEF Holds, n, c, more

\* The next instruction is assembled after those before it.
LEMMA CompileKeeps ==
  ASSUME ScriptsAreLists, CodeInv, Compile
  PROVE  CodeInv'
<1> DEFINE ins == output[next]
           N == Len(output)
<1>1. /\ pc = "compile" /\ instructions' = instructions /\ prevIns' = prevIns
      /\ output' = output /\ board' = board /\ intended' = intended /\ emitted' = emitted
      /\ next <= N
  BY DEF Compile
<1>2. OptimiserInv'
  BY OptimiserNext DEF CodeInv, ScriptNext
<1>3. /\ instructions \in Scripts /\ instructions \in Seq(BaseInstructions)
      /\ next \in Nat \ {0} /\ output \in Seq(BaseInstructions)
      /\ words \in Seq(Words) /\ board = Reset /\ board \in Boards
      /\ Size(output) <= Size(instructions) + HaltWords
      /\ Laid(next - 1)
  BY <1>1 DEF CodeInv, OutputInv, OptimiserInv, CompilingInv, BootingInv
<1>4. N \in Nat /\ next \in 1 .. N /\ next - 1 \in 0 .. N /\ next \in 0 .. N
  BY <1>1, <1>3, LenProperties
<1>5. ins \in BaseInstructions
  BY <1>3, <1>4, ElementOfSeq
<1>6. HaltWords' = HaltWords
  BY <1>1 DEF HaltWords
<1>7. CASE Assembles(ins)
  <2> DEFINE more == Assemble(ins)
             n == Len(more)
  <2>1. words' = words \o more /\ next' = next + 1 /\ pc' = "compile"
    BY <1>1, <1>7 DEF Compile
  <2>2. n \in Nat /\ n < IntMod
    <3>1. Size(instructions) < IntMod \div 2
      BY <1>3 DEF ScriptsAreLists
    <3>2. /\ n <= Size(output) /\ n \in Nat
          /\ Size(output) \in Nat /\ Size(instructions) \in Nat
      BY <1>3, <1>4, <1>5, LengthInScript, EffectAndSize, AssembledLength
    <3>3. HaltWords \in {0, 1}
      BY DEF HaltWords
    <3>4. PICK k \in Nat : IntMod = 32 * k /\ IntMod \div 2 = 16 * k /\ k >= 1
      BY ScriptAssumption DEF ScriptAssumption
    <3> HIDE DEF n
    <3> QED
      BY <1>3, <3>1, <3>2, <3>3, <3>4
  <2>3. more \in Seq(Words)
    BY <1>5, <1>7, <2>2, AssembledWords
  <2>4. words' \in Seq(Words) /\ Len(words') = Len(words) + n
    <3> HIDE DEF more
    <3> QED
      BY <1>3, <2>1, <2>3, ConcatProperties
  <2>5. next' \in 1 .. N + 1 /\ next' \in Nat \ {0} /\ next' - 1 = next
    BY <1>4, <2>1
  <2>6. Laid(next - 1)'
    <3> DEFINE at(k) == Positions(output)[k - 1]
    <3>1. /\ Len(words) = at(next)
          /\ \A k \in 1 .. next - 1 : Holds(words, at(k), output[k])
      BY <1>3 DEF Laid
    <3>2. Positions(output)[next] = at(next) + n
      BY <1>3, <1>4, PositionsStep
    <3>3. ASSUME NEW k \in 1 .. next PROVE Holds(words', at(k), output[k])
      <4>1. at(k) \in Nat /\ output[k] \in BaseInstructions
        <5>1. k \in 1 .. N /\ k - 1 \in 0 .. N
          BY <1>4
        <5> QED
          BY <1>3, <5>1, PositionsStep, ElementOfSeq
      <4> HIDE DEF at
      <4>2. CASE k = next
        BY <1>3, <1>5, <1>7, <2>1, <2>3, <3>1, <4>2, HoldsLast
      <4>3. CASE k # next
        <5>1. k \in 1 .. next - 1
          BY <1>4, <4>3
        <5> HIDE DEF more
        <5> QED
          BY <1>3, <2>1, <2>3, <3>1, <4>1, <5>1, HoldsMore
      <4> QED
        BY <4>2, <4>3
    <3>4. Len(words') = Positions(output)[next]
      BY <2>4, <3>1, <3>2
    <3> HIDE DEF more, n
    <3> QED
      BY <1>1, <2>5, <3>3, <3>4 DEF Laid
  <2> HIDE DEF more, n
  <2>7. OutputInv'
    BY <1>1, <2>1, <2>4, <2>5 DEF CodeInv, OutputInv, SleepsFit
  <2>8. CompilingInv'
    BY <1>1, <1>3, <1>6, <2>1, <2>5, <2>6 DEF CompilingInv
  <2>9. ReadingInv' /\ BootingInv'
    BY <1>1, <1>3, <2>1 DEF ReadingInv, BootingInv
  <2> QED
    BY <1>2, <2>7, <2>8, <2>9 DEF CodeInv
<1>8. CASE ~Assembles(ins)
  <2>1. pc' = "exception" /\ words' = words /\ next' = next
    BY <1>8 DEF Compile
  <2>2. OutputInv'
    BY <1>1, <2>1 DEF CodeInv, OutputInv, SleepsFit
  <2> QED
    BY <1>1, <1>2, <1>3, <2>1, <2>2 DEF CodeInv, ReadingInv, CompilingInv, BootingInv
<1> QED
  BY <1>7, <1>8
\* The board starts with the first word.
LEMMA WriteOutputKeeps ==
  ASSUME CodeInv, WriteOutput
  PROVE  CodeInv'
<1>a. pc' = "written" => Len(words') <= MaxWords
  <2>1. Len(words) \in Nat /\ MaxWords \in Nat
    BY ScriptAssumption, LenProperties DEF ScriptAssumption, CodeInv, OutputInv
  <2> QED
    BY <2>1 DEF WriteOutput
<1>1. /\ pc = "compile" /\ pc' \in {"written", "too long"} /\ next' = 1 /\ next > Len(output)
      /\ instructions' = instructions /\ prevIns' = prevIns /\ words' = words
      /\ output' = output /\ board' = board /\ intended' = intended /\ emitted' = emitted
  BY DEF WriteOutput
<1>2. OptimiserInv'
  BY OptimiserNext DEF CodeInv, ScriptNext
<1>3. /\ output \in Seq(BaseInstructions) /\ board = Reset
      /\ Size(output) <= Size(instructions) + HaltWords
      /\ next \in 1 .. Len(output) + 1 /\ Laid(next - 1)
  BY <1>1 DEF CodeInv, OutputInv, CompilingInv, BootingInv
<1>4. Len(output) \in Nat /\ 0 \in 0 .. Len(output)
  BY <1>3, LenProperties
<1>5. next - 1 = Len(output)
  <2> DEFINE N == Len(output)
  <2>1. N \in Nat /\ next \in 1 .. N + 1 /\ next > N
    BY <1>1, <1>3, <1>4
  <2> HIDE DEF N
  <2>2. next - 1 = N
    BY <2>1
  <2> QED
    BY <2>2 DEF N
<1>6. Laid(Len(output))'
  BY <1>1, <1>3, <1>5 DEF Laid
<1>7. Positions(output)[0] = 0 /\ Effects(output)[0] = Reset
  BY <1>3, PositionsStep, EffectsStep
<1>8. OutputInv'
  <2>1. pc' \in {"optimize", "compile", "written", "exception", "too long"}
    BY <1>1
  <2>2. next' \in Nat \ {0}
    <3>1. 1 \in Nat \ {0}
      OBVIOUS
    <3>2. next' = 1
      BY <1>1
    <3> QED
      BY <3>1, <3>2, Zenon
  <2> QED
    BY <1>1, <2>1, <2>2 DEF CodeInv, OutputInv, SleepsFit
<1>9. ReadingInv'
  BY <1>1 DEF ReadingInv
<1>10. CompilingInv'
  BY <1>1, <1>3 DEF CompilingInv, HaltWords
<1>11. BootingInv'
  <2>1. next' = Positions(output')[0] + 1 /\ board' = Effects(output')[0]
    <3>1. 0 + 1 = 1
      OBVIOUS
    <3>2. next' = Positions(output)[0] + 1
      BY <1>1, <1>7, <3>1
    <3>3. board' = Effects(output)[0]
      BY <1>1, <1>3, <1>7
    <3> QED
      BY <1>1, <3>2, <3>3
  <2>2. 0 \in 0 .. Len(output')
    BY <1>1, <1>4
  <2> QED
    BY <1>a, <1>1, <1>3, <1>6, <2>1, <2>2 DEF BootingInv
<1> QED
  BY <1>2, <1>8, <1>9, <1>10, <1>11 DEF CodeInv

\* The board executes the next instruction of the output, and comes to the one
\* after it.
LEMMA BoardStepKeeps ==
  ASSUME CodeInv, BoardStep
  PROVE  CodeInv'
<1> DEFINE N == Len(output)
           at(k) == Positions(output)[k]
<1>1. /\ pc = "written" /\ pc' = pc /\ next <= Len(words)
      /\ instructions' = instructions /\ prevIns' = prevIns /\ words' = words
      /\ output' = output /\ intended' = intended /\ emitted' = emitted
      /\ board' = Run(board, Fetch(words, next).ins)
      /\ next' = next + Fetch(words, next).len
  BY DEF BoardStep
<1>2. OptimiserInv'
  BY OptimiserNext DEF CodeInv, ScriptNext
<1>3. /\ output \in Seq(BaseInstructions) /\ words \in Seq(Words) /\ board \in Boards
      /\ SleepsFit(instructions) => SleepsFit(output)
      /\ Laid(N)
  BY <1>1 DEF CodeInv, OutputInv, BootingInv
<1>4. PICK k \in 0 .. N :
        /\ next = at(k) + 1
        /\ SleepsFit(instructions) => board = Effects(output)[k]
  BY <1>1 DEF CodeInv, BootingInv
<1>5. N \in Nat /\ at(k) \in Nat /\ Len(words) = at(N) /\ at(N) \in Nat
  BY <1>3, LenProperties, PositionsStep DEF Laid
<1>6. k # N
  <2> HIDE DEF at, N
  <2>1. k = N => ~(next <= Len(words))
    BY <1>4, <1>5
  <2> QED
    BY <1>1, <2>1
<1>7. k + 1 \in 1 .. N /\ k + 1 \in 0 .. N /\ k + 1 - 1 = k
  BY <1>5, <1>6
<1> DEFINE ins == output[k + 1]
           f == Fetch(words, next)
           n == Len(Assemble(ins))
<1>8. /\ ins \in BaseInstructions /\ n \in Nat
      /\ at(k + 1) = at(k) + n /\ at(k + 1) \in Nat
      /\ Effects(output)[k + 1] = Run(Effects(output)[k], ins)
  <2>1. ins \in BaseInstructions
    BY <1>3, <1>7, ElementOfSeq
  <2>2. at(k + 1) = at(k) + n /\ at(k + 1) \in Nat
    BY <1>3, <1>7, PositionsStep
  <2>3. Effects(output)[k + 1] = Run(Effects(output)[k], ins)
    BY <1>3, <1>7, EffectsStep
  <2> QED
    BY <2>1, <2>2, <2>3, AssembledLength
<1>9. Holds(words, at(k), ins)
  BY <1>3, <1>7 DEF Laid
<1>10. /\ f.len = n /\ f.ins \in BaseInstructions
       /\ SleepFits(ins) => \A b : Run(b, f.ins) = Run(b, ins)
  <2> HIDE DEF ins, at, n
  <2>1. /\ Fetch(words, at(k) + 1).len = Len(Assemble(ins))
        /\ Fetch(words, at(k) + 1).ins \in BaseInstructions
        /\ SleepFits(ins) => \A b : Run(b, Fetch(words, at(k) + 1).ins) = Run(b, ins)
    BY <1>3, <1>5, <1>8, <1>9, Decodes
  <2> QED
    BY <1>4, <2>1 DEF n
<1>11. SleepsFit(instructions) => SleepFits(ins)
  BY <1>3, <1>7, SleepsFitEach
<1> HIDE DEF ins, f, n
<1>12. board' = Run(board, f.ins) /\ next' = next + f.len
  BY <1>1 DEF f
<1>13. board' \in Boards
  BY <1>3, <1>10, <1>12, RunType
<1>14. next' = at(k + 1) + 1 /\ next' \in Nat \ {0}
  <2> HIDE DEF at
  <2> QED
    BY <1>4, <1>5, <1>8, <1>10, <1>12
<1>15. SleepsFit(instructions) => board' = Effects(output)[k + 1]
  BY <1>4, <1>8, <1>10, <1>11, <1>12
<1>16. BootingInv'
  <2>1. Laid(Len(output))'
    BY <1>1, <1>3 DEF Laid
  <2>2. /\ k + 1 \in 0 .. Len(output')
        /\ next' = Positions(output')[k + 1] + 1
        /\ SleepsFit(instructions') => board' = Effects(output')[k + 1]
    BY <1>1, <1>7, <1>14, <1>15
  <2> HIDE DEF N, at
  <2>3. pc' = "written"
    BY <1>1
  <2>4. \E j \in 0 .. Len(output') :
          /\ next' = Positions(output')[j] + 1
          /\ SleepsFit(instructions') => board' = Effects(output')[j]
    BY <2>2
  <2>5. SleepsFit(instructions)' = SleepsFit(instructions')
    BY DEF SleepsFit
  <2>6. Len(words') <= MaxWords
    BY <1>1 DEF CodeInv, BootingInv
  <2> QED
    BY <2>1, <2>3, <2>4, <2>6 DEF BootingInv, SleepsFit
<1>17. OutputInv'
  BY <1>1, <1>13, <1>14 DEF CodeInv, OutputInv, SleepsFit
<1>18. ReadingInv' /\ CompilingInv'
  BY <1>1 DEF CodeInv, ReadingInv, CompilingInv, HaltWords
<1> QED
  BY <1>2, <1>16, <1>17, <1>18 DEF CodeInv

\* Every step of the compiler and of the board keeps the invariant.
LEMMA CodeNext ==
  ASSUME ScriptsAreLists, CodeInv, [ScriptNext]_scriptVars
  PROVE  CodeInv'
<1>1. CASE Visit
  BY <1>1, VisitFirstCode, VisitEmitCode, VisitMergeCode DEF Visit
<1>2. CASE NothingToEnd
  <2>1. OptimiserInv'
    BY <1>2, OptimiserNext DEF CodeInv, ScriptNext
  <2> QED
    BY <1>2, <2>1 DEF NothingToEnd, CodeInv, OutputInv, SleepsFit, ReadingInv,
                      CompilingInv, BootingInv
<1>3. CASE AddHalt
  BY <1>3, AddHaltCode
<1>4. CASE Compile
  BY <1>4, CompileKeeps
<1>5. CASE WriteOutput
  BY <1>5, WriteOutputKeeps
<1>6. CASE BoardStep
  BY <1>6, BoardStepKeeps
<1>7. CASE UNCHANGED scriptVars
  BY <1>7 DEF scriptVars, CodeInv, OptimiserInv, SameEffect, OutputInv, SleepsFit, ReadingInv,
              CompilingInv, BootingInv, Laid, HaltWords
<1> QED
  BY <1>1, <1>2, <1>3, <1>4, <1>5, <1>6, <1>7 DEF ScriptNext

\* Scripts that are lists are compiled to what they say.
THEOREM CodeInvariant == ScriptsAreLists => (ScriptSpec => []CodeInv)
<1> SUFFICES ASSUME ScriptsAreLists PROVE ScriptSpec => []CodeInv
  OBVIOUS
<1>1. ScriptInit => CodeInv
  BY CodeInit
<1>2. CodeInv /\ [ScriptNext]_scriptVars => CodeInv'
  BY CodeNext
<1> QED
  BY <1>1, <1>2, PTL DEF ScriptSpec

\* The variables have their types: in particular every word of the bytecode is
\* one, and the optimiser leaves no instruction behind (Script.java, lines 29 to
\* 56).
THEOREM ScriptTypeCorrect == ScriptsAreLists => (ScriptSpec => []ScriptTypeOK)
<1> SUFFICES ASSUME ScriptsAreLists PROVE ScriptSpec => []ScriptTypeOK
  OBVIOUS
<1>1. CodeInv => ScriptTypeOK
  <2> SUFFICES ASSUME CodeInv PROVE ScriptTypeOK
    OBVIOUS
  <2>1. emitted \in Boards
    BY EffectAndSize DEF CodeInv, OutputInv
  <2> QED
    BY <2>1 DEF CodeInv, OptimiserInv, OutputInv, ScriptTypeOK
<1> QED
  BY <1>1, CodeInvariant, PTL

\* A board that boots from the EEPROM has, when it comes to a halt, to the end of
\* the script or to that of the EEPROM, done what the script says.
THEOREM BoardRunsScript == ScriptsAreLists => (ScriptSpec => []BoardDoesScript)
<1> SUFFICES ASSUME ScriptsAreLists PROVE ScriptSpec => []BoardDoesScript
  OBVIOUS
<1>1. CodeInv => BoardDoesScript
  <2> SUFFICES ASSUME CodeInv, SleepsFit(instructions), pc = "written",
                      board.halted \/ next > Len(words) \/ next > MaxWords
               PROVE  board = intended
    BY DEF BoardDoesScript
  <2>1. output \in Seq(BaseInstructions) /\ intended = Effect(output)
    BY DEF CodeInv, OptimiserInv, SameEffect, OutputInv
  <2>2. PICK k \in 0 .. Len(output) :
          next = Positions(output)[k] + 1 /\ board = Effects(output)[k]
    BY DEF CodeInv, BootingInv
  <2>3. CASE board.halted
    BY <2>1, <2>2, <2>3, HaltedStays
  <2>a. Len(words) <= MaxWords /\ Len(words) \in Nat /\ MaxWords \in Nat /\ next \in Nat
    BY ScriptAssumption, LenProperties
       DEF ScriptAssumption, CodeInv, OutputInv, BootingInv
  <2>b. board.halted \/ next > Len(words)
    BY <2>a
  <2>4. CASE next > Len(words)
    <3> DEFINE N == Len(output)
               p == Positions(output)[k]
    <3>1. Len(words) = Size(output)
      BY DEF CodeInv, BootingInv, Laid, Size
    <3>2. N \in Nat /\ p \in Nat /\ Size(output) \in Nat /\ (k < N => p < Size(output))
      BY <2>1, <2>2, LenProperties, PositionsStep, PositionsGrow, EffectAndSize
    <3>3. k = N
      <4> HIDE DEF N, p
      <4>1. next = p + 1
        BY <2>2 DEF p
      <4>2. ~(p < Size(output))
        BY <2>4, <3>1, <3>2, <4>1
      <4> QED
        BY <2>2, <3>2, <4>2 DEF N
    <3> QED
      BY <2>1, <2>2, <3>3 DEF Effect
  <2> QED
    BY <2>b, <2>3, <2>4
<1> QED
  BY <1>1, CodeInvariant, PTL

\* The optimiser makes no script longer, but for the halt it may have to add.
THEOREM OptimisedIsNoLonger == ScriptsAreLists => (ScriptSpec => []NeverLonger)
<1> SUFFICES ASSUME ScriptsAreLists PROVE ScriptSpec => []NeverLonger
  OBVIOUS
<1>1. CodeInv => NeverLonger
  <2> SUFFICES ASSUME CodeInv, pc = "written", instructions # <<>>
               PROVE  Len(words)
                        <= Size(instructions) + (IF Last(instructions) = Halt THEN 0 ELSE 1)
    BY DEF NeverLonger
  <2>1. Len(words) = Size(output) /\ Size(output) <= Size(instructions) + HaltWords
    BY DEF CodeInv, BootingInv, CompilingInv, Laid, Size
  <2>2. HaltWords = IF Last(instructions) = Halt THEN 0 ELSE 1
    BY DEF HaltWords
  <2> QED
    BY <2>1, <2>2
<1> QED
  BY <1>1, CodeInvariant, PTL

=============================================================================
