------------------------------- MODULE Script -------------------------------
(***************************************************************************)
(* The boot script compiler (eecompile): its instructions, the peephole    *)
(* optimiser, which merges an instruction into the pending one or emits    *)
(* that and goes on, the bytecode, and the board that executes it.         *)
(*                                                                         *)
(* What a script means is the sequence of its register writes, each with   *)
(* the time slept since the one before, up to the halt.                    *)
(***************************************************************************)
EXTENDS Integers, Sequences, SequencesExt

CONSTANTS
  Modules,     (* register modules, by name                                *)
  NoModule,    (* null: the address is absolute                            *)
  ModuleBase,  (* address of a module's first register                     *)
  IntMod,      (* 2^32, the range of an int                                *)
  Scripts,     (* the scripts to compile, as lists of base instructions    *)
  MaxWords     (* option -s, in words                                      *)

ASSUME ScriptAssumption ==
  /\ NoModule \notin Modules
  /\ ModuleBase \in [Modules -> Nat]
  /\ IntMod \in Nat /\ IntMod >= 32 /\ IntMod % 32 = 0
  /\ MaxWords \in Nat

MaxSleep == IntMod \div 16 - 1    \* 0x0fffffff
Ints == -(IntMod \div 2) .. (IntMod \div 2 - 1)
Words == 0 .. IntMod - 1

\* The int a calculation leaves.
ToInt(x) == ((x + IntMod \div 2) % IntMod) - IntMod \div 2

-----------------------------------------------------------------------------
(* Statements of a script, and the base instructions they stand for *)

Store(m, a, vals) == [op |-> "store", module |-> m, base |-> a, values |-> vals]
Sleep(t)          == [op |-> "sleep", timeout |-> t]
Halt              == [op |-> "halt"]

BaseInstructions ==
  [op : {"store"}, module : Modules \cup {NoModule}, base : Nat, values : Seq(Words) \ {<<>>}]
    \cup [op : {"sleep"}, timeout : Ints]
    \cup {Halt}

ASSUME ScriptsAreParsed == Scripts \subseteq Seq(BaseInstructions)

\* module.offset = v1 then v2 ...  An offset that checkOffset() refuses makes no
\* statement; nothing below depends on how far offsets and addresses reach.
SetRegister(m, offset, vals) ==
  [i \in 1 .. Len(vals) |-> Store(m, ModuleBase[m] + offset, <<vals[i]>>)]

\* address = v1 then v2 ...
SetAddress(a, vals) == [i \in 1 .. Len(vals) |-> Store(NoModule, a, <<vals[i]>>)]

\* load address "file"
Load(a, file) ==
  [i \in 1 .. Len(file) |-> Store(NoModule, a + 4 * (i - 1), <<file[i]>>)]

-----------------------------------------------------------------------------
(* What the board does with an instruction *)

Reset == [writes |-> <<>>, slept |-> 0, halted |-> FALSE]

\* The register writes of a store, the first of them after the time slept.
Writes(ins, slept) ==
  [i \in 1 .. Len(ins.values) |-> [addr  |-> ins.base + 4 * (i - 1),
                                   value |-> ins.values[i],
                                   after |-> IF i = 1 THEN slept ELSE 0]]

Run(b, ins) ==
  CASE b.halted -> b
    [] ~b.halted /\ ins.op = "store" ->
         [writes |-> b.writes \o Writes(ins, b.slept), slept |-> 0, halted |-> FALSE]
    [] ~b.halted /\ ins.op = "sleep" ->
         [writes |-> b.writes, slept |-> b.slept + ins.timeout, halted |-> FALSE]
    [] ~b.halted /\ ins.op = "halt"  ->
         [writes |-> b.writes, slept |-> 0, halted |-> TRUE]

\* The board after each instruction of a script, and after all of them.
Effects(script) ==
  LET after[n \in 0 .. Len(script)] ==
        IF n = 0 THEN Reset ELSE Run(after[n - 1], script[n])
  IN  after

Effect(script) == Effects(script)[Len(script)]

-----------------------------------------------------------------------------
(* Merging two instructions: canCombineWith() and combineWith() *)

\* Mutant: stores to a module are merged although there is a gap.
StoreCanCombineGaps(a, b) == b.op = "store" /\ a.module = b.module

StoreCanCombine(a, b) ==
  /\ b.op = "store"
  /\ a.module = b.module
  /\ b.base = a.base + 4 * Len(a.values)

SleepCanCombine(a, b) ==
  \/ b.op = "sleep" /\ ToInt(a.timeout + b.timeout) <= MaxSleep
  \/ b.op = "halt"

CanCombine(a, b) ==
  \/ a.op = "halt"
  \/ a.op = "sleep" /\ SleepCanCombine(a, b)
  \/ a.op = "store" /\ StoreCanCombine(a, b)

Combine(a, b) ==
  CASE a.op = "halt"  -> a
    [] a.op = "store" -> Store(a.module, a.base, a.values \o b.values)
    [] a.op = "sleep" /\ b.op = "sleep" -> Sleep(ToInt(a.timeout + b.timeout))
    [] a.op = "sleep" /\ b.op = "halt"  -> b

-----------------------------------------------------------------------------
(* Bytecode: the first word of an instruction holds its opcode in the bits *)
(* that its data leave free.                                               *)

\* The checks of Opcode.getWord(); the mask is free - 1.
Fits(free, data) == data % free = 0 /\ data \in Words

SleepWord(t) == ToInt(t * 16)    \* timeout << 4

\* Whether assemble() returns, rather than throws.
Assembles(ins) ==
  CASE ins.op = "store" -> Fits(4, ins.base)
    [] ins.op = "sleep" -> Fits(16, SleepWord(ins.timeout))
    [] ins.op = "halt"  -> TRUE

Assemble(ins) ==
  CASE ins.op = "store" /\ Len(ins.values) = 1 -> <<ins.base>> \o ins.values
    [] ins.op = "store" /\ Len(ins.values) # 1 ->
         <<ins.base + 1, Len(ins.values)>> \o ins.values
    [] ins.op = "sleep" -> <<SleepWord(ins.timeout) + 2>>
    [] ins.op = "halt"  -> <<6>>

\* The number of words up to each instruction of a script, and in all.
Positions(script) ==
  LET up_to[n \in 0 .. Len(script)] ==
        IF n = 0 THEN 0 ELSE up_to[n - 1] + Len(Assemble(script[n]))
  IN  up_to

Size(script) == Positions(script)[Len(script)]

\* The instruction at a position of the bytecode, and its length in words, as
\* the board's boot module reads them.
Fetch(code, i) ==
  LET w == code[i]
  IN  CASE w % 4 = 0  -> [ins |-> Store(NoModule, w, <<code[i + 1]>>), len |-> 2]
        [] w % 4 = 1  -> [ins |-> Store(NoModule, w - 1, SubSeq(code, i + 2, i + 1 + code[i + 1])),
                          len |-> 2 + code[i + 1]]
        [] w % 16 = 2 -> [ins |-> Sleep(w \div 16), len |-> 1]
        [] OTHER      -> [ins |-> Halt, len |-> 1]

-----------------------------------------------------------------------------

VARIABLES
  pc,            (* "optimize", "compile", "written" (the board boots),    *)
                 (* "exception", "too long"                                *)
  instructions,  (* of the script                                          *)
  next,          (* the next instruction or word to read                   *)
  prevIns,       (* optimiser: the pending instruction, <<>> or <<ins>>    *)
  output,        (* the script to compile                                  *)
  words,         (* the bytecode                                           *)
  board,         (* the board that executes it                             *)
  intended,      (* history: a board after the instructions read           *)
  emitted        (* history: a board after the output                      *)

scriptVars == <<pc, instructions, next, prevIns, output, words, board, intended, emitted>>

\* One turn of the loop of optimize().
Visit ==
  /\ pc = "optimize" /\ next <= Len(instructions)
  /\ LET ins == instructions[next]
     IN  /\ intended' = Run(intended, ins)
         /\ next' = next + 1
         /\ \/ /\ prevIns = <<>>
               /\ prevIns' = <<ins>>
               /\ UNCHANGED <<output, emitted>>
            \/ /\ prevIns # <<>> /\ ~CanCombine(prevIns[1], ins)
               /\ output' = Append(output, prevIns[1])
               /\ emitted' = Run(emitted, prevIns[1])
               /\ prevIns' = <<ins>>
            \/ /\ prevIns # <<>> /\ CanCombine(prevIns[1], ins)
               /\ prevIns' = <<Combine(prevIns[1], ins)>>
               /\ UNCHANGED <<output, emitted>>
  /\ UNCHANGED <<pc, instructions, words, board>>

\* A script without instructions has no pending one: a null pointer.
NothingToEnd ==
  /\ pc = "optimize" /\ next > Len(instructions) /\ prevIns = <<>>
  /\ pc' = "exception"
  /\ UNCHANGED <<instructions, next, prevIns, output, words, board, intended, emitted>>

\* Mutant: the pending instruction stays when the halt has been added.
AddHaltKeepsPending ==
  /\ pc = "optimize" /\ next > Len(instructions) /\ prevIns # <<>>
  /\ pc' = "compile" /\ next' = 1
  /\ output' = output \o <<prevIns[1], Halt>>
  /\ emitted' = Run(Run(emitted, prevIns[1]), Halt)
  /\ intended' = Run(intended, Halt)
  /\ UNCHANGED <<instructions, prevIns, words, board>>

\* The halt that ends every optimised script.
AddHalt ==
  /\ pc = "optimize" /\ next > Len(instructions) /\ prevIns # <<>>
  /\ LET last == IF CanCombine(prevIns[1], Halt)
                   THEN <<Combine(prevIns[1], Halt)>> ELSE <<prevIns[1], Halt>>
     IN  /\ output' = output \o last
         /\ emitted' = IF Len(last) = 1 THEN Run(emitted, last[1])
                       ELSE Run(Run(emitted, last[1]), last[2])
  /\ intended' = Run(intended, Halt)
  /\ prevIns' = <<>>
  /\ pc' = "compile" /\ next' = 1
  /\ UNCHANGED <<instructions, words, board>>

\* Mutant: an instruction that cannot be assembled is left out.
CompileSkips ==
  /\ pc = "compile" /\ next <= Len(output)
  /\ words' = IF Assembles(output[next]) THEN words \o Assemble(output[next]) ELSE words
  /\ next' = next + 1
  /\ UNCHANGED <<pc, instructions, prevIns, output, board, intended, emitted>>

\* One turn of the loop of compile().
Compile ==
  /\ pc = "compile" /\ next <= Len(output)
  /\ IF Assembles(output[next])
       THEN /\ words' = words \o Assemble(output[next])
            /\ next' = next + 1
            /\ pc' = pc
       ELSE pc' = "exception" /\ UNCHANGED <<words, next>>
  /\ UNCHANGED <<instructions, prevIns, output, board, intended, emitted>>

\* The size is checked before anything is written.
WriteOutput ==
  /\ pc = "compile" /\ next > Len(output)
  /\ pc' = IF Len(words) > MaxWords THEN "too long" ELSE "written"
  /\ next' = 1
  /\ UNCHANGED <<instructions, prevIns, output, words, board, intended, emitted>>

\* The board starts from the EEPROM, which has room for MaxWords: what does not
\* fit is not there.
BoardStep ==
  /\ pc = "written" /\ ~board.halted
  /\ next <= Len(words) /\ next <= MaxWords
  /\ LET f == Fetch(words, next)
     IN  board' = Run(board, f.ins) /\ next' = next + f.len
  /\ UNCHANGED <<pc, instructions, prevIns, output, words, intended, emitted>>

\* With -O 0 the script is compiled as it is.
ScriptInit ==
  /\ instructions \in Scripts
  /\ next = 1 /\ prevIns = <<>> /\ words = <<>> /\ board = Reset
  /\ \/ /\ pc = "optimize" /\ output = <<>>
        /\ intended = Reset /\ emitted = Reset
     \/ /\ pc = "compile" /\ output = instructions
        /\ intended = Effect(instructions) /\ emitted = Effect(instructions)

ScriptNext ==
  Visit \/ NothingToEnd \/ AddHalt \/ Compile \/ WriteOutput \/ BoardStep

ScriptSpec == ScriptInit /\ [][ScriptNext]_scriptVars

-----------------------------------------------------------------------------

\* A board, and the writes it has made.
Boards ==
  [writes : Seq([addr : Nat, value : Words, after : Int]), slept : Int, halted : BOOLEAN]

\* The types of the variables; an instruction is pending only while the
\* optimiser runs (Script.java, line 31).
ScriptTypeOK ==
  /\ pc \in {"optimize", "compile", "written", "exception", "too long"}
  /\ instructions \in Seq(BaseInstructions)
  /\ next \in Nat \ {0}
  /\ prevIns \in Seq(BaseInstructions) /\ Len(prevIns) <= 1
  /\ pc # "optimize" => prevIns = <<>>
  /\ output \in Seq(BaseInstructions)
  /\ words \in Seq(Words)
  /\ {board, intended, emitted} \subseteq Boards

\* A script whose sleeps fit the 28 bits that a SLEEP word has for them.
SleepsFit(script) ==
  \A i \in 1 .. Len(script) :
    script[i].op = "sleep" => script[i].timeout \in 0 .. MaxSleep

\* The optimised script does what the script does, up to the halt: the same
\* writes, in the same order, after the same sleeps.  At any time the output
\* and the pending instruction together do what the instructions read so far
\* do (Script.java, lines 29 to 47).
SameEffect ==
  SleepsFit(instructions) =>
    intended = IF prevIns = <<>> THEN emitted ELSE Run(emitted, prevIns[1])

\* What the optimiser keeps: it reads and pends instructions, and sleeps that
\* fit stay fitting when they are merged (Script.java, lines 29 to 47).
OptimiserInv ==
  /\ instructions \in Seq(BaseInstructions)
  /\ prevIns \in Seq(BaseInstructions) /\ Len(prevIns) <= 1
  /\ pc # "optimize" => prevIns = <<>>
  /\ pc = "optimize" =>
       next \in Nat \ {0} /\ intended \in Boards /\ emitted \in Boards
  /\ SleepsFit(instructions) => SleepsFit(prevIns)
  /\ SameEffect

\* A board that boots from the EEPROM ends up having done what the script says,
\* with and without the optimiser, and finds all of it there (Script.java, lines
\* 49 to 56, the assemble() of the instructions, and Compiler.java, line 125).
BoardDoesScript ==
  (/\ SleepsFit(instructions)
   /\ pc = "written"
   /\ board.halted \/ next > Len(words) \/ next > MaxWords)
  => board = intended

\* Optimising makes no script longer than it is compiled as it stands, but for
\* the halt that it may have to add at the end (Script.java, lines 41 to 46).
NeverLonger ==
  pc = "written" /\ instructions # <<>> =>
    Len(words) <= Size(instructions) + (IF Last(instructions) = Halt THEN 0 ELSE 1)

\* No script has more words than an int can count: compile() returns their bytes
\* in one array (Script.java, lines 49 to 56).
ScriptsAreLists == \A s \in Scripts : Size(s) < IntMod \div 2

\* "sleep timeouts can be added up, unless there is an overflow"
\* (SleepInstruction.java, line 36): a script is refused only for an
\* instruction in it that cannot be compiled.
RefusedForAnInstruction ==
  pc = "exception" /\ instructions # <<>> =>
    \E i \in 1 .. Len(instructions) : ~Assembles(instructions[i])

=============================================================================
