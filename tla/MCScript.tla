------------------------------ MODULE MCScript ------------------------------
(***************************************************************************)
(* Scripts of up to three statements: stores to neighbouring and to other  *)
(* registers of a module, the same registers by address, several values    *)
(* for one register, files, sleeps that can and that cannot be merged, and *)
(* the errors a compiler should find.                                      *)
(*                                                                         *)
(* An int has eight bits, so that a sleep has four.                        *)
(***************************************************************************)
EXTENDS Script

MCModuleBase == [m \in Modules |-> IF m = "gpio" THEN 16 ELSE 64]

Statements == {
  SetRegister("gpio", 0, <<1>>),
  SetRegister("gpio", 4, <<2, 3>>),
  SetRegister("pci", 8, <<4>>),
  SetAddress(20, <<7>>),
  SetAddress(23, <<7>>),         \* not aligned
  Load(20, <<200, 5>>),
  Load(28, <<>>),
  <<Sleep(3)>>, <<Sleep(5)>>,
  <<Sleep(9)>>,                  \* negative when it is shifted
  <<Sleep(19)>>,                 \* the shift loses its top bit
  <<Sleep(-4)>>,                 \* a number of ms or us that overflowed
  <<Halt>> }

MCScripts ==
  {<<>>} \cup Statements \cup {a \o b : a, b \in Statements}
         \cup {a \o b \o c : a, b, c \in Statements}

\* The hypothesis of the theorems about the compiler.
ASSUME MCScriptAssumption == ScriptsAreLists

=============================================================================
