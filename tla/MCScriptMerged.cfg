SPECIFICATION ScriptSpec
CONSTANTS
  Modules = {"gpio", "pci"}
  NoModule = "none"
  ModuleBase <- MCModuleBase
  IntMod = 256
  Scripts <- MCScripts
  MaxWords = 9
INVARIANTS
  RefusedForAnInstruction
CHECK_DEADLOCK FALSE
