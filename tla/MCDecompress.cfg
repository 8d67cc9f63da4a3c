SPECIFICATION DecompressSpec
CONSTANT Packages <- TestPackages
INVARIANTS
  DecompressTypeOK
  InStep
  DamageRefused
  Verdict
