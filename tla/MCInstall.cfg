SPECIFICATION FairInstallSpec
CONSTANTS
  Byte <- MCByte
  Zero = 0
  PageSize = 2
  ChipSize = 4
  Chips = 2
  Files <- MCFiles
  Contents <- MCContents
  MaxFaults = 2
INVARIANTS
  InstallTypeOK
  Installed
  NewThenOld
  UntouchedUntilShown
  FailsForAReason
PROPERTIES
  InstalledInTheEnd
