CONSTANTS
  Files <- MCFiles
  Texts <- MCTexts
  Addresses <- MCAddresses
  WordBits = 4
  MaxInt = 9
  MaxArgs = 3
SPECIFICATION Spec
INVARIANTS
  LoadedIsUsable
  LastSettingWins
CHECK_DEADLOCK FALSE
