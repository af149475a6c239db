CONSTANTS
  SizeMod = 4096
  AddrMod = 1024
  GenMod = 4
  Memory <- MCMemory
  Configs <- MCConfigs
SPECIFICATION Spec
INVARIANTS SlotsInBlock SlotsSeparate SlotsAligned HandleRoundTrip StrictExact
