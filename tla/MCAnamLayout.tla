---------------------------- MODULE MCAnamLayout ----------------------------
EXTENDS AnamLayout
MCMemory == {4 * k : k \in 2 .. 32}
MCConfigs ==
  [slot_size : {0, 1, 8, 24, 33}, slot_count : 0 .. 3, alignment : {0, 4, 8, 12, 16, 32}]
  \cup [slot_size : {8, SizeMod - 1}, slot_count : {1, 171}, alignment : {8, 32}]
=============================================================================
