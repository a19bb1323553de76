SPECIFICATION FairSpec
CONSTANTS
  Main = Main
  c1 = c1
  c2 = c2
  c3 = c3
  Setups <- AllSetups
  SizeBuf = 2
  SizeTMod = 64
  UIntMod = 32
  Alloc = 14
  OneRead = 7
  Inputs <- TwoFiles
  SizeMod = 64
  Unwanted = {1}
INVARIANTS
  TypeOK
  SlotIsItsOwn
  AbsoluteIndexRecovered
PROPERTIES
  PipeSpec
  AllFiltered
