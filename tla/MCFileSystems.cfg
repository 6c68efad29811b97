SPECIFICATION FairSpec
CONSTANTS
  SectorSize = 4
  BlockSize = 8
  Word = 1073741824
  MinBlock = 8
  Direct = 12
  NumberSize = 4
  DescriptorsPerBlock = 2
  EntrySize = 2
  BaseLen = 2
  NoBlock = NoBlock
  Lower <- MCLower
  Volumes <- MCVolumes
  Paths <- MCPaths
  UsedModes = {"r", "w"}
  Counts = {3, 70}
  Sizes = {3}
  Offsets = {8, 95}
  MaxCalls = 3
INVARIANTS DeliversFile FindsFile ListsDirectory NeverWild
PROPERTIES CallReturns
