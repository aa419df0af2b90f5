CONSTANTS
  Missing = missing
  CostMax = 127
  MaxByte = 3
  InitialAlloc = 12
  GrowPercent = 150
  PackWidth = 4
  MaxChar = 4
  Default <- MCDefault
  SpaceName <- MCSpaceName
  SpaceChar = 2
  MaxCategories = 4
  NameMax = 2
  RCharset = "utf8"
  Sources <- AllSources
  Again <- RepeatSources
  MaxFull = 2
SPECIFICATION Spec
INVARIANTS TypeOK LookupFinds OpenedFilesComplete WordIdsInMatrix TablesUsable ResultOfRun
PROPERTY CellsKept
