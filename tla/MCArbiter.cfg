\* Eight addresses of which one to five are ordinary; two devices with up to three entries each time.
CONSTANTS
  Top = 7
  d1 = d1
  d2 = d2
  Lists <- MCLists
  BootLists <- MCBootLists
  DefaultOrdering <- MCOrdering
  ReservedList <- MCReserved
  WindowSets <- MCWindows
SPECIFICATION ArbiterSpec
INVARIANTS ArbTypeOK RangesExclusive CopyIsTheAssignment AssignedAsAsked PrefetchableKeptApart
PROPERTIES OthersKeepTheirRanges SearchEnds
