\* A list whose second entry fits only if the first one is moved down in its window.
CONSTANTS
  Top = 7
  d1 = d1
  d2 = d2
  Lists <- MCSearchLists
  BootLists = {}
  DefaultOrdering <- MCWhole
  ReservedList <- MCNothing
  WindowSets <- MCNoWindows
SPECIFICATION ArbiterSpec
PROPERTY MovesOnOnlyWithoutRoom
