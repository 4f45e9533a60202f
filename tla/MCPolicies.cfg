\* Five blocks for a pool of four, with each of the policies.
CONSTANTS
  Block = {b1, b2, b3, b4, b5}
  PoolSize = 4
  Build <- MCBuild
SYMMETRY Symmetry
SPECIFICATION PolSpec
INVARIANTS PolTypeOK EachBlockOnce ListsWithinSize SlotForEveryBlock VictimExists
PROPERTIES GivesUpWhatPoolMay
