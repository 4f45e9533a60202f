\* Order 4 and 13 keys, the fewest with which inner nodes are redistributed.
CONSTANTS
  MinKey = 1
  MaxKey = 13
  order = 4
SPECIFICATION BptSpec
INVARIANTS Balanced LinksAgree LeavesInOrder FindsWhatIsListed
