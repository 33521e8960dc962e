\* Two callers, two lists, two tables of routes in any order, two changes of rows.
CONSTANTS
  ana = ana
  ben = ben
  None = None
  Wild = Wild
  Tables <- MCTables
  Methods <- MCMethods
  Paths <- MCPaths
  Mounts <- MCMounts
  Assets <- MCAssets
  BuiltIns <- MCBuiltIns
  Lists <- MCLists
  Listing <- MCListing
  Rows <- MCRows
  FirstRows <- MCFirstRows
  Walkers <- MCWalkers
  Sizes <- MCSizes
  Order <- MCOrder
  Unkeyed <- MCUnkeyed
  Overlong <- MCOverlong
  Unfiltered = "all"
  DefaultSize = 1
  MaxSize = 2
  MaxChanges = 2
SYMMETRY MCSymmetry
SPECIFICATION Spec
INVARIANTS
  AnswersDeclared
  NothingMissed
PROPERTIES
  PagesAdjoin
