SPECIFICATION MCSpec
CONSTANTS
  Supplier = {s1, s2}
  Written = {w1}
  MaxId = 3
  None = None
  d1 = d1
  d2 = d2
  p1 = p1
  p2 = p2
  b1 = b1
  b2 = b2
  Seeder <- MCSeeder
  Demo <- MCDemo
  Units <- MCUnits
  Partners <- MCPartners
  UnitOf <- MCUnitOf
  Receipts = 2
  Uses <- MCUses
  Starts <- MCStarts
  Steps = 2
  Again = 2
  Process <- MCProcess
  Way <- MCWay
  MaxSecond = 1
  MaxVersion = 1
  MaxNumber = 1
  MaxCopies = 2
  Branch <- MCBranch
  Main <- MCMain
  Tests <- MCTests
  Checks <- MCChecks
  Entries <- MCEntries
  Levels <- MCLevels
  MaxEdits = 2
SYMMETRY Symmetry
INVARIANTS
  IInv EnteredNumbersComeBack
  NoneFailsAlone CreatedOnce CopiesStay NoFalseAlarm
PROPERTIES
  StoresAllOrNone ReplacedStateIsSaved OnlyWholeStates MasterGrowsNoWeaker
CHECK_DEADLOCK FALSE
