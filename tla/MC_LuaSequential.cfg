SPECIFICATION MCSpec
CONSTANTS
  key1 = key1
  key2 = key2
  IntKeys = {1, 2, 4, 7}
  ObjKeys = {key1, key2}
  Address <- MCAddress
  MaxInteger = 7
  MaxASize = 4
  MaxNodes = 4
  Sizes <- MCSizes
  Alphabet <- MCAlphabet
  Families <- MCFamilies
  ClassOf <- MCClassOf
  Complement <- MCComplement
  CharCode <- MCCharCode
  MaxCaptures = 2
  MaxCCalls = 6
  Orders <- MCOrders
  RANLIMIT = 4
  Imbalance = 1
  Random = {0, 1, 2}
  INT_MAX = 7
  FreeStack = 5
  MaxLen = 4
  NBITS = 8
  MAXREGS = 15
  MAXARG_B = 15
  MAXARG_C = 15
  MAXARG_Bx = 20
  MAXARG_sJ = 255
  MAXVARS = 12
  MAXUPVAL = 12
  LFIELDS_PER_FLUSH = 2
  StackSize = 90
  Programs <- MCPrograms
  Chunk <- MCChunk
  Meaning <- MCMeaning
INVARIANTS TableIsItsMap LengthIsItsBorder TableTraversalSound PatternsMatch
  StaysInside Sorts SameOutcome StackDiscipline CompilerClaims
PROPERTY LibraryAsPromised
