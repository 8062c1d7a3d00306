SPECIFICATION SoSpec
CONSTANTS
  SoMaxWrites = 3
  SoMaxLocks = 2
  SoMaxRestarts = 1
INVARIANTS SoStoresAgree
 
