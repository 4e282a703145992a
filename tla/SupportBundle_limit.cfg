SPECIFICATION SbSpec
CONSTANTS
  Log = {"a.log", "b.log"}
  Unsafe = {}
  Fixed <- ThreeFiles
  Extra = ".DS_Store"
  LogKinds <- OneGrows
  MaxDamage = 0
CHECK_DEADLOCK FALSE
INVARIANT WriterStaysWithinLimit
