SPECIFICATION FairSpec
CONSTANTS
  Procs = {p1, p2}
  NoProc = NoProc
  Batch = 2
  MaxSnips = 3
  Kills = TRUE
  Faults = {"ftruncate", "mmap", "mremap"}
INVARIANTS TypeOK LockedWhileReferenced AccessInBounds FileValidUntorn
INVARIANT MapCoversLocal
PROPERTIES ShrinkCutsFile CallsReturn
