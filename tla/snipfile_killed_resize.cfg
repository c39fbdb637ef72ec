SPECIFICATION Spec
CONSTANTS
  Procs = {p1, p2}
  NoProc = NoProc
  Batch = 2
  MaxSnips = 2
  Kills = TRUE
  Faults = {}
INVARIANT FileValidWhenUnlocked
