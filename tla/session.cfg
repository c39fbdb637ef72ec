SPECIFICATION FairSpec
CONSTANTS
  MaxIncidents = 3
  Menus = {m1}
  Servers = {m1, Clipmenud}
  Clipmenud = Clipmenud
  Free = Free
  t1 = t1
  t2 = t2
  Texts <- MCTexts
  Hashes <- MCTexts
  Stored <- MCStored
  Zero = Zero
  NoHash = Zero
  App = App
  Nobody = Nobody
  PipeSize = 1
  MaxSnips = 2
  MaxAdds = 1
  MaxRemovals = 1
  MaxKills = 1
  RefFails = TRUE
  MaxCopies = 2
  Requests = {r1, r2}
INVARIANTS TypeOK ChosenIsServed ServesUntilLost
CHECK_DEADLOCK FALSE
PROPERTIES NobodyWaitsForUser EndsWhenLost RequestsAnswered
