SPECIFICATION Spec
CONSTANTS
  Daemon = d
  Deleters = {c1, c2}
  NoProc = NoProc
  t1 = t1
  t2 = t2
  t3 = t3
  h1 = h1
  h2 = h2
  Texts = {t1, t2, t3}
  Zero = Zero
  Hashes = {h1, h2}
  NoHash = NoHash
  Hash <- Colliding
  MaxLen = 3
  MaxKills = 0
INVARIANTS TypeOK ContentMatchesSnips ReadableUntilRaced NoContentError
PROPERTY ImplementsLog
