SPECIFICATION Spec
CONSTANTS
  Daemon = d
  Deleters = {c}
  NoProc = NoProc
  t1 = t1
  t2 = t2
  t3 = t3
  h1 = h1
  h2 = h2
  Texts = {t1, t2}
  Zero = Zero
  Hashes = {h1, h2}
  NoHash = NoHash
  Hash <- DistinctHashes
  MaxLen = 2
  MaxKills = 0
INVARIANT SnipsReadable
