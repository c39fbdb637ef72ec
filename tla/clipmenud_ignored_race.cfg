SPECIFICATION Spec
CONSTANTS
  Apps = {w1, w2}
  Ignored = {w2}
  Selections <- Primary
  Owned = {"CLIPBOARD"}
  Configs <- Default
  MaxClips = 2
  MaxClipsBatch = 1
  foo = foo
  fooa = fooa
  bar = bar
  blank = blank
  secret = secret
  Texts = {foo, secret}
  Secret = {secret}
  Blank = {}
  IsPossiblePartial <- Partials
  NoText = NoText
  Nobody = Nobody
  Clipserves = {c1}
  StartEmpty = TRUE
  Overtaking = TRUE
  Deletions = FALSE
  MaxCopies = 2
  MaxSignals = 0
  MaxNoise = 0
CHECK_DEADLOCK FALSE
INVARIANT IgnoredNotStored
