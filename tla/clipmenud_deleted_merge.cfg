SPECIFICATION Spec
CONSTANTS
  Apps = {w1}
  Ignored = {}
  Selections <- Primary
  Owned = {"CLIPBOARD"}
  Configs <- Default
  MaxClips = 2
  MaxClipsBatch = 1
  foo = foo
  fooa = fooa
  bar = bar
  blank = blank
  secret = secret
  Texts = {foo, fooa, bar}
  Secret = {}
  Blank = {}
  IsPossiblePartial <- Partials
  NoText = NoText
  Nobody = Nobody
  Clipserves = {c1}
  StartEmpty = TRUE
  Overtaking = TRUE
  Deletions = TRUE
  MaxCopies = 3
  MaxSignals = 0
  MaxNoise = 0
CHECK_DEADLOCK FALSE
PROPERTY MergeReplacesLast
