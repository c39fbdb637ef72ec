SPECIFICATION FairSpec
CONSTANTS
  Apps = {w1, w2}
  Ignored = {w2}
  Selections <- Clipboard
  Owned = {"CLIPBOARD"}
  Configs <- Owning
  MaxClips = 2
  MaxClipsBatch = 1
  foo = foo
  fooa = fooa
  bar = bar
  blank = blank
  secret = secret
  Texts = {foo, blank, secret}
  Secret = {secret}
  Blank = {blank}
  IsPossiblePartial <- Partials
  NoText = NoText
  Nobody = Nobody
  Clipserves = {c1, c2}
  StartEmpty = FALSE
  Overtaking = TRUE
  Deletions = TRUE
  MaxCopies = 1
  MaxSignals = 2
  MaxNoise = 1
CHECK_DEADLOCK FALSE
INVARIANTS TypeOK MaxClipsKept
PROPERTY ComesToRest
