SPECIFICATION Spec
CONSTANTS
  Apps = {w1}
  Ignored = {}
  Selections <- Both
  Owned = {"CLIPBOARD"}
  Configs <- EitherSet
  MaxClips = 2
  MaxClipsBatch = 2
  foo = foo
  fooa = fooa
  bar = bar
  blank = blank
  secret = secret
  Texts = {foo, fooa}
  Secret = {}
  Blank = {}
  IsPossiblePartial <- Partials
  NoText = NoText
  Nobody = Nobody
  Clipserves = {c1, c2, c3}
  StartEmpty = FALSE
  Overtaking = FALSE
  Deletions = FALSE
  MaxCopies = 2
  MaxSignals = 0
  MaxNoise = 0
SYMMETRY AnyClipserve
CHECK_DEADLOCK FALSE
INVARIANTS OneshotCompletes LastCopyStored
PROPERTY MergeReplacesLast
