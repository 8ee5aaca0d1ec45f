SPECIFICATION Spec
CONSTANTS
  mode = mode
  model = model
  fast = fast
  x = x
  y = y
  on = on
  blank = blank
  none = none
  Ids = {mode, model, fast}
  Values = {x, y, on, blank}
  Blank = blank
  Bools = {on}
  BoolIds = {fast}
  ModelIds = {model}
  ModeId = mode
  NoModes = none
  Configs <- MCConfigs
  Answers <- MCAnswers
  Seeds <- MCSeeds
INVARIANTS TypeOK ConfiguredInForce PersistedRestored RecordTrue
PROPERTIES ModelNotAdded SetUpEnds
