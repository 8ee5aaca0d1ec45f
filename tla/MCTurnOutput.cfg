SPECIFICATION Spec
CONSTANTS
  a = a
  b = b
  p = p
  q = q
  e = e
  f = f
  NoText = NoText
  NoPlan = NoPlan
  NoError = NoError
  Supports <- MCSupports
  Prompts <- MCPrompts
  Updates <- MCUpdates
  Answers <- MCAnswers
  Errors = {e, f}
  Plans = {p, q}
  Texts = {a, b}
  MaxUpdates = 3
INVARIANTS TypeOK OutputRepeatsStream PlanIsLatest FailureReported PromptWhole
