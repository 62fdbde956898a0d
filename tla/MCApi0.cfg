\* Everything that version 0 of the API accepts or refuses, with one trace path.
CONSTANTS
  n1 = n1  s1 = s1  s2 = s2  a4 = a4  b6 = b6  b6long = b6long  bad = bad
  path = path  EmptyText = EmptyText  None = None
  NicId = {n1}
  SgId = {s1}
  Text = {a4, b6, b6long, bad, EmptyText}
  Family <- MCFamily
  Canonical <- MCCanonical
  DefaultPath <- MCDefaultPath
  ConfigTrace = FALSE
  NicMessages <- MCNics
  UpdateMessages <- MCUpdates
  RuleMessages <- TidyRules
  SgMessages <- MCSgs
  MayFail = TRUE
SPECIFICATION Spec
INVARIANTS ResponsesComplete DumpRestores RulesWellFormed
PROPERTIES NokChangesNothing RuleDelRemoves
