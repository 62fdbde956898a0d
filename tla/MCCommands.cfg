\* Every command of a client, while another client edits the same objects.
CONSTANTS
  n1 = n1  s1 = s1  s2 = s2  a4 = a4  bad = bad  path = path
  admin = admin  other = other
  EmptyText = EmptyText  None = None  NotANumber = NotANumber  ClearIps = ClearIps
  NicId = {n1}
  SgId = {s1}
  Text = {a4, bad, EmptyText}
  Family <- MCFamily
  Canonical <- MCCanonical
  DefaultPath <- MCDefaultPath
  ConfigTrace = FALSE
  NicMessages = {}
  UpdateMessages = {}
  RuleMessages = {}
  SgMessages = {}
  MayFail = TRUE
  Client = {admin, other}
  Lines <- MCLines
  AnyPort = {7}
  Hasty <- MCHasty
  MayThrow = TRUE
SPECIFICATION CommandsSpec
VIEW CommandsView
PROPERTIES CommandsMeanWhatTheySay HashNamesTheRule
  GroupEditsHold DumpIsSnapshot
