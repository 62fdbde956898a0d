\* A server with or without a key; clients with it, with another and without;
\* time-outs, exceptions and a signal.
CONSTANTS
  c1 = c1
  c2 = c2
  key = key
  other = other
  m1 = m1
  m2 = m2
  Id = {m1, m2}
  None = None
  Client = {c1, c2}
  Requests <- Mixed
  ClientKey <- TwoKeys
  ServerKeys = {key, None}
  Timeout = TRUE
  MayThrow = TRUE
  MaySignal = TRUE
  MaxSends <- Sends
SPECIFICATION FairSpec
CHECK_DEADLOCK FALSE
INVARIANTS
  SuccessMeansApplied
  AppliedOnce
PROPERTIES
  OnlyEncryptedApplied
  ClientsAnswered
