CONSTANTS
  s1 = s1
  s2 = s2
  m1 = m1
  m2 = m2
  Sessions = {s1, s2}
  ModelOf <- MCModelOf
  Models = {m1, m2}
  NoRow = NoRow
  Null = Null
  None = None
  WindowDays = 0
  ModelLimit = 1
  MaxDay = 1
  MaxTokens = 1
  Agents = {"gateway", "cli"}
  Gateway = "gateway"
  Responses <- MCResponses
  MaxCalls = 2
SPECIFICATION Spec
INVARIANTS
  STypeOK
  MTypeOK
  CountedOnce
  SplitsNeverBehind
  RateIsOfOneCall
  ContextIsOfOneModel
