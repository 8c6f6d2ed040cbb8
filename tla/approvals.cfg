CONSTANTS
  r1 = r1
  r2 = r2
  once = once
  always = always
  NoRequest = NoRequest
  NoTask = NoTask
  NoTime = NoTime
  Request = {r1, r2}
  Transport = {r1}
  HasCall = {r1, r2}
  Scope = {once, always}
  Allowed <- MCAllowed
  Depth = 1
  Timeout = 1
  Grace = 2
  PushBound = 1
  Responses <- MCResponses
SPECIFICATION Spec
INVARIANTS
  TypeOK
  AnsweredByAHuman
  OneResolutionPerCard
  NoDuplicateCard
  ListenerDecides
PROPERTY EveryPresentationEnds
CHECK_DEADLOCK FALSE
