CONSTANTS
  h1 = h1
  h2 = h2
  g1 = g1
  i1 = i1
  i2 = i2
  i3 = i3
  once = once
  deny = deny
  NoAsk = NoAsk
  w1 = w1
  w2 = w2
  HttpAsk = {h1}
  GatewayAsk = {}
  Id = {i1}
  Choice = {once, deny}
  Link = {w1}
  Renaming = {}
  IdOf <- MCOwnIds
  KindOf <- MCKinds
  Offered <- MCOffered
  Observed = {}
  CoLocated = FALSE
  TimerCancels = FALSE
SPECIFICATION Spec
INVARIANT NoneMeansNobodyAnswered
