CONSTANTS
  h1 = h1
  h2 = h2
  g1 = g1
  i1 = i1
  i2 = i2
  i3 = i3
  once = once
  deny = deny
  NoAsk = NoAsk
  w1 = w1
  w2 = w2
  HttpAsk = {h1}
  GatewayAsk = {g1}
  Id = {i1, i3}
  Choice = {once}
  Link = {w1}
  Renaming = {w1}
  IdOf <- MCOwnIds
  KindOf <- MCKinds
  Offered <- MCOffered
  Observed = {}
  CoLocated = FALSE
  TimerCancels = TRUE
SPECIFICATION FairSpec
INVARIANTS
  TypeOK
  LinksAreRead
PROPERTIES
  EveryAskIsReplied
  CardsAreSwept
