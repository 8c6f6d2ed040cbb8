CONSTANTS
  s1 = s1
  s2 = s2
  d1 = d1
  d2 = d2
  NoLink = NoLink
  NoDevice = NoDevice
  NoEntry = NoEntry
  NoCall = NoCall
  Socket = {s1, s2}
  Device = {d1, d2}
  IdsOf <- MCIdsOf
  UrlOf <- MCUrlOf
  Allowed = {d2}
  Sender = {k1}
  Scope = {once}
  Chip = {chip}
SPECIFICATION Spec
CONSTRAINT FewUnderWay
INVARIANTS
  TypeOK
  TableIsRead
  RevocationIsTimely
  BroadcastMissesNobody
PROPERTY NewerLinkStays
