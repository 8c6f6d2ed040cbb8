CONSTANTS
  Place = {"gateway", "cli"}
  Depth = 1
  Turn = {t1}
  NoTurn = NoTurn
  Interrupts = FALSE
  Tools = {"bash"}
SPECIFICATION Spec
INVARIANTS
  TypeOK
  
PROPERTIES
  ImplementsChannel
  HooksReturn
