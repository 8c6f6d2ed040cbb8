CONSTANTS
  Place = {"gateway"}
  Depth = 1
  Turn = {t1, t2, NoTurn}
  NoTurn = NoTurn
  Interrupts = FALSE
  Tools = {"bash"}
SPECIFICATION Spec
INVARIANT AnswerResumesTheWork
