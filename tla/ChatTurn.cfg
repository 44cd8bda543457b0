SPECIFICATION Spec
CONSTANTS
  Turns = {t1, t2}
  Threads = {a}
  Ids = {i1, i2}
  None = None
SYMMETRY Interchangeable
INVARIANTS
  TypeOK
  RememberedIsShown
  DeletedIsGone
  AnswersItsQuestion

  
CHECK_DEADLOCK FALSE
