SPECIFICATION Spec
CONSTANTS
  t1 = t1
  t2 = t2
  t3 = t3
  Task = {t1, t2, t3}
  Declared <- Chain
  Change = {c1, c2}
  Null = Null
  Disturbances = {}
INVARIANTS GraphTasksAreBounded
CHECK_DEADLOCK FALSE
