SPECIFICATION Spec
CONSTANTS
  w1 = w1
  w2 = w2
  e1 = e1
  e2 = e2
  e3 = e3
  a = a
  b = b
  res = res
  NoKey = NoKey
  Worker = {w1, w2}
  Exec = {e1, e2, e3}
  Key = {a, b, res}
  Jobs <- RefusedSender
PROPERTY
  CloseEndsStep
CHECK_DEADLOCK FALSE
