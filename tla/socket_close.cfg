SPECIFICATION Spec
CONSTANTS
  a = a
  b = b
  n = n
  m = m
  NoCall = NoCall
  Calls = {a, b}
  Within <- Flat
PROPERTY CloseWaitsForListener
CHECK_DEADLOCK FALSE
