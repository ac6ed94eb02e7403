SPECIFICATION FairSpec
CONSTANTS
  a = a
  b = b
  n = n
  m = m
  NoCall = NoCall
  Calls = {a, b, n, m}
  Within <- Nesting
INVARIANTS SocketInv PrimaryIsExclusive NothingOutlivesListener
PROPERTIES CallsImplemented ListenerReturns
CHECK_DEADLOCK FALSE
