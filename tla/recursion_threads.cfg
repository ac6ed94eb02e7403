SPECIFICATION FairSpec
CONSTANTS
  f1 = f1
  f2 = f2
  f3 = f3
  h0 = h0
  h1 = h1
  h2 = h2
  h3 = h3
  h4 = h4
  gui = gui
  other = other
  NoCall = NoCall
  Forks = {f1, f2, f3}
  Handles = {h0, h1, h2, h3, h4}
  Threads = {gui, other}
  Caller <- MCCaller
  Within <- MCWithin
INVARIANTS RecursionInv NoTaskStranded RunsOnForkingThread
PROPERTY CallsReturn
CHECK_DEADLOCK FALSE
