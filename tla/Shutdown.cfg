CONSTANTS
  Jobs = {j1}
  Main = Main
  NoOne = NoOne
  Calls = {c1, c2}
  Channels = {n1, n2}
  Run = Run
  MaxRequests = 1
SPECIFICATION Spec
INVARIANTS NothingRefused
PROPERTIES ImplementsLifecycle
