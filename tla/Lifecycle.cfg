CONSTANTS
  Jobs = {j1, j2, j3}
  Main = Main
  NoOne = NoOne
SPECIFICATION Spec
INVARIANTS OneRunAtATime StopIsFinal NoUseAfterClose CleanExit
PROPERTIES ShutdownCompletes JobsEnd
