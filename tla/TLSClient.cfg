CONSTANTS
  login = login
  browse = browse
  notify = notify
  mteam = mteam
  Callers = {t1, t2, t3}
  Closers = {c1, c2}
  Keys = {login, browse, notify}
  Scope <- MCScope
  NoScope = NoScope
  Idle = Idle
SPECIFICATION Spec
INVARIANTS OneJarPerScope CloseMeansDrained
PROPERTIES WaitGroupDiscipline CloseReturns
