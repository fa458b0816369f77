SPECIFICATION MCSpec
CONSTANTS
  t1 = t1
  t2 = t2
  t3 = t3
  Task = {t1, t2, t3}
  NoTask = NoTask
  TNUM_TPRI = 2
  Wobj = {}
  TpriWobj = {}
  Mutex = {}
  CeilMtx = {}
  ceilpri <- MCNoCeiling
  ipri <- MCipri
  Torder <- MCTorder
  TA_ACT = {t1, t2}
  TA_NOACTQUE = {t1, t3}
  MaxNest = 2
  OvrTask = {t1, t3}
  Budgets = {1, 2}
  TMEVTB = {e1, e2, e3, e4, e5, e6, e7}
  W = 4
  NoEvent = NoEvent
INVARIANTS
  BudgetKept
  OverrunNoticed
PROPERTIES
  ReadyOrderKept
  SchedulingPromised
  QueuePromised
VIEW MCView
CHECK_DEADLOCK FALSE
