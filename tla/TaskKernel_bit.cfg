SPECIFICATION Spec
CONSTANTS
  t1 = t1
  t2 = t2
  w1 = w1
  Task = {t1, t2}
  NoTask = NoTask
  TNUM_TPRI = 2
  Wobj = {}
  TpriWobj = {}
  Mutex = {}
  CeilMtx = {}
  ceilpri <- MCNoCeiling
  ipri <- MCipri2
  Torder <- MCTorder2
  TA_ACT = {t1, t2}
  TA_NOACTQUE = {t2}
  MaxNest = 1
INVARIANT
  BitTCBRaster
CHECK_DEADLOCK FALSE
