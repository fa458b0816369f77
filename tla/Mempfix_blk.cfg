SPECIFICATION ResourcesSpec
CONSTANTS
  t1 = t1
  t2 = t2
  t3 = t3
  m1 = m1
  m2 = m2
  s1 = s1
  s2 = s2
  q1 = q1
  Task = {t1, t2, t3}
  NoTask = NoTask
  TNUM_TPRI = 3
  Wobj = {m1, m2, s1, s2, q1}
  TpriWobj = {m1, s1, q1}
  Mutex = {m1, m2}
  CeilMtx = {m1}
  ceilpri <- MCceilpri
  ipri <- MCipri
  Torder <- MCTorder
  TA_ACT = {t1, t2}
  TA_NOACTQUE = {t1, t2, t3}
  MaxNest = 1
  Semaphore = {s1, s2}
  isemcnt <- MCisemcnt
  maxsem <- MCmaxsem
  Mpf = {q1}
  blkcnt <- MCblkcnt
  NoBlk = NoBlk
PROPERTY
  BlockHandedOver
CHECK_DEADLOCK FALSE
