SPECIFICATION MessagesSpec
CONSTANTS
  t1 = t1
  t2 = t2
  t3 = t3
  f1 = f1
  f2 = f2
  b1 = b1
  b2 = b2
  d0 = d0
  r0 = r0
  d2 = d2
  r2 = r2
  v1 = v1
  v2 = v2
  p2 = p2
  rp = rp
  u1 = u1
  u2 = u2
  u3 = u3
  Task = {t1, t2, t3}
  NoTask = NoTask
  TNUM_TPRI = 2
  Wobj = {f1, f2, d0, r0, d2, r2, p2, rp}
  TpriWobj = {f1, d0}
  Mutex = {}
  CeilMtx = {}
  ceilpri <- MCNoCeiling
  ipri <- MCipri
  Torder <- MCTorder
  TA_ACT = {t1, t3}
  TA_NOACTQUE = {t1, t2, t3}
  MaxNest = 1
  Eventflag = {f1, f2}
  Bit = {b1, b2}
  iflgptn <- MCiflgptn
  TA_CLR = {f1}
  TA_WMUL = {f1, f2}
  Dataqueue = {d0, d2}
  rwait <- MCrwait
  dtqcnt <- MCdtqcnt
  Data = {v1, v2}
  NoData = NoData
  Pridataq = {p2}
  rwaitPdq <- MCrwaitPdq
  pdqcnt <- MCpdqcnt
  Pridata = {u1, u2, u3}
  datapri <- MCdatapri
  NoPridata = NoPridata
SYMMETRY DataSymmetry
VIEW MessagesView
INVARIANTS
  NoMissedFlag
  NobodyWaitsInVain
PROPERTIES
  PatternTold
  ServedOnceInOrder
  ChannelPromised
  DataDelivered
  PriorityPromised
CHECK_DEADLOCK FALSE
