SPECIFICATION NodeSpec
CONSTANTS
  a1 = a1
  a2 = a2
  a3 = a3
  d1 = d1
  d2 = d2
  me = me
  loc = loc
  ext = ext
  udp = udp
  x1 = x1
  x2 = x2
  x3 = x3
  x4 = x4
  Addr <- MCAddr
  Proto <- MCProto
  Payload <- MCPayload
  Mangled = Mangled
  HopByHop = HopByHop
  MaxStored = 2
  ClockMod = 3
  Arrivals <- OneSender
  Me = me
  NoFile = NoFile
  Partial = Partial
  AllocMayFail = TRUE
  DiskFaults = TRUE
  FlushMayFail = FALSE
  RemoveMayFail = TRUE
  SameMsStores = FALSE
  MaxDestinations = 2
  RetryDelay = 1
  MaxRetries = 2
  ContactPlan <- ShortPlan
  StateSlots = 2
  Local <- MCLocal
  CgrAnswers <- MCCgr
  NoHop = NoHop
  NULL = NULL
  Free = Free
  PoolSize = 3
  WalkMayHang = TRUE
  SendFaults = TRUE
  SlowSteps = FALSE
  Resend = FALSE
INVARIANTS NodeTypeOK CustodyKept NoDanglingCursor TrackingDistinct RetryBound
