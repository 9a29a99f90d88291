SPECIFICATION RunSpec
CONSTANTS
  a1 = a1
  a2 = a2
  a3 = a3
  d1 = d1
  d2 = d2
  me = me
  loc = loc
  ext = ext
  udp = udp
  x1 = x1
  x2 = x2
  x3 = x3
  x4 = x4
  Addr <- MCAddr
  Proto <- MCProto
  Payload <- MCPayload
  Mangled = Mangled
  HopByHop = HopByHop
  MaxStored = 2
  ClockMod = 4
  Arrivals <- Distinct
  Me = me
  NoFile = NoFile
  Partial = Partial
  AllocMayFail = FALSE
  DiskFaults = FALSE
  FlushMayFail = FALSE
  RemoveMayFail = FALSE
  SameMsStores = FALSE
  MaxDestinations = 2
  RetryDelay = 2
  MaxRetries = 2
  ContactPlan <- MCPlan
  StateSlots = 2
  Local <- MCLocal
  CgrAnswers <- DirectCgr
  NoHop = NoHop
  NULL = NULL
  Free = Free
  PoolSize = 3
  WalkMayHang = FALSE
  SendFaults = FALSE
  SlowSteps = FALSE
  Resend = TRUE
INVARIANT KeepsReceiving
