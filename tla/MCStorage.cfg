SPECIFICATION StorageSpec
CONSTANTS
  a1 = a1
  a2 = a2
  d1 = d1
  d2 = d2
  me = me
  udp = udp
  tcp = tcp
  x1 = x1
  x2 = x2
  x3 = x3
  Addr <- MCAddr
  Proto <- MCProto
  Payload <- MCPayload
  Mangled = Mangled
  HopByHop = HopByHop
  MaxStored = 2
  ClockMod = 3
  Arrivals <- MCArrivals
  Me = me
  NoFile = NoFile
  Partial = Partial
  AllocMayFail = FALSE
  DiskFaults = TRUE
  FlushMayFail = FALSE
  RemoveMayFail = FALSE
  SameMsStores = FALSE
INVARIANTS ListConsistent MemoryOnDisk NoOrphanFile LoadIsComplete
PROPERTY ImplementsPersistentStore
