SPECIFICATION ChainLive
CONSTANTS
  a1 = a1
  a2 = a2
  n1 = n1
  n2 = n2
  n3 = n3
  dst = dst
  udp = udp
  x1 = x1
  x2 = x2
  Addr <- MCAddr
  Proto <- MCProto
  Payload <- MCPayload
  Mangled = Mangled
  HopByHop = HopByHop
  N = 3
  MaxStored = 2
  MaxRetries = 1
  MaxCrashes = 1
  NodeAddr <- MCNodeAddr
  Arrivals <- TwoSenders
INVARIANTS AckMeansBeyond NoneLost
PROPERTY EndsDeliveredOrGivenUp
