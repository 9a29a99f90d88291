\* Routing decisions over every plan made of ten contacts.
CONSTANTS
  Deployments <- MCDeployments
  NoFile = NoFile
  BaseTimes = {0, 62}
  Elapsed = {0, 3}
  SenderAddresses = {"fd00:1::1", "fd00:12::2", "fd00:99::9"}
  MaxDelay = 2
  MaxContacts = 10
  ClockMod = 64
  Destination = 32
  NumRoutes = 4
  Deadline = 8
  Size = 1
  MaxSize = 1000
  NoHop = NoHop
SPECIFICATION RoutingSpec
INVARIANTS
  RoutesLead
  RoutesInOrder
  NoBetterRouteMissed
  AnswerIffDeliverable
  EarliestAnswer
  ForwardedInContact
  StoredOnlyWhenClosed
  NeverBackToSender
