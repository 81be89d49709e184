SPECIFICATION SpecIngest
CONSTANTS
  Modes = {"threads", "processes", "polls"}
  udp = udp
  tcp = tcp
  s1 = s1
  s2 = s2
  k1 = k1
  k2 = k2
  Receiver = {udp, tcp}
  Udp = {udp}
  Source = {s1, s2}
  NWorker = 2
  Route <- MCRoute
  Capacity = 1
  MaxMsg <- MCMaxMsg
  Feeder = {udp, tcp}
  UdpFeeder = {udp}
  Key = {k1}
  NChild = 2
  KeyRoute <- MCKeyRoute
  QueueSize = 1
  MaxRead <- MCMaxRead
  MaxDeaths = 1
  Processes = {"p1", "p2"}
  Slots <- ThreadSlots
  MaxItems = 1
  PageItems = 1
  MaxPollEvents = 2
INVARIANTS IngestTypes CountersAddUp PerSenderOrder DrainHandles KeyOrder PulledOnce
PROPERTY IngestGoesOn
CHECK_DEADLOCK FALSE
