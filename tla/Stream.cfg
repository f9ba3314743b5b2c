CONSTANTS
  Clients = {c1}
  Verdicts = {"deny"}
  QueueCap = 1
  SendCap = 2
  MaxEvents = 2
  MaxSeq = 2
  MaxPings = 1
  Conns = {1, 2, 3, 4, 5}
  IPs = {"a", "b"}
  ip <- ipOf
  MaxConns = 2
  MaxAttempts = 3
  MaxClients = 2
SPECIFICATION StreamSpec
INVARIANTS NothingMissed EventsInOrder SlotsExact
PROPERTY FanOutNeverBlocked
CHECK_DEADLOCK FALSE
