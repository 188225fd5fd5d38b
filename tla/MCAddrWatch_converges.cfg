SPECIFICATION FairSpec
CONSTANTS
  id1 = id1
  relay1 = relay1
  ip1 = ip1
  ip2 = ip2
  Ids = {id1}
  Relays = {relay1}
  Ips = {ip1, ip2}
  Customs = {}
  Malformed = Malformed
  NoAddr = NoAddr
  Addrs <- SomeAddrs
  MaxChanges = 3
  MaxFlaps = 1
  OnlineCalls = {c1}
  WarmUp = TRUE
  Recipes = {"snapshot_first", "watch_first"}
CHECK_DEADLOCK FALSE
PROPERTIES
  ViewConverges
  DisposedIsClosed
