SPECIFICATION FairSpec
CONSTANTS
  id1 = id1
  relay1 = relay1
  ip1 = ip1
  ip2 = ip2
  Ids = {id1}
  Relays = {relay1}
  Ips = {ip1, ip2}
  Customs = {}
  Malformed = Malformed
  NoAddr = NoAddr
  Addrs <- SomeAddrs
  MaxChanges = 2
  MaxFlaps = 1
  OnlineCalls = {}
  WarmUp = FALSE
  Recipes = {"snapshot_first"}
CHECK_DEADLOCK FALSE
PROPERTIES
  FlowConverges
