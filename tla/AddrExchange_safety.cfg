SPECIFICATION Spec
CONSTANTS
  Ids = {id1, id2}
  Relays = {relay1, relay2}
  Ips = {ip1, ip2}
  Customs = {custom}
  Malformed = Malformed
CHECK_DEADLOCK FALSE
INVARIANTS
  StaysReachable
PROPERTIES
  SettlesAtOnce
