CONSTANTS
  u1 = u1
  u2 = u2
  a1 = a1
  a2 = a2
  a3 = a3
  a4 = a4
  Uid = {u1, u2}
  Endpoint = {a1, a2, a3, a4}
  Sender <- MCSender
  Data = {cmd}
  Heartbeat = hash
  Empty = empty
  NoAddr = none
  Timeout = 4
  Period = 2
  Slack = 1
SPECIFICATION Spec
INVARIANTS TypeOK Isolation BoundedResidency AddressesAreEarned
PROPERTIES SilentGroupExpires ImplementsRendezvous
