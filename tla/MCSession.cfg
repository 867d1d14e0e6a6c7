CONSTANTS
  u1 = u1
  a1 = a1
  a2 = a2
  a3 = a3
  Uid = {u1}
  Endpoint = {a1, a2, a3}
  Sender <- MCSender
  Data = {cmd}
  Heartbeat = hash
  Empty = empty
  NoAddr = none
  Timeout = 2
  Period = 1
  Slack = 1
  Group = u1
  Home <- MCHome
  First <- MCFirst
  Says <- MCSays
  Gap = 3
  MaxTrouble = 2
SPECIFICATION SessionSpec
INVARIANT SessionSurvives
PROPERTY Heals
