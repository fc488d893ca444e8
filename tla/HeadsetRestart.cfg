SPECIFICATION Spec
CONSTANTS
  Client = client
  Server = server
  NoThread = NoThread
  Nodes = {client, server}
  Cmds = {"ST_FULL", "ST_DISCONNECT"}
  SemMax = 1
  MaxCid = 7
  Lossy = FALSE
  MaxPauses = 1
  MaxQuits = 0
PROPERTY RequestAnswered
CHECK_DEADLOCK FALSE
