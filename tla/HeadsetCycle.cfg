SPECIFICATION Spec
CONSTANTS
  Client = client
  Server = server
  NoThread = NoThread
  Nodes = {client, server}
  Cmds = {"ST_FULL", "ST_DISCONNECT"}
  SemMax = 1
  MaxCid = 7
  Lossy = TRUE
  MaxPauses = 3
  MaxQuits = 0
INVARIANTS
  TypeOK
  RequestPending
  StreamsWhenConnected
CHECK_DEADLOCK FALSE
