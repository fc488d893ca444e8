SPECIFICATION Spec
CONSTANTS
  client = client
  server = server
  event_task = event_task
  main_thread = main_thread
  recv_task = recv_task
  NoThread = NoThread
  Nodes = {client, server}
  Callers <- TwoCallers
  Home <- TwoHomes
  Peer <- LinkPeer
  Cmds = {"ST_FULL"}
  SemMax = 2
  MaxCid = 5
  Waits <- NoWaits
  CbResults = {TRUE}
  Timeouts = FALSE
  Lossy = TRUE
  Reorders = FALSE
  MaxDuplicates = 0
  MaxCmds = 1
PROPERTIES
  CommandAnswered
CHECK_DEADLOCK FALSE
