SPECIFICATION Spec
CONSTANTS
  client = client
  server = server
  event_task = event_task
  main_thread = main_thread
  recv_task = recv_task
  NoThread = NoThread
  Nodes = {client, server}
  Callers <- LinkCallers
  Home <- LinkHome
  Peer <- LinkPeer
  Cmds = {"ST_FULL"}
  SemMax = 2
  MaxCid = 1
  Waits <- LinkWaits
  CbResults = {TRUE, FALSE}
  Timeouts = TRUE
  Lossy = TRUE
  Reorders = FALSE
  MaxDuplicates = 0
  MaxCmds = 2
INVARIANTS
  TypeOK
  AckedExecuted
  ExecutedInOrder
PROPERTIES
  WaitMeansAcked
  ImplementsChannel
CHECK_DEADLOCK FALSE
