SPECIFICATION Spec
CONSTANTS
  client = client
  server = server
  event_task = event_task
  main_thread = main_thread
  recv_task = recv_task
  NoThread = NoThread
  Nodes = {client, server}
  Callers = {event_task}
  Home <- ClientHome
  Peer <- LinkPeer
  Cmds = {"ST_FULL"}
  SemMax = 2
  MaxCid = 5
  Waits <- ClientWaits
  CbResults = {TRUE}
  Timeouts = FALSE
  Lossy = FALSE
  Reorders = TRUE
  MaxDuplicates = 1
  MaxCmds = 3
INVARIANT AckedExecuted
PROPERTIES
  WaitMeansAcked
  CommandAnswered
CHECK_DEADLOCK FALSE
