SPECIFICATION Spec
CONSTANTS
  pa_callback = pa_callback
  recv_task = recv_task
  main_thread = main_thread
  event_task = event_task
  req_sender = req_sender
  ep1 = ep1
  ep2 = ep2
  NoThread = NoThread
  SendTask = SendTask
  SemMax = 3
  Threads <- ServerThreads
  Ops <- ServerOps
  Killable = {}
  DataWidth = 3
  SendSizes = {1, 2, 4}
  Endpoints = {ep1, ep2}
  MaxBytes = 8
INVARIANTS
  RaceFree
  SendMdServed
  PacketIsNextSlice
  HandshakeIsBinary
PROPERTIES
  MutexReleased
