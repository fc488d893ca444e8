SPECIFICATION Spec
CONSTANTS
  pa_callback = pa_callback
  recv_task = recv_task
  main_thread = main_thread
  event_task = event_task
  req_sender = req_sender
  ep1 = ep1
  ep2 = ep2
  NoThread = NoThread
  SendTask = SendTask
  SemMax = 1
  Threads <- ClientThreads
  Ops <- ClientOps
  Killable = {req_sender}
  DataWidth = 2
  SendSizes = {1}
  Endpoints = {ep1}
  MaxBytes = 3
INVARIANTS
  TypeOK
  NoLostWakeup
