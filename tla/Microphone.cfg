SPECIFICATION Spec
CONSTANTS
  DmaSize = 12
  ReadLen = 6
  SizeMax = 31
  Prebuffer <- NarrowAndWideBand
INVARIANTS
  TypeOK
  NeverPromisesMore
PROPERTY MicrophoneResumes
CHECK_DEADLOCK FALSE
