CONSTANTS
  MaxId = 2
  MaxFrames = 2
SPECIFICATION FairSpec
INVARIANTS AnsweredOnce NoLostRequest OrderlyEnd
PROPERTIES ImplementsContract EndIsReported RequestResolves
CHECK_DEADLOCK FALSE
