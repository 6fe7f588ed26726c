SPECIFICATION Spec
CONSTANTS
  StreamLen = 5
  TCP_WND = 5
  SeqSpace = 32
INVARIANT InSequenceData
CHECK_DEADLOCK FALSE
