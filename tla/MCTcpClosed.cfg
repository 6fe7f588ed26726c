SPECIFICATION Spec
CONSTANTS
  cl = cl
  sv = sv
  Ends = {cl, sv}
  Client = cl
  SeqSpace = 32
  ISS <- MCISS
  Scenarios <- ClosingScenario
  TCP_MSS = 2
  TCP_WND = 2
  TCP_SND_BUF = 4
  TCP_SND_QUEUELEN = 3
  TCP_MAXRTX = 1
  TCP_SYNMAXRTX = 1
  CwndSpace = 32
  WriteSizes = {1, 2}
  NoDelay = {TRUE, FALSE}
  DupThresh = 1
  Accepts = {TRUE, FALSE}
CHECK_DEADLOCK FALSE
PROPERTY ClosedSuccessfully
