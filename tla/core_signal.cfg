\* SIGTERM against everything the thread may be doing, and the promises of a
\* session, with two lines in one read(): the client need not wait for an answer
\* before it sends the next line.
SPECIFICATION FairSpec
CONSTANTS
  MaxFd = 5
  Faults = {"signal", "reset", "pipeline"}
  Lines <- MCSessionLines
  MaxInbox = 4
  MaxChunks = 1
  Dirs <- MCDirs
  RootDir <- MCRootDir
INVARIANTS
  ClosedAtExit
PROPERTIES
  SignalEndsProcess ImplementsSession
