\* A peer that resets its connection: expects the server to exit.
SPECIFICATION Spec
CONSTANTS
  MaxFd = 5
  Faults = {"reset"}
  Lines <- MCFewLines
  MaxInbox = 2
  MaxChunks = 1
  Dirs <- MCDirs
  RootDir <- MCRootDir
INVARIANTS
  ClientCannotStopServer
