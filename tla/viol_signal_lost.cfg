\* SIGTERM: expects a process that does not end.
SPECIFICATION FairSpec
CONSTANTS
  MaxFd = 5
  Faults = {"signal"}
  Lines <- MCFewLines
  MaxInbox = 2
  MaxChunks = 1
  Dirs <- MCDirs
  RootDir <- MCRootDir
PROPERTIES
  SignalledQuits
