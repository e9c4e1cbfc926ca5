\* A peer that resets its connection: expects a descriptor that leaks.
SPECIFICATION Spec
CONSTANTS
  MaxFd = 5
  Faults = {"reset"}
  Lines <- MCFewLines
  MaxInbox = 2
  MaxChunks = 1
  Dirs <- MCDirs
  RootDir <- MCRootDir
INVARIANTS
  EverythingClosed
