\* Every fault at once: the safety properties.
SPECIFICATION Spec
CONSTANTS
  MaxFd = 5
  Faults = {"reset", "signal", "fragment", "pipeline", "bind", "rootGone"}
  Lines <- MCLines
  MaxInbox = 3
  MaxChunks = 1
  Dirs <- MCDirs
  RootDir <- MCRootDir
INVARIANTS
  IInv SessionInv SlotsDistinct NoHealthySocketLost AcceptHoldsNothing DataConnectionOnlyInTransfer AnsweredOnce DataClosedBefore226 StdinKept
PROPERTIES
  FreshSession
