\* All commands and a client that only closes its connections; standard input
\* may be a socket: nothing leaks and the server goes on serving.
SPECIFICATION FairSpec
CONSTANTS
  MaxFd = 5
  Faults = {"bind", "stdinSocket"}
  Lines <- MCAllLines
  MaxInbox = 2
  MaxChunks = 2
  Dirs <- MCDirs
  RootDir <- MCRootDir
INVARIANTS
  SessionInv TypeOK NothingLeaks
PROPERTIES
  InputIsAnswered NextClientIsServed
