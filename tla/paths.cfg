\* Every path of at most two names, in a file system that changes at any time.
SPECIFICATION Spec
CONSTANTS
  Nodes <- MCNodes
  Allowed <- MCAllowed
  LinkTo <- MCLinkTo
  RootPaths <- MCRootPaths
  ServerPaths <- MCServerPaths
  Extensions <- MCExtensions
  Printed <- MCPrinted
  PATH_LEN_MAX = 3
INVARIANTS
  PathsInv TypeOK ResultIsMeant ToldLeadsBack
