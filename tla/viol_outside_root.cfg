\* Expects a path outside the root.
SPECIFICATION Spec
CONSTANTS
  Nodes <- MCNodes
  Allowed <- MCAllowed
  LinkTo <- MCLinkTo
  RootPaths <- MCRootPaths
  ServerPaths <- MCServerPaths
  Extensions <- MCExtensions
  Printed <- MCPrinted
  PATH_LEN_MAX = 3
INVARIANTS
  ServedInsideRoot
