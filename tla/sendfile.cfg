\* Everything that may happen to the file and to the connection.
SPECIFICATION FairSpec
CONSTANTS
  FILE_READ_BUF_SIZE = 2
  SizeT = 8
  MaxSize = 5
  Events <- MCAllEvents
INVARIANTS
  IInv SentWhole SentInOrder NotMoreThanAnnounced FileClosed
PROPERTIES
  TransferEnds
