\* Expects a transfer that ends well with bytes missing; the file never changes.
SPECIFICATION Spec
CONSTANTS
  FILE_READ_BUF_SIZE = 2
  SizeT = 8
  MaxSize = 5
  Events = {"signal"}
INVARIANTS
  TransferComplete
