\* Every directory of at most four of the names; a buffer of eight characters;
\* NLST with an argument, which sends the buffer whatever is in it.
SPECIFICATION Spec
CONSTANTS
  Names <- MCNames
  Length <- MCLength
  PATH_LEN_MAX = 8
  WithArgument = TRUE
  MaxEntries = 4
INVARIANTS
  ListingInv EveryEntryListed
