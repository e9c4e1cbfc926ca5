\* Strings of at most six characters.
SPECIFICATION Spec
CONSTANTS
  Digits <- MCDigits
  MaxLen = 6
INVARIANTS
  PortIsWhatWasTyped PortsBelowLimitAccepted
\* The strings are finite.
CHECK_DEADLOCK FALSE
