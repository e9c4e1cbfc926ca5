------------------------------ MODULE PortNumber ------------------------------
(***************************************************************************)
(* The port argument (main.c): IsDecimal decides whether the string is     *)
(* accepted and ParseDecimal computes the port from it.  A string is a     *)
(* sequence of digits 0..9 and of NotADigit, which stands for every other  *)
(* character.  The one variable is the string: the specification builds    *)
(* every string, and the properties are about what the two functions make  *)
(* of it.                                                                  *)
(***************************************************************************)
EXTENDS Integers, Sequences, SequencesExt

CONSTANTS
  Digits,   \* the digits the strings are made of
  MaxLen    \* bound: length of a string

ASSUME DigitsAssumption == Digits \subseteq 0 .. 9
ASSUME MaxLenAssumption == MaxLen \in Nat

NotADigit == 10
Width == 2^16   \* a uint16_t is a number modulo Width

VARIABLE string

Init == string = <<>>

Next == /\ Len(string) < MaxLen
        /\ \E c \in Digits \cup {NotADigit} : string' = Append(string, c)

Spec == Init /\ [][Next]_string

-----------------------------------------------------------------------------
DECIMAL_STRING_LEN_MAX == 5

\* Mutant: one more than the largest uint16_t.
MaxPlusOne == <<6, 5, 5, 3, 6>>

DecimalStringValueMax == <<6, 5, 3, 6, 5>>

IsDecimalChar(c) == c \in 0 .. 9

\* The first digit that differs from the largest value decides.
\* Mutant: any digit does.
AnyDigitTooLarge(s) == \E i \in 1 .. Len(s) : s[i] > DecimalStringValueMax[i]

TooLarge(s) ==
  \E i \in 1 .. Len(s) : /\ s[i] > DecimalStringValueMax[i]
                         /\ \A j \in 1 .. i - 1 : s[j] = DecimalStringValueMax[j]

\* The empty string takes the early "return -1", which as a bool is true.
IsDecimal(s) ==
  /\ \A i \in 1 .. Len(s) : IsDecimalChar(s[i])
  /\ Len(s) <= DECIMAL_STRING_LEN_MAX
  /\ Len(s) = DECIMAL_STRING_LEN_MAX => ~TooLarge(s)

\* From the last digit to the first, in 16 bits; the power of ten wraps too.
ParseDecimal(s) ==
  FoldRight(LAMBDA c, acc : [number |-> (acc.number + c * acc.val) % Width,
                             val    |-> (acc.val * 10) % Width],
            s, [number |-> 0, val |-> 1]).number

-----------------------------------------------------------------------------
\* Reference: the number that a sequence of digits stands for.
Value(s) == FoldLeft(LAMBDA acc, c : 10 * acc + c, 0, s)

\* An accepted string means what it says: the 16-bit arithmetic of
\* ParseDecimal never wraps on it, so the server listens on the port that was
\* typed.
PortIsWhatWasTyped ==
  IsDecimal(string) /\ string # <<>> => ParseDecimal(string) = Value(string)

\* Of the strings of at most five digits, leading zeros included, none that
\* stands for a number up to the limit the code compares with is refused.
PortsBelowLimitAccepted ==
  string \in Seq(0 .. 9) /\ Len(string) \in 1 .. DECIMAL_STRING_LEN_MAX
    /\ Value(string) <= Value(DecimalStringValueMax) => IsDecimal(string)
=============================================================================
