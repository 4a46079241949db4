\* Digits 0, 1, 9 (so "19" overflows a 4-bit uint64_t), a space, both
\* signs and one letter; arguments up to 4 characters.
CONSTANTS
  Alphabet = {"0", "1", "9", " ", "+", "-", "x"}
  MaxLen = 4
  Width = 4
SPECIFICATION Spec
\* Each argument is parsed once: a terminal state is expected.
CHECK_DEADLOCK FALSE

INVARIANT OnlyWrittenIds
