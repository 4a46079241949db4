\* IdRange: digits 0, 1, 9 (so "19" overflows a 4-bit uint64_t), a space,
\* both signs and one letter; arguments up to 4 characters.
\* CliArgs: up to 4 arguments after "myqueue server", each an option name
\* or one of MCValues; int is 4 bits wide like uint64_t.
CONSTANTS
  Alphabet = {"0", "1", "9", " ", "+", "-", "x"}
  MaxLen = 4
  Width = 4
  MaxArgs = 4
  IntWidth = 4
  Home = "/home/u"
  Cwd = "/work"
  Values <- MCValues
SPECIFICATION CliSpec
\* Each argument and command line is parsed once: a terminal state is expected.
CHECK_DEADLOCK FALSE
INVARIANT TypeOK
INVARIANT AgreesWithReference
INVARIANT FromArgsAgreesWithReference
INVARIANT SubmitArgsAgreesWithReference
