------------------------------ MODULE IdRange ------------------------------
(***************************************************************************)
(* TaskQueue::parseIdRange (src/src/core/task_queue.cpp), which turns one  *)
(* argument of "myqueue del" into the task ids to delete, and the          *)
(* std::stoull it relies on.  An argument is a sequence of characters of  *)
(* a small alphabet; uint64_t is Width bits wide, so every conversion and *)
(* the loop counter wrap at 2^Width as they do at 2^64.                    *)
(***************************************************************************)
EXTENDS Integers, Sequences, SequencesExt, Functions

CONSTANTS
  Alphabet,   \* the characters an argument is made of
  MaxLen,     \* bound: argument length
  Width       \* bits of uint64_t

VARIABLE input   \* the argument being parsed

Modulus == 2 ^ Width
Digits  == {"0", "1", "2", "3", "4", "5", "6", "7", "8", "9"}
DigitVal == [c \in Digits |->
               CASE c = "0" -> 0 [] c = "1" -> 1 [] c = "2" -> 2 [] c = "3" -> 3
                 [] c = "4" -> 4 [] c = "5" -> 5 [] c = "6" -> 6 [] c = "7" -> 7
                 [] c = "8" -> 8 [] c = "9" -> 9]
Space == {" "}   \* the isspace() characters of the alphabet

Strings == BoundedSeq(Alphabet, MaxLen)

-----------------------------------------------------------------------------
(* std::stoull(str): strtoull skips leading white space, takes an optional *)
(* sign and the longest run of decimal digits after it.  No digit throws  *)
(* invalid_argument; a magnitude of 2^64 or more sets ERANGE and throws   *)
(* out_of_range; a '-' sign negates the magnitude modulo 2^64.            *)

RECURSIVE SkipSpace(_)
SkipSpace(s) == IF s # <<>> /\ Head(s) \in Space THEN SkipSpace(Tail(s)) ELSE s

RECURSIVE DigitPrefix(_)
DigitPrefix(s) ==
  IF s # <<>> /\ Head(s) \in Digits THEN <<Head(s)>> \o DigitPrefix(Tail(s))
  ELSE <<>>

RECURSIVE DecimalValue(_)
DecimalValue(ds) ==
  IF ds = <<>> THEN 0 ELSE 10 * DecimalValue(Front(ds)) + DigitVal[Last(ds)]

\* Mutation: the '-' sign is applied as a signed negation, without the
\* wrap of an unsigned result.
StoullSigned(s) ==
  LET t   == SkipSpace(s)
      neg == t # <<>> /\ Head(t) = "-"
      u   == IF t # <<>> /\ Head(t) \in {"+", "-"} THEN Tail(t) ELSE t
      ds  == DigitPrefix(u)
      v   == DecimalValue(ds)
  IN  IF ds = <<>> \/ v >= Modulus THEN [ok |-> FALSE, val |-> 0]
      ELSE [ok |-> TRUE, val |-> IF neg THEN -v ELSE v]

Stoull(s) ==
  LET t   == SkipSpace(s)
      neg == t # <<>> /\ Head(t) = "-"
      u   == IF t # <<>> /\ Head(t) \in {"+", "-"} THEN Tail(t) ELSE t
      ds  == DigitPrefix(u)
      v   == DecimalValue(ds)
  IN  IF ds = <<>> \/ v >= Modulus THEN [ok |-> FALSE, val |-> 0]
      ELSE [ok |-> TRUE, val |-> IF neg THEN (Modulus - v) % Modulus ELSE v]

-----------------------------------------------------------------------------
(* parseIdRange(range_str).  The result is the vector of ids and whether  *)
(* the call returns at all.                                                *)

\* Mutation: the loop stops before end (i < end).
RangeIdsExclusive(start, end) ==
  [ids |-> [k \in 1 .. end - start |-> start + k - 1], halts |-> TRUE]

\* for (uint64_t i = start; i <= end; ++i) ids.push_back(i): with end the
\* largest uint64_t, i <= end always holds (++i wraps to 0) and the loop
\* never ends.
RangeIds(start, end) ==
  [ids |-> [k \in 1 .. end - start + 1 |-> start + k - 1],
   halts |-> end # Modulus - 1]

\* A '-' that is neither the first nor the last character makes a range;
\* anything else is one id.  A conversion that throws gives no ids.
ParseIdRange(s) ==
  LET d == SelectInSeq(s, LAMBDA c : c = "-")   \* find('-'), 1-based
  IN  IF d > 1 /\ d < Len(s)
      THEN LET a == Stoull(SubSeq(s, 1, d - 1))
               b == Stoull(SubSeq(s, d + 1, Len(s)))
           IN  IF a.ok /\ b.ok /\ a.val <= b.val THEN RangeIds(a.val, b.val)
               ELSE [ids |-> <<>>, halts |-> TRUE]
      ELSE LET a == Stoull(s)
           IN  [ids |-> IF a.ok THEN <<a.val>> ELSE <<>>, halts |-> TRUE]

-----------------------------------------------------------------------------
(* The meaning spec section 8 gives an argument: "A-B" is the ids A to B   *)
(* (empty when B < A, {N} for "N-N"), "N" is the id N.                    *)

IsNumber(ds) == ds # <<>> /\ \A k \in DOMAIN ds : ds[k] \in Digits

\* The value of a digit string, written positionally.
NumberRef(ds) == SumFunction([k \in DOMAIN ds |-> DigitVal[ds[k]] * 10 ^ (Len(ds) - k)])

\* The well-formed arguments whose numbers fit in a uint64_t, and the ids
\* they denote, in increasing order.  The end of a range stays below
\* 2^64-1: the loop's ++i past UINT64_MAX wraps to 0 and never ends (that
\* end is the hazard of task_queue.cpp:288, not a reading spec 8 gives).
RangeSplits(s) ==
  {k \in 2 .. Len(s) - 1 : s[k] = "-" /\ IsNumber(SubSeq(s, 1, k - 1))
                                       /\ IsNumber(SubSeq(s, k + 1, Len(s)))}
WellFormed(s) ==
  \/ IsNumber(s) /\ NumberRef(s) < Modulus
  \/ \E k \in RangeSplits(s) : NumberRef(SubSeq(s, k + 1, Len(s))) < Modulus - 1
                               /\ NumberRef(SubSeq(s, 1, k - 1)) < Modulus
RefIds(s) ==
  IF IsNumber(s) THEN {NumberRef(s)}
  ELSE LET k == CHOOSE k \in RangeSplits(s) : TRUE
       IN  NumberRef(SubSeq(s, 1, k - 1)) .. NumberRef(SubSeq(s, k + 1, Len(s)))

\* The largest number written in the argument (0 if none).
RECURSIVE LargestWritten(_)
LargestWritten(s) ==
  IF s = <<>> THEN 0
  ELSE LET ds == DigitPrefix(s)
       IN  IF ds = <<>> THEN LargestWritten(Tail(s))
           ELSE LET v == DecimalValue(ds)
                    r == LargestWritten(SubSeq(s, Len(ds) + 1, Len(s)))
                IN  IF v > r THEN v ELSE r

-----------------------------------------------------------------------------
Init == input \in Strings
Next == UNCHANGED input
Spec == Init /\ [][Next]_input

\* Every id parseIdRange returns is a uint64_t value.
TypeOK ==
  /\ input \in Strings
  /\ ParseIdRange(input).ids \in Seq(0 .. Modulus - 1)

\* On a well-formed argument parseIdRange returns, in increasing order,
\* exactly the ids the argument denotes (spec section 8: "N-N" gives {N},
\* "B-A" with A < B gives none).
AgreesWithReference ==
  WellFormed(input) =>
    LET r == ParseIdRange(input)
    IN  /\ r.halts
        /\ ToSet(r.ids) = RefIds(input)
        /\ \A k \in 1 .. Len(r.ids) - 1 : r.ids[k] < r.ids[k + 1]

\* Whatever the argument, parseIdRange returns, and every id it returns is
\* at most the largest number written in the argument: "myqueue del" never
\* deletes ids the user did not write down.
OnlyWrittenIds ==
  LET r == ParseIdRange(input)
  IN  r.halts /\ \A k \in DOMAIN r.ids : r.ids[k] <= LargestWritten(input)

=============================================================================
