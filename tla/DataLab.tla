------------------------------- MODULE DataLab -------------------------------
(***************************************************************************)
(* The puzzles of the data lab, and the program that tests them.           *)
(*                                                                         *)
(* The solutions of bits.c and pointer.c are functions on 32-bit words,    *)
(* each with what the file that tests it says it should return.  A word is *)
(* the set of the places of its 1 bits.  Signed overflow wraps and >> of an*)
(* int copies the sign, as the puzzles assume of their machine.            *)
(*                                                                         *)
(* btest.c has the values it tries and the run over test_set, with the     *)
(* alarm that ends a test which takes too long.  The alarm is set for each *)
(* puzzle and never cancelled.  That of a puzzle which ended in time can   *)
(* therefore go off before the next one is set, and siglongjmp() then goes *)
(* back into a call of test_function() that has returned.                  *)
(***************************************************************************)
EXTENDS Integers, Sequences, SequencesExt, FiniteSets, FiniteSetsExt, TLC

CONSTANTS TEST_RANGE,
          FloatMarks,   \* smallest_norm, one, largest_norm, inf, nan, sign: the words
          FloatLimit,   \* the greatest range for a float, 1 << 23 in the code
          Puzzles,      \* [args, range, rating, bad, how]: how it behaves on the
                        \* tuple bad of arguments, "right" everywhere else
          Ranges        \* the pairs <<min, max>> the values are checked for

VARIABLES test_set, fixed,      \* the puzzles, and what -1 gave: <<>> or <<value>>
          puzzle, at, cases, case,      \* which puzzle, where, its tuples, the next one
          alarm,                \* the puzzle that set it, 0 when it is off
          terrors,              \* the errors of each puzzle, -1 before its test
          points,
          slow, stray           \* history: the puzzles ended by their own alarm,
                                \* and by another's

testVars == <<test_set, fixed, puzzle, at, cases, case, alarm, terrors, points, slow, stray>>

-------------------------------------------------------------------------------
(* Words *)

Width == 32
Places == 0..(Width - 1)
SignPlace == Width - 1
Bit(b) == IF b THEN 1 ELSE 0

Not(x) == Places \ x
And(x, y) == x \cap y
Or(x, y) == x \cup y
Xor(x, y) == (x \ y) \cup (y \ x)
Shl(x, n) == {i + n : i \in x} \cap Places
Shr(x, n) == {i - n : i \in x} \cap Places
Sar(x, n) == Shr(x, n) \cup IF SignPlace \in x THEN (Width - n)..SignPlace ELSE {}

\* A carry comes into a place from one below with two 1 bits, through ones with
\* at least one.
Carried(x, y, i) == \E j \in x \cap y : j < i /\ (j + 1)..(i - 1) \subseteq x \cup y
Add(x, y) ==
  {i \in Places : (Bit(i \in x) + Bit(i \in y) + Bit(Carried(x, y, i))) % 2 = 1}

\* The word of a number from -2^31 to 2^31 - 1; -(n + 1) has the opposite bits.
OfNat(n) == {i \in 0..(SignPlace - 1) : (n \div 2^i) % 2 = 1}
Word(n) == IF n >= 0 THEN OfNat(n) ELSE Not(OfNat(-(n + 1)))

Zero == {}
One == {0}
Ones == Places
Tmin == {SignPlace}

\* !x as a word
LNot(x) == IF x = Zero THEN One ELSE Zero

\* The number a word stands for, signed.
Low(x) == MapThenSumSet(LAMBDA i : 2^i, x \ {SignPlace})
Int32(x) == IF SignPlace \in x THEN (Low(x) - 2147483647) - 1 ELSE Low(x)

\* x < y, unsigned: the highest place where they differ is one of y.
Below(x, y) == \E i \in y \ x : \A j \in Xor(x, y) : j <= i

-------------------------------------------------------------------------------
(* The puzzles *)

Neg1 == Ones    \* ~0
Positive(x) == LNot(Sar(x, 31))

bitAnd(x, y) == Not(Or(Not(x), Not(y)))
bitXor(x, y) == Not(And(Not(And(Not(x), y)), Not(And(x, Not(y)))))

Doubled(x, n) == Or(x, Shl(x, n))
thirdBits == Doubled(Doubled(Doubled(Doubled(One, 3), 6), 12), 24)

fitsBits(x, n) ==
  Or(And(Positive(x), LNot(Sar(x, n - 1))), And(LNot(Positive(x)), LNot(Sar(Not(x), n - 1))))

sign(x) == Or(Sar(x, 31), LNot(LNot(x)))

getByte(x, n) == And(Sar(x, 8 * n), Word(255))

logicalShift(x, n) == And(Not(Shl(Sar(Tmin, n), 1)), Sar(x, n))

addOK(x, y) ==
  LET differ == Xor(Positive(x), Positive(y))
      same == LNot(Xor(Positive(x), Positive(Add(x, y))))
  IN Or(differ, And(LNot(differ), same))

Smeared(x, n) == Or(x, Sar(x, n))
bang(x) ==
  Xor(And(Smeared(Smeared(Smeared(Smeared(Smeared(x, 16), 8), 4), 2), 1), One), One)

conditional(x, y, z) ==
  LET mask == Sar(Shl(LNot(LNot(x)), 31), 31) IN Or(And(mask, y), And(Not(mask), z))

isPower2(x) == And(LNot(LNot(x)), And(Positive(x), LNot(And(x, Add(x, Neg1)))))

tmin == Shl(One, 31)

isPositive(x) == And(Sar(Shl(LNot(LNot(x)), 31), 31), Positive(x))

negate(x) == Add(Not(x), One)

Infinity == Shl(Word(255), 23)  \* 0xFF << 23
float_neg(uf) == IF Below(Infinity, And(uf, Not(Tmin))) THEN uf ELSE Xor(uf, Tmin)

\* The leading 1 is shifted out; the low 9 bits of what is left are rounded to
\* the nearest, and half to the even neighbour.
float_i2f(x) ==
  IF x = Zero THEN Zero
  ELSE LET abs_x == IF SignPlace \in x THEN negate(x) ELSE x
           top == Max(abs_x)
           m == Shl(abs_x, 32 - top)
           round == Bit(\/ Int32(And(m, Word(511))) > 256
                        \/ Int32(And(m, Word(1023))) = 768)
       IN Add(Or(And(x, Tmin), Or(Shl(Word(127 + top), 23), Shr(m, 9))), Word(round))

\* The largest exponent is followed by that of infinity, and the mantissa stays:
\* twice a float that is too large becomes NaN, line 469.
float_twice(uf) ==
  LET exp == And(uf, Infinity) IN
  IF exp = Zero THEN Or(Shl(uf, 1), And(uf, Tmin))
  ELSE IF exp # Infinity THEN Add(uf, Shl(One, 23)) ELSE uf

isLessOrEqual(x, y) ==
  LET xNeg == LNot(LNot(Sar(x, 31)))
      differ == Xor(xNeg, LNot(LNot(Sar(y, 31))))
  IN Or(And(differ, xNeg), And(LNot(differ), Sar(Add(x, Not(y)), 31)))

divpwr2(x, n) == Sar(Add(x, And(Sar(x, 31), Add(Shl(One, n), Neg1))), n)

\* The shifts of ilog2(), from the largest on, that find a 1 above.
ilog2(x) ==
  LET s1 == IF Sar(x, 16) = Zero THEN 0 ELSE 16    x1 == Sar(x, s1)
      s2 == IF Sar(x1, 8) = Zero THEN 0 ELSE 8     x2 == Sar(x1, s2)
      s3 == IF Sar(x2, 4) = Zero THEN 0 ELSE 4     x3 == Sar(x2, s3)
      s4 == IF Sar(x3, 2) = Zero THEN 0 ELSE 2     x4 == Sar(x3, s4)
      s5 == IF Sar(x4, 1) = Zero THEN 0 ELSE 1
  IN s1 + s2 + s3 + s4 + s5

\* The sums of the fields of width bits of x with those next to them.
Fields(x, width, mask) == Add(And(x, mask), And(Sar(x, width), mask))

bitCount(x) ==
  LET m4 == Doubled(Doubled(Word(17), 8), 16)
      r == Add(Fields(x, 1, m4), Fields(Sar(x, 2), 1, m4))
      r1 == Fields(r, 4, Doubled(Doubled(Word(15), 8), 16))
      r2 == Fields(r1, 8, Doubled(Word(255), 16))
  IN Fields(r2, 16, Word(255))

\* pointer.c: a pointer is its address.  withinArray() says whether ptr points to
\* the last element, line 171.
withinSameBlock(ptr1, ptr2) ==
  LET mask == Sar(Tmin, 32 - 7) IN And(ptr1, mask) = And(ptr2, mask)
withinArray(intArray, size, ptr) ==
  Shl(Add(size, Neg1), 2) = Add(ptr, negate(intArray))
\* The mask of the n highest bits, brought down to the lowest and up to p.
invert(x, p, n) == Xor(x, Shl(Shr(Sar(Tmin, n - 1), 32 - n), p))

-------------------------------------------------------------------------------
(* What they should return: tests.c, and the comments of pointer.c. *)

\* Round a nonnegative number to 24 bits, half to even.
Rounded(v, top) ==
  IF top <= 23 THEN v * 2^(23 - top)
  ELSE LET p == 2^(top - 23)
           q == v \div p
           r == v % p
       IN q + Bit(2 * r > p \/ (2 * r = p /\ q % 2 = 1))

\* The float of v > 0 as a number.
FloatOf(v) ==
  LET top == Max(Word(v))
  IN (126 + top) * 2^23 + Rounded(v, top)

WordTests(x) ==
  LET v == Int32(x) IN
  /\ Int32(sign(x)) = IF v = 0 THEN 0 ELSE IF v < 0 THEN -1 ELSE 1
  /\ Int32(bang(x)) = Bit(v = 0)
  /\ Int32(isPower2(x)) = Bit(v > 0 /\ \E i \in 0..30 : v = 2^i)
  /\ Int32(isPositive(x)) = Bit(v > 0)
  /\ v > 0 => ilog2(x) = Max(x)
  /\ Int32(bitCount(x)) = Cardinality(x)
  /\ Add(x, negate(x)) = Zero
  /\ thirdBits = {i \in Places : i % 3 = 0}
  /\ tmin = Tmin

ShiftTests(x, n) ==
  LET v == Int32(x) IN
  /\ logicalShift(x, n) = Shr(x, n)
  /\ n <= 3 => getByte(x, n) = And(Shr(x, 8 * n), Word(255))
  /\ n \in 1..31 => Int32(fitsBits(x, n)) = Bit(-(2^(n - 1)) <= v /\ v <= 2^(n - 1) - 1)
  /\ n <= 30 => Int32(divpwr2(x, n)) = (v \div 2^n) + Bit(v < 0 /\ v % 2^n # 0)

PairTests(x, y) ==
  LET v == Int32(x)
      w == Int32(y)
  IN
  /\ bitAnd(x, y) = And(x, y)
  /\ bitXor(x, y) = Xor(x, y)
  /\ Int32(addOK(x, y)) = Bit(v \div 2 + w \div 2 + ((v % 2) + (w % 2)) \div 2 \in -(2^30)..(2^30 - 1))
  /\ Int32(isLessOrEqual(x, y)) = Bit(v <= w)
  /\ conditional(x, y, Not(y)) = IF v # 0 THEN y ELSE Not(y)

NaN(uf) == Below(Infinity, And(uf, Not(Tmin)))
Magnitude(uf) == And(uf, Not(Tmin))

FloatTests(x) ==
  /\ float_neg(x) = IF NaN(x) THEN x ELSE Xor(x, {SignPlace})
  /\ LET r == float_i2f(x)
         v == Int32(x)
     IN \/ v = 0 /\ r = Zero
        \/ x = Tmin /\ r = Or(Tmin, Shl(Word(158), 23))
        \/ v > 0 /\ Int32(r) = FloatOf(v)
        \/ v < 0 /\ x # Tmin /\ r = Or(Tmin, Word(FloatOf(-v)))

\* Twice a number is the same mantissa with the next exponent, or twice the
\* mantissa if the exponent is 0; infinity and NaN stay.  What is too large is
\* infinity by the rules of IEEE, and keeps its mantissa in the code: a NaN.
FloatTwiceTest(x) ==
  LET e == Int32(Shr(Magnitude(x), 23))
      m == Int32(And(x, Word(2^23 - 1)))
      twice == IF e = 255 THEN Int32(Magnitude(x))
               ELSE IF e = 254 THEN Int32(Infinity) + m
               ELSE IF e = 0 THEN 2 * m ELSE (e + 1) * 2^23 + m
  IN Int32(Magnitude(float_twice(x))) = twice /\ (SignPlace \in float_twice(x) <=> SignPlace \in x)

PointerTests(x, y, n) ==
  /\ withinSameBlock(x, y) <=> Shr(x, 6) = Shr(y, 6)
  /\ n \in 1..32 => \A p \in 0..(32 - n) :
       invert(x, p, n) = Xor(x, p..(p + n - 1))

-------------------------------------------------------------------------------
(* btest.c: the values *)

MAX_TEST_VALS == 13 * TEST_RANGE
Least(m, n) == IF m < n THEN m ELSE n

random_val(min, max) == min..max

FloatVals(test_range) ==
  LET r == Least(test_range, FloatLimit)
      m == FloatMarks
      both(w) == <<w, m.sign + w>>
  IN FlattenSeq([j \in 1..r |->
        LET d == j - 1 IN
        both(d) \o both(m.smallest_norm + d) \o both(m.smallest_norm - d)
          \o both(m.one + d) \o both(m.one - d) \o both(m.largest_norm - d)])
     \o both(m.inf) \o both(m.nan)

Sampled(min, max, test_range, random) ==
  FlattenSeq([j \in 1..test_range |->
     LET d == j - 1 IN
     <<min + d, max - d>> \o (IF min <= d /\ d <= max THEN <<d>> ELSE <<>>)
       \o (IF min <= -d /\ -d <= max THEN <<-d>> ELSE <<>>) \o <<random>>])

gen_vals(arg, min, max, test_range, random) ==
  IF arg # <<>> THEN arg
  ELSE IF min = 1 /\ max = 1 THEN FloatVals(test_range)
  ELSE IF max - MAX_TEST_VALS <= min THEN [j \in 1..max - min + 1 |-> min + j - 1]
  ELSE Sampled(min, max, test_range, random)

\* The range for each argument: pow() of 0.5 and of 0.333, which is less than
\* the cube root, cut to an int, and 1 at least.
arg_test_range(args) ==
  LET root == CHOOSE r \in 0..TEST_RANGE :
                 LET fits(n) == IF args = 2 THEN n * n <= TEST_RANGE ELSE n * n * n < TEST_RANGE
                 IN fits(r) /\ ~fits(r + 1)
  IN IF args = 1 THEN TEST_RANGE ELSE IF root < 1 THEN 1 ELSE root

\* The tuples of arguments, in the order of the nested loops.
RECURSIVE Tuples(_)
Tuples(vals) ==
  IF vals = <<>> THEN << <<>> >>
  ELSE LET rest == Tuples(Tail(vals)) IN
       FlattenSeq([a \in 1..Len(Head(vals)) |->
          [b \in 1..Len(rest) |-> <<Head(vals)[a]>> \o rest[b]]])

-------------------------------------------------------------------------------
(* btest.c: the run *)

TestInit ==
  /\ test_set \in [1..2 -> Puzzles]
  /\ fixed \in {<<>>, <<0>>}
  /\ puzzle = 1 /\ at = "between" /\ cases = <<>> /\ case = 1
  /\ alarm = 0 /\ terrors = [n \in 1..2 |-> -1] /\ points = 0 /\ slow = {} /\ stray = {}

test == test_set[puzzle]

\* test_function up to the call of alarm(): the values are made.
Prepare ==
  /\ at = "between" /\ puzzle <= Len(test_set)
  /\ \E random \in random_val(test.range[1], test.range[2]) :
        cases' = Tuples([n \in 1..test.args |->
                    gen_vals(IF n = 1 THEN fixed ELSE <<>>, test.range[1], test.range[2],
                             arg_test_range(test.args), random)])
  /\ at' = "prepared"
  /\ UNCHANGED <<test_set, fixed, puzzle, case, alarm, terrors, points, slow, stray>>

\* Mutant: the alarm is not set.
SetAlarmNot ==
  /\ at = "prepared" /\ at' = "testing" /\ case' = 1
  /\ UNCHANGED <<test_set, fixed, puzzle, cases, alarm, terrors, points, slow, stray>>

SetAlarm ==
  /\ at = "prepared"
  /\ alarm' = puzzle /\ at' = "testing" /\ case' = 1
  /\ UNCHANGED <<test_set, fixed, puzzle, cases, terrors, points, slow, stray>>

\* The end of test_function, and what run_tests makes of its result.
Result(errors) ==
  /\ terrors' = [terrors EXCEPT ![puzzle] = errors]
  /\ points' = points + (IF errors = 0 THEN test.rating ELSE 0)
  /\ puzzle' = puzzle + 1 /\ at' = "between" /\ cases' = <<>> /\ case' = 1

Behaviour == IF cases[case] = test.bad THEN test.how ELSE "right"

TestRight ==
  /\ at = "testing" /\ case <= Len(cases) /\ Behaviour = "right"
  /\ IF case = Len(cases) THEN Result(0) ELSE case' = case + 1 /\ UNCHANGED <<terrors, points, puzzle, at, cases>>
  /\ UNCHANGED <<test_set, fixed, alarm, slow, stray>>

\* The first error ends the test.
TestWrong ==
  /\ at = "testing" /\ Behaviour = "wrong" /\ Result(1)
  /\ UNCHANGED <<test_set, fixed, alarm, slow, stray>>

\* A puzzle that does not answer is left only by the alarm, as is one that is slow.
Timeout ==
  /\ at = "testing" /\ alarm # 0 /\ alarm' = 0 /\ Result(1)
  /\ slow' = slow \cup {puzzle}
  /\ UNCHANGED <<test_set, fixed, stray>>

\* The alarm of the puzzle before, in run_tests or while values are made: the
\* frame jumped to is gone.  If the new call has the same place on the stack it
\* takes the timeout for its own; otherwise anything may happen.
LateAlarm ==
  /\ at \in {"between", "prepared"} /\ alarm # 0 /\ alarm' = 0
  /\ \/ at = "prepared" /\ Result(1) /\ stray' = stray \cup {puzzle}
     \/ at' = "crashed" /\ UNCHANGED <<terrors, points, puzzle, cases, case, stray>>
  /\ UNCHANGED <<test_set, fixed, slow>>

Total == /\ at = "between" /\ puzzle > Len(test_set) /\ at' = "done"
         /\ UNCHANGED <<test_set, fixed, puzzle, cases, case, alarm, terrors, points, slow, stray>>

TestNext == Prepare \/ SetAlarm \/ TestRight \/ TestWrong \/ Timeout \/ LateAlarm \/ Total

-------------------------------------------------------------------------------
(* Properties of the test *)

\* The points are the ratings of the puzzles without an error, and a puzzle that
\* is wrong, or does not answer, at the ends of the range or at zero is none of
\* them.  A right one is blamed only for being slow or by the alarm of another,
\* which never happens to the first.
PointsAreEarned ==
  LET sure(p) == IF fixed # <<>> THEN {<<fixed[1]>>}
                 ELSE {<<a>> : a \in {p.range[1], p.range[2]} \cup ({0} \cap p.range[1]..p.range[2])}
      rated(n) == IF terrors[n] = 0 THEN test_set[n].rating ELSE 0
  IN /\ points = rated(1) + rated(2)
     /\ \A n \in DOMAIN test_set :
          LET p == test_set[n] IN
          /\ terrors[n] = 0 /\ p.args = 1 /\ p.bad \in sure(p) => p.how = "right"
          /\ terrors[n] = 1 => p.how = "wrong" \/ n \in slow \cup stray
     /\ 1 \notin stray

\* Every run comes to its total, if it has not crashed: a puzzle that does not
\* answer costs its own time only.
RunEnds == <>(at \in {"done", "crashed"})

\* The values are of the range, with its ends and zero; and they fit in the
\* array, but for a range of exactly one value more than it has.
ValuesAreOfRange ==
  \A p \in Ranges : \A args \in 1..3, random \in {p[1], p[2]} :
     LET vals == gen_vals(<<>>, p[1], p[2], arg_test_range(args), random) IN
     p # <<1, 1>> =>
       /\ \A n \in DOMAIN vals : p[1] <= vals[n] /\ vals[n] <= p[2]
       /\ {p[1], p[2]} \cup ({0} \cap (p[1]..p[2])) \subseteq ToSet(vals)
       /\ Len(vals) > MAX_TEST_VALS <=> p[2] - p[1] = MAX_TEST_VALS

\* The values for a float fit in the array and are of both signs, with zero, one,
\* infinity and what is next to where denormalized numbers end.  Of the regions
\* btest.c:135-139 names two are missed: the word called nan is a number, and the
\* one called largest_norm has larger ones above it.
FloatRegionsAreTried ==
  LET m == FloatMarks
      vals == FloatVals(TEST_RANGE)
  IN /\ Len(vals) <= MAX_TEST_VALS
     /\ \A s \in {0, m.sign} : {s, s + m.smallest_norm - 1, s + m.smallest_norm, s + m.one, s + m.inf} \subseteq ToSet(vals)
===============================================================================
