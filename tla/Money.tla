-------------------------------- MODULE Money --------------------------------
(***************************************************************************)
(* The conversions between the amounts a ledger stores and the smallest    *)
(* units of a currency (money/money.go): Scale storage units make one      *)
(* minor unit, 10^places minor units one major unit.                       *)
(* Amounts are int64: here words of Bits bits that wrap around.  A code    *)
(* that is not in the table is refused by every function and is left out;  *)
(* the symbols of the currencies are layout.                               *)
(***************************************************************************)
EXTENDS Integers

CONSTANTS Bits,      \* width of an amount
          Scale,     \* StorageScale
          DecimalPlaces     \* the decimal places the table of currencies has

ASSUME MoneyAssumption ==
  /\ Bits \in Nat \ {0} /\ Scale \in Nat \ {0, 1} /\ Scale % 2 = 0
  /\ DecimalPlaces \subseteq Nat
  /\ 4 * Scale <= 2 ^ Bits
\* Of powers, which the proof system has no rules for.
ASSUME PowerAssumption ==
  /\ 2 ^ (Bits - 1) \in Nat \ {0} /\ 2 ^ Bits = 2 * 2 ^ (Bits - 1)
  /\ \A p \in DecimalPlaces : 10 ^ p \in Nat \ {0}

VARIABLES amount,    \* the argument: storage or minor units
          places     \* Precision(code)

moVars == <<amount, places>>

MinWord == -(2 ^ (Bits - 1))
MaxWord == 2 ^ (Bits - 1) - 1
Word == MinWord .. MaxWord
Wrap(x) == ((x - MinWord) % (2 ^ Bits)) + MinWord

Abs(x) == IF x < 0 THEN -x ELSE x
\* Go's division truncates towards zero and its remainder has the sign of x.
Quot(x, d) == IF x < 0 THEN -((-x) \div d) ELSE x \div d
Rem(x, d) == x - d * Quot(x, d)

-----------------------------------------------------------------------------
\* Mutant: a half is always rounded up.
DivHalfUp(num, den) ==
  LET sign == IF num < 0 THEN -1 ELSE 1
      size == Wrap(sign * num)
  IN Wrap(sign * (Quot(size, den) + IF Wrap(2 * Rem(size, den)) >= den THEN 1 ELSE 0))

DivHalfToEven(num, den) ==
  LET sign == IF num < 0 THEN -1 ELSE 1
      size == Wrap(sign * num)
      q == Quot(size, den)
      twice == Wrap(2 * Rem(size, den))
      up == twice > den \/ (twice = den /\ Rem(q, 2) # 0)
  IN Wrap(sign * (IF up THEN Wrap(q + 1) ELSE q))

MinorToStorage(minor) == Wrap(minor * Scale)
StorageToMinorBanker(storage) == DivHalfToEven(storage, Scale)
RoundToStorage(storage) == Wrap(StorageToMinorBanker(storage) * Scale)

\* StorageToMinor fails when there is a remainder.
Divisible(storage) == Rem(storage, Scale) = 0
StorageToMinor(storage) == Quot(storage, Scale)

MinorUnitsPerMajor(p) == 10 ^ p
\* The sign, the digits before the point and the padded digits after it.
FormatMinor(minor, p) ==
  LET size == IF minor < 0 THEN Wrap(-minor) ELSE minor
  IN [minus |-> minor < 0,
      major |-> Quot(size, MinorUnitsPerMajor(p)),
      frac  |-> Rem(size, MinorUnitsPerMajor(p))]
FormatStorage(storage, p) == FormatMinor(StorageToMinorBanker(storage), p)

-----------------------------------------------------------------------------
MoInit == amount \in Word /\ places \in DecimalPlaces
MoNext == UNCHANGED moVars
MoSpec == MoInit /\ [][MoNext]_moVars

\* What a reader makes of the printed number, in minor units.
Reads(text, p) ==
  LET size == text.major * MinorUnitsPerMajor(p) + text.frac
  IN IF text.minus THEN -size ELSE size

\* Whether an amount converted and printed is the amount: the banker's rounding
\* is the nearest, a tie goes to the even side, rounding twice is rounding once;
\* the strict conversion is the exact inverse of MinorToStorage or fails; the
\* printed text reads back as the number with its fraction in range.  The exact
\* edges where int64 gives out are part of the statement: the least word has no
\* negation, and comes out of the rounding positive; what rounds up past the
\* greatest word, or down past the least, wraps without an error, like any
\* product past the word.
MoneyExact ==
  /\ amount # MinWord =>
       LET off == amount - StorageToMinorBanker(amount) * Scale IN
       /\ 2 * Abs(off) <= Scale
       /\ 2 * Abs(off) = Scale => StorageToMinorBanker(amount) % 2 = 0
  /\ StorageToMinorBanker(MinWord) > 0
  /\ StorageToMinorBanker(amount) * Scale \in Word =>
       RoundToStorage(RoundToStorage(amount)) = RoundToStorage(amount)
  /\ Divisible(amount) => MinorToStorage(StorageToMinor(amount)) = amount
  /\ amount * Scale \in Word =>
       /\ Divisible(MinorToStorage(amount))
       /\ StorageToMinor(MinorToStorage(amount)) = amount
  /\ amount # MinWord =>
       LET text == FormatMinor(amount, places) IN
       /\ Reads(text, places) = amount
       /\ text.major >= 0 /\ text.frac \in 0 .. MinorUnitsPerMajor(places) - 1
  /\ amount # MinWord =>
       Abs(Reads(FormatStorage(amount, places), places) * Scale - amount) * 2 <= Scale
=============================================================================
