------------------------------- MODULE Money --------------------------------
(***************************************************************************)
(* apps/api/src/lib/money.ts: amounts are decimal strings in JSON and      *)
(* integers, hundredths, everywhere else.  A decimal string is the record  *)
(* of what its pattern captures: the sign, the whole number, how many      *)
(* decimals there are and the number they spell.  "text" is any other      *)
(* string, the empty one included.                                         *)
(*                                                                         *)
(* A double holds every integer up to the limit exactly.  Beyond it a      *)
(* parsed number or a sum may be rounded, but never back into the range:   *)
(* the integers here and the doubles there are refused alike.              *)
(***************************************************************************)
EXTENDS Integers, Sequences

CONSTANTS MaxMinorUnits,   \* MAX_MONEY_MINOR_UNITS, 2^53 - 1 in the code
          Refused          \* a MoneyConversionError

ASSUME MoneyAssumption == MaxMinorUnits \in Nat /\ Refused \notin Int

\* Number.isSafeInteger.
IsSafe(n) == -MaxMinorUnits <= n /\ n <= MaxMinorUnits

Signs == {"none", "+", "-"}
Decimal(sign, whole, decimals, fraction) ==
    [kind |-> "decimal", sign |-> sign, whole |-> whole,
     decimals |-> decimals, fraction |-> fraction]
NoDecimal == [kind |-> "text"]
MaxDecimals == 2                           \* MONEY_EXPONENT

\* The fraction, padded to hundredths.
Hundredths(s) == IF s.decimals = 0 THEN 0
                 ELSE IF s.decimals = 1 THEN 10 * s.fraction ELSE s.fraction

\* Mutant: the fraction is not padded, "5.1" is 501.
Magnitude_Unpadded(s) == 100 * s.whole + s.fraction

\* The digit groups written one after the other.
Magnitude(s) == 100 * s.whole + Hundredths(s)

\* Mutant: the length of the digits is not checked against the range.
ParseMoneyToMinorUnits_AnySize(s) ==
    IF s.kind # "decimal" THEN Refused
    ELSE IF s.decimals > MaxDecimals THEN Refused
    ELSE IF s.sign = "-" THEN -Magnitude(s) ELSE Magnitude(s)

ParseMoneyToMinorUnits(s) ==
    IF s.kind # "decimal" THEN Refused
    ELSE IF s.decimals > MaxDecimals THEN Refused
    ELSE IF ~IsSafe(Magnitude(s)) THEN Refused
    ELSE IF s.sign = "-" THEN -Magnitude(s) ELSE Magnitude(s)

IsValidMoneyString(s) == ParseMoneyToMinorUnits(s) # Refused

Abs(n) == IF n < 0 THEN -n ELSE n

\* Mutant: the sign is taken from the whole part, "-0.07" is printed "0.07".
FormatMinorUnitsToMoney_LostSign(n) ==
    IF ~IsSafe(n) THEN Refused
    ELSE Decimal(IF n <= -100 THEN "-" ELSE "none", Abs(n) \div 100, 2,
                 Abs(n) % 100)

FormatMinorUnitsToMoney(n) ==
    IF ~IsSafe(n) THEN Refused
    ELSE Decimal(IF n < 0 THEN "-" ELSE "none", Abs(n) \div 100, 2,
                 Abs(n) % 100)

\* Mutant: a total out of range stops the loop only if it grew.
Plus_OneEnd(total, amount) ==
    IF total = Refused \/ ~IsSafe(amount) THEN Refused
    ELSE IF total + amount > MaxMinorUnits THEN Refused
    ELSE total + amount

\* One turn of the loop: a total that is out of range stops it.
Plus(total, amount) ==
    IF total = Refused \/ ~IsSafe(amount) THEN Refused
    ELSE IF ~IsSafe(total + amount) THEN Refused
    ELSE total + amount

AddMinorUnits(amounts) ==
    LET total[i \in 0 .. Len(amounts)] ==
          IF i = 0 THEN 0 ELSE Plus(total[i - 1], amounts[i])
    IN  total[Len(amounts)]

SubtractMinorUnits(minuend, subtrahend) ==
    IF ~IsSafe(subtrahend) THEN Refused
    ELSE AddMinorUnits(<<minuend, -subtrahend>>)

NegateMinorUnits(n) == IF ~IsSafe(n) THEN Refused ELSE -n
=============================================================================
