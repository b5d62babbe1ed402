----------------------------- MODULE MCLibrary ------------------------------
(***************************************************************************)
(* An instance of Library for TLC: amounts around nought, around the unit  *)
(* and on both sides of the end of the range (103 hundredths), with up to  *)
(* three decimals.                                                         *)
(***************************************************************************)
EXTENDS Library, TLC

SomeTexts ==
    {NoDecimal}
      \cup {Decimal(sign, whole, d, f) :
              sign \in Signs, whole \in {0, 1, 10}, d \in {0}, f \in {0}}
      \cup {Decimal(sign, whole, d, f) :
              sign \in Signs, whole \in {0, 1}, d \in {1}, f \in {0, 1, 9}}
      \cup {Decimal(sign, whole, d, f) :
              sign \in Signs, whole \in {0, 1}, d \in {2}, f \in {0, 3, 4, 7, 50}}
      \cup {Decimal(sign, whole, d, f) :
              sign \in Signs, whole \in {0, 1}, d \in {3}, f \in {0, 5}}

\* Seconds and parts of one, units on both sides of each other, and years,
\* which only one of the two parsers has.
SomeTtls ==
    [amount: {0, 5, 10, 15, 20}, unit: {"s", "m", "d"}]
      \cup [amount: {10}, unit: {"h", "w", "y"}] \cup [amount: {600}, unit: {"s"}]
=============================================================================
