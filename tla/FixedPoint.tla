------------------------------ MODULE FixedPoint ------------------------------
(***************************************************************************)
(* The arithmetic of cosmwasm_std's Decimal as the contracts use it: a     *)
(* decimal is an integer number of 1/Scale units (10^18 in the library),   *)
(* a ratio is rounded down when it is built and an amount is rounded down  *)
(* again when it is multiplied by a decimal.  Both roundings matter to     *)
(* what the contracts pay out, so neither is idealised away.               *)
(***************************************************************************)
EXTENDS Integers

CONSTANT Scale  \* units per 1.0

ASSUME ScaleAssumption == Scale \in Nat \ {0}

One == Scale

\* Decimal::from_ratio; a zero denominator aborts the transaction, so every
\* caller guards it.
FromRatio(numerator, denominator) == (numerator * Scale) \div denominator

\* Uint128 * Decimal.
MulFloor(amount, decimal) == (amount * decimal) \div Scale
===============================================================================
