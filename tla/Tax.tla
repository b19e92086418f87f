---------------------------------- MODULE Tax ----------------------------------
(***************************************************************************)
(* The stability tax on native coins.  The chain takes the tax from the    *)
(* sender on top of what is sent, so a contract that owes an amount sends  *)
(* what is left when the tax is deducted.  Two deductions are in use: the  *)
(* package's, through a rounded reciprocal, and the one of the Astroport   *)
(* library.                                                                *)
(***************************************************************************)
EXTENDS FixedPoint

CONSTANTS TaxRate, TaxCap  \* the rate in units of 1/Scale, and the most a transfer pays

ASSUME TaxAssumption == TaxRate \in Nat /\ TaxCap \in Nat

Capped(tax) == IF tax <= TaxCap THEN tax ELSE TaxCap

\* What the chain takes when amount is sent.
ChainTax(amount) == Capped(MulFloor(amount, TaxRate))

\* The reciprocal is rounded down as well.
ReverseDecimal(decimal) == IF decimal = 0 THEN 0 ELSE (One * One) \div decimal

ComputeTax(amount) ==
  Capped(amount - MulFloor(amount, ReverseDecimal(One + TaxRate)))

\* Mutation: nothing is deducted.
DeductNoTax(amount) == amount

DeductTax(amount) == amount - ComputeTax(amount)

\* Asset::compute_tax of the Astroport library.
DeductAstroportTax(amount) ==
  amount - Capped(amount - (amount * One) \div (One + TaxRate))
===============================================================================
