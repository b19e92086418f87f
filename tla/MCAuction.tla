------------------------------- MODULE MCAuction -------------------------------
(* The auction instantiated for TLC. *)
EXTENDS AuctionProperties, TLC

\* What the pool returns for LP tokens; the UST is worth more than its tax.
OneLiquidity == {[mars |-> 2, uusd |-> 3]}

NoRewards == {[mars |-> 0, astro |-> 0]}

\* Nothing, MARS from either staking contract, or both from the generator.
SomeRewards == NoRewards \union {[mars |-> 3, astro |-> 0], [mars |-> 3, astro |-> 4]}

UserSymmetry == Permutations(Users)
===============================================================================
