------------------------------- MODULE MCLaunch -------------------------------
(* The launch instantiated for TLC. *)
EXTENDS LaunchProperties

BoostOne == [d \in Durations |-> 1]

AllAddresses ==
  {{"address_provider", "ma_ust_token", "auction_contract_address"}}

LeafHashes == [leaf \in (1 .. 3) \X {1} |-> 2 * leaf[1]]

\* The second account is not on it, the third takes no part in the rest.
TheList == {<<1, 1>>, <<3, 1>>}

OneList == {TheList}

OnlyThatList == {<<TheList>>}

NoRewards == {[mars |-> 0, astro |-> 0]}

OneLiquidity == {[mars |-> 1, uusd |-> 1]}
===============================================================================
