------------------------------- MODULE MCAirdrop -------------------------------
(* The airdrop contract instantiated for TLC. *)
EXTENDS AirdropProperties

\* Three accounts, of which the third never claims; hashes in no order of theirs.
LeafHashes == [leaf \in (1 .. 3) \X (1 .. 2) |-> 2 * ((3 * leaf[1] + 5 * leaf[2]) % 13)]

FirstList == {<<1, 2>>, <<2, 1>>, <<3, 1>>}

\* Grants the second account another amount.
SecondList == {<<2, 2>>, <<3, 2>>}

TwoLists == {FirstList, SecondList}

FirstOrBoth == {<<>>, <<FirstList>>, <<FirstList, SecondList>>}
===============================================================================
