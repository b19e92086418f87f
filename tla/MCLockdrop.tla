------------------------------ MODULE MCLockdrop ------------------------------
(* The lockdrop contract instantiated for TLC. *)
EXTENDS LockdropProperties

\* Functions and sets of sets a .cfg cannot write.
BoostOneTwo == [d \in Durations |-> d]

AllAddresses == {Addresses}

EachAddress == {{a} : a \in Addresses}
===============================================================================
