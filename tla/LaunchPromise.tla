----------------------------- MODULE LaunchPromise -----------------------------
(***************************************************************************)
(* What the launch promises to those who take part: MARS is committed to   *)
(* the auction until the pool is created; all parts of the launch open for *)
(* claims in that one step; and only then is MARS paid out, while what was *)
(* committed stays committed.                                              *)
(***************************************************************************)
EXTENDS Integers

CONSTANT Parts   \* the contracts that open for claims

VARIABLES
  committed,   \* MARS committed to the auction
  paid,        \* MARS paid out to users
  open         \* the parts that are open for claims

promise == <<committed, paid, open>>

PromiseInit == committed = 0 /\ paid = 0 /\ open = {}

Commit ==
  /\ open = {}
  /\ committed' > committed
  /\ UNCHANGED <<paid, open>>

Open ==
  /\ open = {} /\ committed > 0
  /\ open' = Parts
  /\ UNCHANGED <<committed, paid>>

Pay ==
  /\ open = Parts
  /\ paid' > paid
  /\ UNCHANGED <<committed, open>>

PromiseNext == Commit \/ Open \/ Pay

PromiseSpec == PromiseInit /\ [][PromiseNext]_promise
===============================================================================
