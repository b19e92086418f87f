--------------------------- MODULE EmissionSchedule ---------------------------
(***************************************************************************)
(* The schedule of MARS rewards the LP staking contract promises, as a     *)
(* clock would run it: second by second, with the cycle and its rewards    *)
(* changing at the moment a cycle ends and nothing left after the last     *)
(* second.  The contract has no clock; it must look to its callers as if   *)
(* it had.                                                                 *)
(***************************************************************************)
EXTENDS FixedPoint

CONSTANTS InitTimestamp, TillTimestamp, CycleDuration, CycleRewards,
          RewardIncreases

VARIABLES
  time,
  cycle,      \* number of the running cycle
  rewards,    \* MARS of that cycle
  increase    \* growth from one cycle to the next

schedule == <<time, cycle, rewards, increase>>

ScheduleInit ==
  /\ time \in {0, InitTimestamp}
  /\ cycle = 0
  /\ rewards \in CycleRewards
  /\ increase \in RewardIncreases

CycleEndsAt(t) ==
  /\ InitTimestamp < t /\ t <= TillTimestamp
  /\ (t - InitTimestamp) % CycleDuration = 0

Second ==
  /\ time' = time + 1
  /\ cycle' = IF CycleEndsAt(time') THEN cycle + 1 ELSE cycle
  /\ rewards' =
       IF time' = TillTimestamp THEN 0
       ELSE IF CycleEndsAt(time') THEN rewards + MulFloor(rewards, increase)
       ELSE rewards
  /\ UNCHANGED increase

\* The owner changes the rewards of the running cycle or the growth.
Adjust ==
  /\ rewards' \in CycleRewards \union {rewards}
  /\ increase' \in RewardIncreases \union {increase}
  /\ UNCHANGED <<time, cycle>>

ScheduleNext == Second \/ Adjust

ScheduleSpec == ScheduleInit /\ [][ScheduleNext]_schedule

===============================================================================
