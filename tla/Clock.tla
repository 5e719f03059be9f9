------------------------------- MODULE Clock --------------------------------
(* A server's clock, Date.now(), in ticks. It runs on whatever the server     *)
(* does, and through its restarts.                                            *)
EXTENDS Integers

CONSTANT MaxTime   \* bound on the clock

ASSUME ClockAssumption == MaxTime \in Nat

VARIABLE now

Time == 0..MaxTime

Ticks == now < MaxTime /\ now' = now + 1
=============================================================================
