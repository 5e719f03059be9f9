---------------------------- MODULE MCLiveTrades ----------------------------
(* Instances of LiveTrades for TLC: a live policy whose day cap is one trade  *)
(* of the largest size, days of two ticks.                                    *)
EXTENDS LiveTrades, TLC

CONSTANTS m1

Live == [maxNotional |-> 2, maxDaily |-> 2, cooldown |-> 1,
         allow |-> Kind, mints |-> {m1},
         paper |-> FALSE, requireVerified |-> FALSE]

Lives == {Live}

MCDayOf == [t \in 0..MaxTime |-> t \div 2]

Symmetry == Permutations(Slot) \cup Permutations(Destroyer)
=============================================================================
