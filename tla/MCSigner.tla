------------------------------ MODULE MCSigner ------------------------------
(* Instances of Signer for TLC: a tight and a loose policy, the second with a *)
(* verified-intent gate, days of two ticks.                                   *)
EXTENDS Signer, TLC

CONSTANTS m1, r1

\* The paper policies requests carry; the first is the one whose caps bind.
Tight == [maxNotional |-> 2, maxDaily |-> 2, cooldown |-> 1,
          allow |-> {"buy", "transfer"}, mints |-> {m1},
          paper |-> TRUE, requireVerified |-> FALSE]
Loose == [maxNotional |-> 2, maxDaily |-> -1, cooldown |-> 2,
          allow |-> {"buy", "sell"}, mints |-> {},
          paper |-> TRUE, requireVerified |-> TRUE]

MCRawPolicies == {Tight, Loose}

Buy(size, because) ==
    [kind |-> "buy", mint |-> m1, size |-> size, because |-> because]
Sell(size, because) ==
    [kind |-> "sell", mint |-> NoMint, size |-> size, because |-> because]

MCIntents == {Buy(1, NoRule), Buy(2, NoRule), Sell(2, r1)}

MCDayOf == [t \in 0..MaxTime |-> t \div 2]
=============================================================================
