------------------------------- MODULE Policy -------------------------------
(* The owner's trading policy and the checks the signer makes on an intent    *)
(* before it signs (lib/proto.js, signer/server.js). Pure operators: the      *)
(* modules that own the wallet records apply them.                            *)
(* SOL amounts are integers in units of 0.05 SOL and times are ticks of 30 s, *)
(* so that DEFAULT_POLICY is a policy of small numbers.                       *)
EXTENDS Integers

CONSTANTS
    Mint,     \* token mints an intent may name
    NoMint,   \* an intent without a token
    Rule,     \* decision rules an owner may commit to
    NoRule    \* "no rule committed", and "justified by no rule"

ASSUME NamesAreFresh == NoMint \notin Mint /\ NoRule \notin Rule

Kind == {"buy", "sell"}

-----------------------------------------------------------------------------
\* A policy as the owner sends it. `allow` may hold verbs the signer does not
\* know; `mints` stands for allowTokens minus denyTokens.
RawPolicy ==
    [maxNotional : Int, maxDaily : Int, cooldown : Int,
     allow : SUBSET (Kind \cup {"transfer"}), mints : SUBSET Mint,
     paper : BOOLEAN, requireVerified : BOOLEAN]

PolicyType ==
    {p \in [maxNotional : Nat, maxDaily : Nat, cooldown : Nat,
            allow : SUBSET Kind, mints : SUBSET Mint,
            paper : BOOLEAN, requireVerified : BOOLEAN] :
        p.maxNotional <= p.maxDaily}

\* A plausible bug: what is below the floor is kept.
NoFloor(floor, x) == x

\* Math.max(floor, x)
AtLeast(floor, x) == IF x < floor THEN floor ELSE x

DefaultPolicy ==
    [maxNotional |-> 1, maxDaily |-> 10, cooldown |-> 1,
     allow |-> Kind, mints |-> Mint,
     paper |-> TRUE, requireVerified |-> FALSE]

\* A plausible bug: the day cap is taken as it is sent.
NormalizeLoosely(raw) ==
    LET notional == AtLeast(0, raw.maxNotional)
    IN  [maxNotional     |-> notional,
         maxDaily        |-> raw.maxDaily,
         cooldown        |-> AtLeast(0, raw.cooldown),
         allow           |-> raw.allow \cap Kind,
         mints           |-> raw.mints,
         paper           |-> raw.paper,
         requireVerified |-> raw.requireVerified]

\* No amount is negative, one trade never exceeds a day, only buy and sell.
NormalizePolicy(raw) ==
    LET notional == AtLeast(0, raw.maxNotional)
    IN  [maxNotional     |-> notional,
         maxDaily        |-> AtLeast(notional, raw.maxDaily),
         cooldown        |-> AtLeast(0, raw.cooldown),
         allow           |-> raw.allow \cap Kind,
         mints           |-> raw.mints,
         paper           |-> raw.paper,
         requireVerified |-> raw.requireVerified]

-----------------------------------------------------------------------------
\* An intent. `because` is the committed rule under which the intent's
\* authenticated inputs justify exactly this trade (decisionGate accepts it
\* for no other rule); `size` is sizeSol of a buy or of a paper trade.
Intent ==
    [kind : Kind \cup {"transfer"}, mint : Mint \cup {NoMint}, size : Int,
     because : Rule \cup {NoRule}]

\* Step 1b: with requireVerified, a committed rule must justify the trade.
Justified(policy, rule, i) ==
    policy.requireVerified => rule # NoRule /\ i.because = rule

\* Step 2: only buy and sell, only what the policy allows, only listed mints.
Permitted(policy, i) ==
    /\ i.kind \in Kind
    /\ i.kind \in policy.allow
    /\ i.mint # NoMint => i.mint \in policy.mints

\* A plausible bug: any time since the last trade will do.
Cooling(policy, lastTrade, ts) == ts > lastTrade

CooledDown(policy, lastTrade, ts) == ts - lastTrade >= policy.cooldown

\* The caps on a trade whose SOL value is known up front.
WithinCaps(policy, spent, size) ==
    /\ size > 0
    /\ size <= policy.maxNotional
    /\ spent + size <= policy.maxDaily
=============================================================================
