----------------------------- MODULE LiveTrades -----------------------------
(* The live side of the custody signer (signer/server.js, signer/submit.js):  *)
(* swaps landed through the broker, and the destruction of a wallet. These    *)
(* handlers await the network between the checks they make and the effects    *)
(* they have, so any number of them overlap on one wallet.                    *)
(*                                                                            *)
(* One agent id: handlers of different agents share no state. A handler keeps *)
(* the record object it looked up, so records are kept per wallet and         *)
(* `current` says which of them the id names now (0: none).                   *)
(*                                                                            *)
(* The chain and the broker are external: a wallet holds some SOL and lots of *)
(* a token, a swap lands if the wallet can pay for it.                        *)
EXTENDS Policy, FiniteSets, FiniteSetsExt, Functions

CONSTANTS
    Slot,          \* intent handlers that may be in flight at once
    Destroyer,     \* destroy handlers that may be in flight at once
    Policies,      \* the live policies owners set
    Sizes,         \* SOL value of buys and of what sells return
    StartTime,     \* the clock at the start: later than any cooldown
    MaxTime,       \* bound on the clock
    DayOf,         \* the UTC day of each tick
    MaxWallet,     \* bound on the wallets generated
    MaxToken,      \* bound on the sessions opened
    MaxDeposit,    \* bound on deposits
    MaxLost        \* bound on answers of the broker that are lost, and crashes

ASSUME LiveAssumption ==
    /\ Policies \subseteq {p \in PolicyType : ~p.paper} /\ Policies # {}
    /\ IsFiniteSet(Policies) /\ IsFiniteSet(Slot)
    /\ Sizes \subseteq Nat \ {0}
    /\ StartTime \in Nat /\ MaxTime \in Nat /\ StartTime <= MaxTime
    /\ \A t \in 0..MaxTime : DayOf[t] \in Nat
    /\ MaxWallet \in Nat /\ MaxToken \in Nat
    /\ MaxDeposit \in Nat /\ MaxLost \in Nat

Wallet == 1..MaxWallet
Day    == {DayOf[t] : t \in 0..MaxTime}

Record ==
    [policy : Policies, day : Nat, spent : Nat, lastTrade : Nat,
     session : 0..MaxToken]

\* An intent handler, or (phase "lost") a swap whose answer never came.
\* `notional` and `remaining` are the caps read before the order was asked for.
Trade ==
    [phase : {"idle", "ordering", "executing", "lost"}, wallet : 0..MaxWallet,
     kind : Kind, token : 0..MaxToken, size : Nat, notional : Nat,
     remaining : Nat, ts : Nat, value : Nat, landed : BOOLEAN]

NoTrade ==
    [phase |-> "idle", wallet |-> 0, kind |-> "buy", token |-> 0, size |-> 0,
     notional |-> 0, remaining |-> 0, ts |-> 0, value |-> 0, landed |-> FALSE]

\* A destroy handler: it reads the SOL balance, then the token balances. History:
\* whether a swap of the wallet landed meanwhile.
Destruction ==
    [phase : {"idle", "balance", "tokens", "verdict"}, wallet : 0..MaxWallet,
     sol : Nat, lots : Nat, landed : BOOLEAN]

NoDestruction ==
    [phase |-> "idle", wallet |-> 0, sol |-> 0, lots |-> 0, landed |-> FALSE]

VARIABLES
    now,
    current, records,   \* the map `agents`, see above
    minted, issued,     \* wallets and sessions generated so far
    trades, destroys,   \* the handlers in flight
    sol, lots,          \* what each wallet holds on chain
    deposits, lost,
    \* What happened (history):
    landedOn,           \* SOL value swapped per wallet and day
    charged,            \* SOL value charged to the wallet's budget
    adrift,             \* SOL value that landed although its answer was lost
    wiped               \* wallets whose key was wiped

vars == <<now, current, records, minted, issued, trades, destroys, sol, lots,
          deposits, lost, landedOn, charged, adrift, wiped>>
chain   == <<sol, lots, landedOn, adrift>>
counted == <<minted, issued, deposits, lost>>

TypeOK ==
    /\ now \in StartTime..MaxTime
    /\ current \in 0..MaxWallet
    /\ records \in [Wallet -> Record]
    /\ minted \in 0..MaxWallet /\ issued \in 0..MaxToken
    /\ trades \in [Slot -> Trade]
    /\ destroys \in [Destroyer -> Destruction]
    /\ sol \in [Wallet -> Nat] /\ lots \in [Wallet -> Nat]
    /\ deposits \in 0..MaxDeposit /\ lost \in 0..MaxLost
    /\ landedOn \in [Wallet \X Day -> Nat]
    /\ charged \in [Wallet -> Nat] /\ adrift \in [Wallet -> Nat]
    /\ wiped \subseteq Wallet

Init ==
    /\ now = StartTime
    /\ current = 0
    /\ \E p \in Policies :
          records = [w \in Wallet |->
             [policy |-> p, day |-> 0, spent |-> 0, lastTrade |-> 0, session |-> 0]]
    /\ minted = 0 /\ issued = 0
    /\ trades = [s \in Slot |-> NoTrade]
    /\ destroys = [d \in Destroyer |-> NoDestruction]
    /\ sol = [w \in Wallet |-> 0] /\ lots = [w \in Wallet |-> 0]
    /\ deposits = 0 /\ lost = 0
    /\ landedOn = [p \in Wallet \X Day |-> 0]
    /\ charged = [w \in Wallet |-> 0] /\ adrift = [w \in Wallet |-> 0]
    /\ wiped = {}

-----------------------------------------------------------------------------
Exists == current # 0
Today == DayOf[now]

PutTrade(s, t)   == trades' = [trades EXCEPT ![s] = t]
PutDestroy(d, r) == destroys' = [destroys EXCEPT ![d] = r]

\* POST /v1/agents for an id that is not taken. (The terms of an agent that
\* exists are updated in Signer.)
Provision(p) ==
    /\ ~Exists
    /\ minted < MaxWallet
    /\ minted' = minted + 1
    /\ current' = minted + 1
    /\ records' = [records EXCEPT ![minted + 1] =
          [policy |-> p, day |-> Today, spent |-> 0, lastTrade |-> 0, session |-> 0]]
    /\ UNCHANGED <<now, issued, trades, destroys, chain, deposits, lost, charged,
                   wiped>>

\* PUT /v1/agents/:id/policy
SetPolicy(p) ==
    /\ Exists
    /\ records' = [records EXCEPT ![current].policy = p]
    /\ UNCHANGED <<now, current, trades, destroys, chain, counted, charged, wiped>>

\* POST /v1/agents/:id/session; `session` is the token of the newest one.
OpenSession ==
    /\ Exists
    /\ issued < MaxToken
    /\ issued' = issued + 1
    /\ records' = [records EXCEPT ![current].session = issued + 1]
    /\ UNCHANGED <<now, current, minted, trades, destroys, chain, deposits, lost,
                   charged, wiped>>

-----------------------------------------------------------------------------
(* POST /v1/agents/:id/intent, for a policy that is live.                     *)

SpentToday(r) == IF r.day = Today THEN r.spent ELSE 0

\* The session's holder asks; what is checked without the order is checked.
Admitted(r, kind) ==
    /\ r.session # 0
    /\ kind \in r.policy.allow
    /\ CooledDown(r.policy, r.lastTrade, now)

\* The value of a buy is known up front, that of a sell only from the order.
FitsUpFront(r, kind, size) ==
    kind = "buy" => WithinCaps(r.policy, SpentToday(r), size)

RolledOver(r) == [r EXCEPT !.day = Today, !.spent = SpentToday(r)]

\* The checks pass and an order is asked for, with the caps as they are now.
Submit(s, kind, size) ==
    LET r == records[current]
    IN  /\ Exists
        /\ trades[s].phase = "idle"
        /\ Admitted(r, kind)
        /\ FitsUpFront(r, kind, size)
        /\ records' = [records EXCEPT ![current] = RolledOver(r)]
        /\ PutTrade(s, [phase |-> "ordering", wallet |-> current, kind |-> kind,
                        token |-> r.session,
                        size |-> IF kind = "buy" THEN size ELSE 0,
                        notional |-> r.policy.maxNotional,
                        remaining |-> AtLeast(0, r.policy.maxDaily - SpentToday(r)),
                        ts |-> now, value |-> 0, landed |-> FALSE])
        /\ UNCHANGED <<now, current, destroys, chain, counted, charged, wiped>>

\* An intent over the caps is refused, after the day has rolled over.
Refused(size) ==
    LET r == records[current]
    IN  /\ Exists
        /\ Admitted(r, "buy")
        /\ ~FitsUpFront(r, "buy", size)
        /\ r.day # Today
        /\ records' = [records EXCEPT ![current] = RolledOver(r)]
        /\ UNCHANGED <<now, current, trades, destroys, chain, counted, charged, wiped>>

\* A plausible bug: the swap's own value is not held against the day's rest.
OrderUncapped(s, quote) ==
    LET t == trades[s]
    IN  /\ t.phase = "ordering"
        /\ t.kind = "buy" => quote = t.size
        /\ quote <= t.notional
        /\ PutTrade(s, [t EXCEPT !.phase = "executing", !.value = quote])
        /\ UNCHANGED <<now, current, records, destroys, chain, counted, charged, wiped>>

\* The order arrives; its SOL value is checked, the swap is signed and sent.
\* The broker quotes a buy at the size asked for, a sell at what it returns.
OrderArrives(s, quote) ==
    LET t == trades[s]
    IN  /\ t.phase = "ordering"
        /\ t.kind = "buy" => quote = t.size
        /\ quote <= t.notional
        /\ quote <= t.remaining
        /\ PutTrade(s, [t EXCEPT !.phase = "executing", !.value = quote])
        /\ UNCHANGED <<now, current, records, destroys, chain, counted, charged, wiped>>

\* No order, a wrong or too large one, or a timeout: nothing is charged.
OrderFails(s) ==
    /\ trades[s].phase = "ordering"
    /\ PutTrade(s, NoTrade)
    /\ UNCHANGED <<now, current, records, destroys, chain, counted, charged, wiped>>

\* A plausible bug: the charge is added to what was spent before the awaits.
SettleStale(s) ==
    LET t == trades[s]
        r == records[t.wallet]
        settled == [r EXCEPT !.spent = r.policy.maxDaily - t.remaining + t.value,
                             !.lastTrade = t.ts]
    IN  /\ t.phase = "executing" /\ t.landed
        /\ records' = [records EXCEPT ![t.wallet] = settled]
        /\ charged' = [charged EXCEPT ![t.wallet] = @ + settled.spent - r.spent]
        /\ PutTrade(s, NoTrade)
        /\ UNCHANGED <<now, current, destroys, chain, counted, wiped>>

\* The swap's answer arrives: it is charged by its value, to the day the record
\* is at, and lastTradeTs is the time of its submission.
Settle(s) ==
    LET t == trades[s]
        r == records[t.wallet]
        settled == [r EXCEPT !.spent = @ + t.value, !.lastTrade = t.ts]
    IN  /\ t.phase = "executing" /\ t.landed
        /\ records' = [records EXCEPT ![t.wallet] = settled]
        /\ charged' = [charged EXCEPT ![t.wallet] = @ + settled.spent - r.spent]
        /\ PutTrade(s, NoTrade)
        /\ UNCHANGED <<now, current, destroys, chain, counted, wiped>>

\* The broker refuses the swap.
ExecuteFails(s) ==
    /\ trades[s].phase = "executing" /\ ~trades[s].landed
    /\ PutTrade(s, NoTrade)
    /\ UNCHANGED <<now, current, records, destroys, chain, counted, charged, wiped>>

\* The handler gives up on a swap (a timeout, a lost answer) that has landed or
\* yet may.
AnswerLost(s) ==
    LET t == trades[s]
    IN  /\ t.phase = "executing"
        /\ lost < MaxLost
        /\ lost' = lost + 1
        /\ adrift' = [adrift EXCEPT ![t.wallet] = IF t.landed THEN @ + t.value ELSE @]
        /\ PutTrade(s, IF t.landed THEN NoTrade ELSE [t EXCEPT !.phase = "lost"])
        /\ UNCHANGED <<now, current, records, destroys, sol, lots, landedOn, minted,
                       issued, deposits, charged, wiped>>

-----------------------------------------------------------------------------
(* DELETE /v1/agents/:id                                                      *)

DestroyAsked(d) ==
    /\ Exists
    /\ destroys[d].phase = "idle"
    /\ PutDestroy(d, [NoDestruction EXCEPT !.phase = "balance", !.wallet = current])
    /\ UNCHANGED <<now, current, records, trades, chain, counted, charged, wiped>>

\* getBalance, then the token accounts; each waits for an answer of the chain.
ReadBalances(d) ==
    LET r == destroys[d]
    IN  /\ \/ /\ r.phase = "balance"
              /\ PutDestroy(d, [r EXCEPT !.phase = "tokens", !.sol = sol[r.wallet]])
           \/ /\ r.phase = "tokens"
              /\ PutDestroy(d, [r EXCEPT !.phase = "verdict", !.lots = lots[r.wallet]])
        /\ UNCHANGED <<now, current, records, trades, chain, counted, charged, wiped>>

\* A plausible bug: a balance that cannot be read counts as none.
ReadFailsOpen(d) ==
    /\ destroys[d].phase \in {"balance", "tokens"}
    /\ PutDestroy(d, [destroys[d] EXCEPT !.phase = "verdict"])
    /\ UNCHANGED <<now, current, records, trades, chain, counted, charged, wiped>>

\* An RPC call fails: the wallet is kept.
ReadFails(d) ==
    /\ destroys[d].phase \in {"balance", "tokens"}
    /\ PutDestroy(d, NoDestruction)
    /\ UNCHANGED <<now, current, records, trades, chain, counted, charged, wiped>>

\* Not empty: refused. Empty: whatever record and key the id has now are wiped.
DestroyDecides(d) ==
    LET r == destroys[d]
        empty == r.sol = 0 /\ r.lots = 0
    IN  /\ r.phase = "verdict"
        /\ current' = IF empty THEN 0 ELSE current
        /\ wiped' = IF empty /\ Exists THEN wiped \cup {current} ELSE wiped
        /\ PutDestroy(d, NoDestruction)
        /\ UNCHANGED <<now, records, trades, chain, counted, charged>>

-----------------------------------------------------------------------------
(* The chain, its users, the clock and the process.                           *)

\* What has landed from w and is not charged yet, by handler.
Unsettled(w) ==
    [s \in Slot |-> IF trades[s].wallet = w /\ trades[s].landed
                    THEN trades[s].value ELSE 0]

\* A swap lands, if the wallet can pay for it: SOL for a lot, or a lot for SOL.
Lands(s) ==
    LET t == trades[s]
        w == t.wallet
    IN  /\ t.phase \in {"executing", "lost"} /\ ~t.landed
        /\ \/ /\ t.kind = "buy" /\ sol[w] >= t.value
              /\ sol' = [sol EXCEPT ![w] = @ - t.value]
              /\ lots' = [lots EXCEPT ![w] = @ + 1]
           \/ /\ t.kind = "sell" /\ lots[w] > 0
              /\ sol' = [sol EXCEPT ![w] = @ + t.value]
              /\ lots' = [lots EXCEPT ![w] = @ - 1]
        /\ landedOn' = [landedOn EXCEPT ![<<w, Today>>] = @ + t.value]
        /\ adrift' = [adrift EXCEPT ![w] = IF t.phase = "lost" THEN @ + t.value ELSE @]
        /\ PutTrade(s, IF t.phase = "lost" THEN NoTrade ELSE [t EXCEPT !.landed = TRUE])
        /\ destroys' = [d \in Destroyer |->
              [destroys[d] EXCEPT !.landed = @ \/ (destroys[d].wallet = w)]]
        /\ UNCHANGED <<now, current, records, counted, charged, wiped>>

\* The blockhash of a lost swap expires.
Expires(s) ==
    /\ trades[s].phase = "lost"
    /\ PutTrade(s, NoTrade)
    /\ UNCHANGED <<now, current, records, destroys, chain, counted, charged, wiped>>

\* The owner funds the wallet, but not one that is being destroyed.
Deposit ==
    /\ Exists
    /\ \A d \in Destroyer : destroys[d].wallet # current
    /\ deposits < MaxDeposit
    /\ deposits' = deposits + 1
    /\ sol' = [sol EXCEPT ![current] = @ + 1]
    /\ UNCHANGED <<now, current, records, minted, issued, trades, destroys, lots,
                   lost, landedOn, charged, adrift, wiped>>

\* The owner takes the wallet's SOL (a sweep of signer/withdraw.js lands).
Sweep ==
    /\ Exists
    /\ sol[current] > 0
    /\ sol' = [sol EXCEPT ![current] = 0]
    /\ UNCHANGED <<now, current, records, trades, destroys, lots, landedOn, counted,
                   charged, adrift, wiped>>

\* The signer restarts: its handlers are gone. Every change a handler persisted
\* is on disk; a day that rolled over since then rolls over again.
Crash ==
    LET after(t) == IF t.phase \in {"executing", "lost"} /\ ~t.landed
                    THEN [t EXCEPT !.phase = "lost"] ELSE NoTrade
    IN  /\ lost < MaxLost
        /\ lost' = lost + 1
        /\ trades' = [s \in Slot |-> after(trades[s])]
        /\ destroys' = [d \in Destroyer |-> NoDestruction]
        /\ adrift' = [w \in Wallet |-> adrift[w] + SumFunction(Unsettled(w))]
        /\ UNCHANGED <<now, current, records, sol, lots, landedOn, minted, issued,
                       deposits, charged, wiped>>

Tick ==
    /\ now < MaxTime
    /\ now' = now + 1
    /\ UNCHANGED <<current, records, trades, destroys, chain, counted, charged, wiped>>

-----------------------------------------------------------------------------
Next ==
    \/ \E p \in Policies : Provision(p) \/ SetPolicy(p)
    \/ OpenSession
    \/ \E s \in Slot :
        \/ \E kind \in Kind, size \in Sizes : Submit(s, kind, size)
        \/ \E quote \in Sizes : OrderArrives(s, quote)
        \/ OrderFails(s) \/ Settle(s) \/ ExecuteFails(s) \/ AnswerLost(s)
        \/ Lands(s) \/ Expires(s)
    \/ \E size \in Sizes : Refused(size)
    \/ \E d \in Destroyer :
        DestroyAsked(d) \/ ReadBalances(d) \/ ReadFails(d) \/ DestroyDecides(d)
    \/ Deposit \/ Sweep \/ Crash \/ Tick

Spec == Init /\ [][Next]_vars

-----------------------------------------------------------------------------
LargestTrade == Max({p.maxNotional : p \in Policies})
LargestDay   == Max({p.maxDaily : p \in Policies})

\* The caps are read before the awaits and the charge is made after them, so
\* overlapping swaps can exceed the day cap; but a budget is never charged more
\* than the day cap and one trade for each other handler that may be in flight.
OverspendBounded ==
    \A w \in Wallet :
        records[w].spent <= LargestDay + (Cardinality(Slot) - 1) * LargestTrade

\* Nothing lands for free: what was swapped from a wallet, on whatever day and
\* side, was charged, waits for its answer, or had its answer lost.
LandedIsCharged ==
    \A w \in Wallet :
        SumFunction([d \in Day |-> landedOn[<<w, d>>]])
        = charged[w] + adrift[w] + SumFunction(Unsettled(w))

\* "We fail closed on a non-empty wallet" (signer/server.js:365): a key that was
\* wiped was the key of a wallet with nothing in it, unless a swap landed while
\* its balances were read, or the id was given another wallet since.
WipedEmpty ==
    [][\A w \in wiped' \ wiped :
        \/ sol[w] = 0 /\ lots[w] = 0
        \/ \E d \in Destroyer :
            /\ destroys[d].phase = "verdict" /\ destroys'[d].phase = "idle"
            /\ destroys[d].landed \/ destroys[d].wallet # w]_vars
=============================================================================
