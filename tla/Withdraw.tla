------------------------------ MODULE Withdraw ------------------------------
(* A withdrawal to the owner (signer/withdraw.js): read the balance, fetch a  *)
(* blockhash, sign one transfer, send it, poll for its confirmation. Each of  *)
(* these is an RPC call that goes down an ordered list of endpoints, from one *)
(* to the next as long as they are merely unavailable.                        *)
(*                                                                            *)
(* The chain is external. It executes a signature at most once, whichever     *)
(* endpoint it came through; two requests that sign the same amount for the   *)
(* same blockhash have the same signature. Amounts are in units of the fee    *)
(* reserve.                                                                   *)
EXTENDS Integers, FiniteSets

CONSTANTS
    Request,       \* withdrawals asked for, by the owner or by retries
    Amounts,       \* amounts asked for; 0 asks for all
    Endpoints,     \* length of the endpoint list
    MaxPolls,      \* status polls before giving up (15 in the code)
    MaxBalance,    \* bound on the wallet's balance
    MaxBlock       \* bound on the blockhashes seen

ASSUME WithdrawAssumption ==
    /\ Amounts \subseteq Nat
    /\ Endpoints \in Nat \ {0} /\ MaxPolls \in Nat \ {0}
    /\ MaxBalance \in Nat /\ MaxBlock \in Nat \ {0}

FeeReserve == 1

Call == {"balance", "blockhash", "send", "poll"}

\* What a caller is told: 200, a 400 for an amount that is not there, "tx-failed"
\* for a transfer that failed on chain, or any other failure.
Answer == {"withdrawn", "refused", "tx_failed", "failed"}

\* A handler: the call it awaits, at which endpoint; the amount asked for, the
\* amount to send, the blockhash; what the caller is told.
Handler ==
    [phase : {"idle", "done"} \cup Call, at : 1..Endpoints, asked : Amounts,
     send : 0..MaxBalance, hash : 0..MaxBlock, polls : 0..MaxPolls,
     answer : Answer \cup {"none"}]

\* A signed transfer is known by what it is a signature of; `for` is 0.
Signature == [send : 0..MaxBalance, hash : 0..MaxBlock, for : 0..Endpoints]

VARIABLES
    handlers,
    block,      \* the latest blockhash
    balance,    \* of the wallet on chain
    pool,       \* transfers an endpoint took in
    landed,     \* transfers executed
    errored,    \* transfers that failed on chain
    withdrawn   \* history: what the owner received

chain == <<block, balance, pool, landed, errored, withdrawn>>
vars == <<handlers, block, balance, pool, landed, errored, withdrawn>>

TypeOK ==
    /\ handlers \in [Request -> Handler]
    /\ block \in 1..MaxBlock
    /\ balance \in 0..MaxBalance
    /\ pool \subseteq Signature
    /\ landed \subseteq Signature /\ errored \subseteq Signature
    /\ withdrawn \in Nat

Init ==
    /\ \E asked \in [Request -> Amounts] :
          handlers = [r \in Request |->
             [phase |-> "idle", at |-> 1, asked |-> asked[r], send |-> 0,
              hash |-> 0, polls |-> 0, answer |-> "none"]]
    /\ block = 1
    /\ balance \in 0..MaxBalance
    /\ pool = {} /\ landed = {} /\ errored = {}
    /\ withdrawn = 0

-----------------------------------------------------------------------------
InCall(r) == handlers[r].phase \in Call

PutHandler(r, h) == handlers' = [handlers EXCEPT ![r] = h]

\* A call that is over is followed by the next one, from the first endpoint.
Goes(h, phase) == [h EXCEPT !.phase = phase, !.at = 1]
\* The caller may have gone; then nobody is told.
Tells(h, answer) ==
    [h EXCEPT !.phase = "done", !.at = 1,
              !.answer = IF @ = "none" THEN answer ELSE @]

\* A plausible bug: each endpoint is sent a transfer signed for it.
SignedPerEndpoint(h) == [send |-> h.send, hash |-> h.hash, for |-> h.at]

\* The transfer is signed once, for one blockhash.
Signed(h) == [send |-> h.send, hash |-> h.hash, for |-> 0]

\* POST /v1/agents/:id/withdraw
Ask(r) ==
    /\ handlers[r].phase = "idle"
    /\ PutHandler(r, Goes(handlers[r], "balance"))
    /\ UNCHANGED chain

\* A plausible bug: the amount asked for is not compared with the balance.
SendsWhatIsAsked(h) ==
    LET send == IF h.asked = 0 THEN balance - FeeReserve ELSE h.asked
    IN  IF send <= 0 THEN Tells(h, "refused")
        ELSE Goes([h EXCEPT !.send = send], "blockhash")

\* getBalance answers: all that can be spent, or what was asked if there is
\* that much.
AfterBalance(h) ==
    LET spendable == balance - FeeReserve
        send == IF h.asked = 0 THEN spendable ELSE h.asked
    IN  IF send <= 0 \/ send > spendable THEN Tells(h, "refused")
        ELSE Goes([h EXCEPT !.send = send], "blockhash")

\* A plausible bug: any status that is known is taken for a success.
AfterAnyStatus(h) ==
    IF Signed(h) \in landed \cup errored THEN Tells(h, "withdrawn")
    ELSE IF h.polls + 1 = MaxPolls THEN Tells(h, "tx_failed")
    ELSE Goes([h EXCEPT !.polls = @ + 1], "poll")

\* The status is known, not yet known, or was asked for often enough.
AfterPoll(h) ==
    CASE Signed(h) \in landed  -> Tells(h, "withdrawn")
      [] Signed(h) \in errored -> Tells(h, "tx_failed")
      [] OTHER -> IF h.polls + 1 = MaxPolls THEN Tells(h, "withdrawn")
                  ELSE Goes([h EXCEPT !.polls = @ + 1], "poll")

\* sendTransaction reaches the endpoint, which takes the transfer in.
SendReaches(r) ==
    /\ handlers[r].phase = "send"
    /\ pool' = pool \cup {Signed(handlers[r])}
    /\ UNCHANGED <<handlers, block, balance, landed, errored, withdrawn>>

\* The awaited call is answered; an endpoint that lags has an older blockhash.
Answered(r) ==
    LET h == handlers[r]
    IN  /\ \/ /\ h.phase = "balance"   /\ PutHandler(r, AfterBalance(h))
           \/ /\ h.phase = "blockhash"
              /\ \E hash \in 1..block :
                    PutHandler(r, Goes([h EXCEPT !.hash = hash], "send"))
           \/ /\ h.phase = "send"
              /\ Signed(h) \in pool \cup landed \cup errored
              /\ PutHandler(r, Goes([h EXCEPT !.polls = 0], "poll"))
           \/ /\ h.phase = "poll"      /\ PutHandler(r, AfterPoll(h))
        /\ UNCHANGED chain

\* A plausible bug: after the last endpoint the first one is asked again.
AskAgain(r) ==
    /\ InCall(r)
    /\ PutHandler(r, [handlers[r] EXCEPT !.at = (@ % Endpoints) + 1])
    /\ UNCHANGED chain

\* The endpoint is blocked, rate limited, down or times out: the next one is
\* asked, or after the last the caller is told so.
Unavailable(r) ==
    LET h == handlers[r]
    IN  /\ InCall(r)
        /\ PutHandler(r, IF h.at < Endpoints THEN [h EXCEPT !.at = @ + 1]
                         ELSE Tells(h, "failed"))
        /\ UNCHANGED chain

\* The endpoint rejects the call itself: no other endpoint is asked.
Rejected(r) ==
    /\ InCall(r)
    /\ PutHandler(r, Tells(handlers[r], "failed"))
    /\ UNCHANGED chain

\* The control plane waits for 45 s; the signer goes on.
CallerLeaves(r) ==
    /\ InCall(r)
    /\ handlers[r].answer = "none"
    /\ PutHandler(r, [handlers[r] EXCEPT !.answer = "failed"])
    /\ UNCHANGED chain

-----------------------------------------------------------------------------
(* The chain.                                                                 *)

Lands(x) ==
    LET cost == x.send + FeeReserve
    IN  /\ x \in pool /\ x \notin landed \cup errored
        /\ pool' = pool \ {x}
        /\ \/ /\ balance >= cost
              /\ balance' = balance - cost
              /\ withdrawn' = withdrawn + x.send
              /\ landed' = landed \cup {x}
              /\ UNCHANGED errored
           \/ /\ balance < cost
              /\ errored' = errored \cup {x}
              /\ UNCHANGED <<balance, withdrawn, landed>>
        /\ UNCHANGED <<handlers, block>>

\* The blockhash expires.
Expires(x) ==
    /\ x \in pool
    /\ pool' = pool \ {x}
    /\ UNCHANGED <<handlers, block, balance, landed, errored, withdrawn>>

NewBlock ==
    /\ block < MaxBlock
    /\ block' = block + 1
    /\ UNCHANGED <<handlers, balance, pool, landed, errored, withdrawn>>

\* A swap of the agent spends some of the balance.
Spends ==
    /\ balance > 0
    /\ balance' = balance - 1
    /\ UNCHANGED <<handlers, block, pool, landed, errored, withdrawn>>

-----------------------------------------------------------------------------
HandlerStep(r) == Answered(r) \/ Unavailable(r) \/ Rejected(r)

Next ==
    \/ \E r \in Request :
        Ask(r) \/ SendReaches(r) \/ HandlerStep(r) \/ CallerLeaves(r)
    \/ \E x \in pool : Lands(x) \/ Expires(x)
    \/ NewBlock \/ Spends

Spec == Init /\ [][Next]_vars

\* Every call is answered, fails or times out.
Fairness == \A r \in Request : WF_vars(HandlerStep(r))

FairSpec == Spec /\ Fairness

-----------------------------------------------------------------------------
\* The transfer x is the one handler h signed.
Serves(x, h) == h.hash # 0 /\ x.send = h.send /\ x.hash = h.hash

\* "It can never double-spend": however many endpoints a transfer was sent to,
\* one withdrawal leaves the wallet at most once.
NeverPaidTwice ==
    \A r \in Request : \A x, y \in landed :
        Serves(x, handlers[r]) /\ Serves(y, handlers[r]) => x = y

Paid(h) == IF \E x \in landed : Serves(x, h) THEN h.send ELSE 0

\* What the owner's requests promise, as Payment states it: a request is paid
\* once and with what it asks for, and it is safe to repeat one that was refused
\* or whose transfer failed on chain. (Not so after any other failure.)
Promise == INSTANCE Payment WITH
    Final <- {"refused", "tx_failed"},
    asked <- [r \in Request |-> handlers[r].asked],
    paid <- [r \in Request |-> Paid(handlers[r])],
    told <- [r \in Request |-> handlers[r].answer]

Pays == Promise!Spec

\* The caller is told something, however the endpoints behave.
AlwaysAnswered == \A r \in Request : InCall(r) ~> handlers[r].answer # "none"
=============================================================================
