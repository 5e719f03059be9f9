--------------------------- MODULE WithdrawProofs ---------------------------
(* Theorems about withdrawals: for any requests, amounts, number of endpoints *)
(* and polls, the handlers and the chain keep the promise Payment states.     *)
EXTENDS Withdraw, TLAPS

\* What is signed is signed once: no transfer is for an endpoint.
Sent == pool \cup landed \cup errored

\* Every transfer is one that a handler asked an endpoint to send.
TransfersAreServed ==
    \A x \in Sent : x.for = 0 /\ \E r \in Request : Serves(x, handlers[r])

\* How far a handler got, by what it has put together so far.
Progress(h) ==
    /\ h.phase \in {"idle", "balance", "blockhash"} => h.hash = 0
    /\ (h.phase \in {"blockhash", "send", "poll"} \/ h.hash # 0) =>
          h.send > 0 /\ h.asked \in {0, h.send}
    /\ h.phase \in {"send", "poll"} => h.hash # 0
    /\ h.phase = "poll" => h.polls < MaxPolls
    /\ h.phase # "done" => h.answer \in {"none", "failed"}
    /\ h.answer = "refused" => h.hash = 0
    /\ h.answer = "tx_failed" => Signed(h) \in errored

Inv ==
    /\ TypeOK
    /\ landed \cap errored = {}
    /\ TransfersAreServed
    /\ \A r \in Request : Progress(handlers[r])

-----------------------------------------------------------------------------
\* What a handler that goes on or ends looks like.
LEMMA HandlerType ==
    ASSUME NEW h \in Handler
    PROVE  /\ \A phase \in {"idle", "done"} \cup Call : Goes(h, phase) \in Handler
           /\ \A answer \in Answer : Tells(h, answer) \in Handler
<1>1. 1 \in 1..Endpoints
  BY WithdrawAssumption DEF WithdrawAssumption
<1>2. ASSUME NEW phase \in {"idle", "done"} \cup Call PROVE Goes(h, phase) \in Handler
  BY <1>1, <1>2 DEF Handler, Goes
<1>3. ASSUME NEW answer \in Answer PROVE Tells(h, answer) \in Handler
  BY <1>1, <1>3 DEF Handler, Tells
<1> QED
  BY <1>2, <1>3

\* Changing the handler of one request keeps the invariant if the new one has a
\* type, keeps to the order of the calls, and serves what the old one served.
LEMMA HandlerChanges ==
    ASSUME Inv, NEW r \in Request, NEW h \in Handler, PutHandler(r, h), UNCHANGED chain,
           Progress(h),
           handlers[r].hash # 0 => h.hash = handlers[r].hash /\ h.send = handlers[r].send
    PROVE  Inv'
<1> DEFINE old == handlers[r]
<1>1. handlers' = [handlers EXCEPT ![r] = h] /\ handlers \in [Request -> Handler]
  BY DEF PutHandler, Inv, TypeOK
<1>2. /\ pool' = pool /\ landed' = landed /\ errored' = errored
      /\ block' = block /\ balance' = balance /\ withdrawn' = withdrawn
  BY DEF chain
<1>3. TypeOK'
  BY <1>1, <1>2 DEF Inv, TypeOK
<1>4. TransfersAreServed'
  <2> SUFFICES ASSUME NEW x \in Sent
               PROVE  x.for = 0 /\ \E q \in Request : Serves(x, handlers'[q])
    BY <1>2 DEF TransfersAreServed, Sent, Serves
  <2>1. PICK q \in Request : Serves(x, handlers[q])
    BY DEF Inv, TransfersAreServed
  <2>2. Serves(x, handlers'[q])
    BY <1>1, <2>1 DEF Serves
  <2> QED
    BY <2>2 DEF Inv, TransfersAreServed
<1>5. \A q \in Request : Progress(handlers[q])'
  BY <1>1, <1>2 DEF Inv, Progress, Signed
<1> QED
  BY <1>2, <1>3, <1>4, <1>5 DEF Inv

LEMMA InitInv == Init => Inv
<1> SUFFICES ASSUME Init PROVE Inv
  OBVIOUS
<1> USE WithdrawAssumption DEF WithdrawAssumption
<1>1. PICK asked \in [Request -> Amounts] :
        handlers = [r \in Request |->
           [phase |-> "idle", at |-> 1, asked |-> asked[r], send |-> 0,
            hash |-> 0, polls |-> 0, answer |-> "none"]]
  BY DEF Init
<1>2. handlers \in [Request -> Handler]
  BY <1>1 DEF Handler, Call, Answer
<1>3. TypeOK
  BY <1>2 DEF Init, TypeOK
<1>4. \A r \in Request : Progress(handlers[r])
  BY <1>1 DEF Progress
<1> QED
  BY <1>3, <1>4 DEF Init, Inv, TransfersAreServed, Sent

-----------------------------------------------------------------------------
(* Each action of a handler.                                                  *)

LEMMA AskInv == ASSUME Inv, NEW r \in Request, Ask(r) PROVE Inv'
<1> DEFINE h == handlers[r]  new == Goes(h, "balance")
<1>1. h \in Handler /\ Progress(h) /\ h.phase = "idle"
  BY DEF Inv, TypeOK, Ask
<1>2. new \in Handler
  BY <1>1, HandlerType DEF Call
<1>3. Progress(new) /\ new.hash = h.hash /\ new.send = h.send
  BY <1>1 DEF Progress, Goes, Handler, Signed
<1> QED
  BY <1>2, <1>3, HandlerChanges DEF Ask

\* A handler that gives up, whatever it awaits.
LEMMA TellsFailed ==
    ASSUME Inv, NEW r \in Request, InCall(r)
    PROVE  LET h == handlers[r]
               new == Tells(h, "failed")
           IN  /\ new \in Handler /\ Progress(new)
               /\ new.hash = h.hash /\ new.send = h.send
<1> DEFINE h == handlers[r]  new == Tells(h, "failed")
<1>1. h \in Handler /\ Progress(h) /\ h.phase \in Call
  BY DEF Inv, TypeOK, InCall
<1>2. new \in Handler
  BY <1>1, HandlerType DEF Answer
<1>3. /\ new.phase = "done" /\ new.hash = h.hash /\ new.send = h.send
      /\ new.asked = h.asked /\ new.answer = "failed"
  BY <1>1 DEF Progress, Tells, Handler, Call
<1>4. Progress(new)
  BY <1>1, <1>3 DEF Progress, Call
<1> QED
  BY <1>2, <1>3, <1>4

LEMMA UnavailableInv == ASSUME Inv, NEW r \in Request, Unavailable(r) PROVE Inv'
<1> DEFINE h == handlers[r]  new == [h EXCEPT !.at = @ + 1]
<1>1. h \in Handler /\ Progress(h) /\ InCall(r) /\ UNCHANGED chain
  BY DEF Inv, TypeOK, Unavailable
<1>2. CASE h.at < Endpoints
  <2>1. new \in Handler
    BY <1>1, <1>2, WithdrawAssumption DEF Handler, WithdrawAssumption
  <2>2. Progress(new) /\ new.hash = h.hash /\ new.send = h.send
    BY <1>1 DEF Progress, Handler, Signed
  <2>3. PutHandler(r, new)
    BY <1>2 DEF Unavailable
  <2> QED
    BY <1>1, <2>1, <2>2, <2>3, HandlerChanges
<1>3. CASE ~(h.at < Endpoints)
  <2>1. PutHandler(r, Tells(h, "failed"))
    BY <1>3 DEF Unavailable
  <2> QED
    BY <1>1, <2>1, TellsFailed, HandlerChanges
<1> QED
  BY <1>2, <1>3

LEMMA RejectedInv == ASSUME Inv, NEW r \in Request, Rejected(r) PROVE Inv'
<1>1. InCall(r) /\ PutHandler(r, Tells(handlers[r], "failed")) /\ UNCHANGED chain
  BY DEF Rejected
<1> QED
  BY <1>1, TellsFailed, HandlerChanges

LEMMA CallerLeavesInv == ASSUME Inv, NEW r \in Request, CallerLeaves(r) PROVE Inv'
<1> DEFINE h == handlers[r]  new == [h EXCEPT !.answer = "failed"]
<1>1. h \in Handler /\ Progress(h) /\ h.phase \in Call
  BY DEF Inv, TypeOK, CallerLeaves, InCall
<1>2. new \in Handler
  BY <1>1 DEF Handler, Answer
<1>3. Progress(new) /\ new.hash = h.hash /\ new.send = h.send
  BY <1>1 DEF Progress, Handler, Call
<1> QED
  BY <1>2, <1>3, HandlerChanges DEF CallerLeaves

\* What AfterBalance sends is there.
LEMMA Spendable ==
    ASSUME NEW asked \in Nat, NEW have \in 0..MaxBalance, MaxBalance \in Nat
    PROVE  LET spendable == have - FeeReserve
               send == IF asked = 0 THEN spendable ELSE asked
           IN  \/ send <= 0 \/ send > spendable
               \/ send \in 0..MaxBalance /\ send > 0 /\ asked \in {0, send}
<1>1. CASE asked = 0
  BY <1>1 DEF FeeReserve
<1>2. CASE asked # 0
  BY <1>2 DEF FeeReserve
<1> QED
  BY <1>1, <1>2

LEMMA AfterBalanceKeeps ==
    ASSUME Inv, NEW r \in Request, handlers[r].phase = "balance"
    PROVE  LET h == handlers[r]
               new == AfterBalance(h)
           IN  new \in Handler /\ Progress(new) /\ h.hash = 0
<1> DEFINE h == handlers[r]
           spendable == balance - FeeReserve
           send == IF h.asked = 0 THEN spendable ELSE h.asked
           sends == [h EXCEPT !.send = send]
<1>1. h \in Handler /\ Progress(h) /\ h.phase = "balance" /\ h.hash = 0
  BY DEF Inv, TypeOK, Progress
<1>2. CASE send <= 0 \/ send > spendable
  <2> DEFINE new == Tells(h, "refused")
  <2>1. AfterBalance(h) = new
    BY <1>2 DEF AfterBalance
  <2>2. new \in Handler
    BY <1>1, HandlerType DEF Answer
  <2>3. new.phase = "done" /\ new.hash = 0 /\ new.answer \in {"refused", "failed"}
    BY <1>1 DEF Tells, Handler, Progress
  <2>4. Progress(new)
    BY <2>3 DEF Progress
  <2> QED
    BY <1>1, <2>1, <2>2, <2>4
<1>3. CASE ~(send <= 0 \/ send > spendable)
  <2> DEFINE new == Goes(sends, "blockhash")
  <2>1. AfterBalance(h) = new
    BY <1>3 DEF AfterBalance
  <2>2. send \in 0..MaxBalance /\ send > 0 /\ h.asked \in {0, send}
    <3>1. h.asked \in Amounts
      BY <1>1 DEF Handler
    <3>2. h.asked \in Nat /\ balance \in 0..MaxBalance /\ MaxBalance \in Nat
      BY <3>1, WithdrawAssumption DEF WithdrawAssumption, Inv, TypeOK
    <3> QED
      BY <1>3, <3>2, Spendable
  <2>3. sends \in Handler
    BY <1>1, <2>2 DEF Handler
  <2>4. new \in Handler
    BY <2>3, HandlerType DEF Call
  <2>5. /\ new.phase = "blockhash" /\ new.hash = 0 /\ new.send = send
        /\ new.asked = h.asked /\ new.answer = h.answer
    BY <1>1, <2>2 DEF Goes, Handler
  <2>6. Progress(new)
    BY <1>1, <2>2, <2>5 DEF Progress
  <2> QED
    BY <1>1, <2>1, <2>4, <2>6
<1> QED
  BY <1>2, <1>3

LEMMA AfterPollKeeps ==
    ASSUME Inv, NEW r \in Request, handlers[r].phase = "poll"
    PROVE  LET h == handlers[r]
               new == AfterPoll(h)
           IN  /\ new \in Handler /\ Progress(new)
               /\ new.hash = h.hash /\ new.send = h.send
<1> DEFINE h == handlers[r]
           again == [h EXCEPT !.polls = @ + 1]
<1>1. h \in Handler /\ Progress(h) /\ h.phase = "poll"
  BY DEF Inv, TypeOK
<1>2. ASSUME NEW answer \in {"withdrawn", "tx_failed"},
             answer = "tx_failed" => Signed(h) \in errored
      PROVE  LET new == Tells(h, answer)
             IN  /\ new \in Handler /\ Progress(new)
                 /\ new.hash = h.hash /\ new.send = h.send
  <2> DEFINE new == Tells(h, answer)
  <2>1. new \in Handler
    BY <1>1, HandlerType DEF Answer
  <2>2. /\ new.phase = "done" /\ new.hash = h.hash /\ new.send = h.send
        /\ new.asked = h.asked /\ new.answer \in {answer, "failed"}
    BY <1>1 DEF Tells, Handler, Progress
  <2>3. Progress(new)
    BY <1>1, <1>2, <2>2 DEF Progress, Signed
  <2> QED
    BY <2>1, <2>2, <2>3
<1>3. CASE h.polls + 1 # MaxPolls
  <2> DEFINE new == Goes(again, "poll")
  <2>1. again \in Handler /\ again.polls < MaxPolls
    BY <1>1, <1>3, WithdrawAssumption DEF Progress, Handler, WithdrawAssumption
  <2>2. new \in Handler
    BY <2>1, HandlerType DEF Call
  <2>3. /\ new.phase = "poll" /\ new.hash = h.hash /\ new.send = h.send
        /\ new.asked = h.asked /\ new.answer = h.answer /\ new.polls = again.polls
    BY <1>1, <2>1 DEF Goes, Handler
  <2>4. Progress(new)
    BY <1>1, <2>1, <2>3 DEF Progress, Signed
  <2>5. \/ AfterPoll(h) \in {Tells(h, "withdrawn"), new}
        \/ AfterPoll(h) = Tells(h, "tx_failed") /\ Signed(h) \in errored
    BY <1>3 DEF AfterPoll
  <2> QED
    BY <1>2, <2>2, <2>3, <2>4, <2>5
<1>4. CASE h.polls + 1 = MaxPolls
  <2>1. \/ AfterPoll(h) = Tells(h, "withdrawn")
        \/ AfterPoll(h) = Tells(h, "tx_failed") /\ Signed(h) \in errored
    BY <1>4 DEF AfterPoll
  <2> QED
    BY <1>2, <2>1
<1> QED
  BY <1>3, <1>4

LEMMA AnsweredInv == ASSUME Inv, NEW r \in Request, Answered(r) PROVE Inv'
<1> DEFINE h == handlers[r]
<1>1. h \in Handler /\ Progress(h) /\ UNCHANGED chain
  BY DEF Inv, TypeOK, Answered
<1>2. CASE h.phase = "balance" /\ PutHandler(r, AfterBalance(h))
  BY <1>1, <1>2, AfterBalanceKeeps, HandlerChanges
<1>3. ASSUME h.phase = "blockhash", NEW hash \in 1..block,
             PutHandler(r, Goes([h EXCEPT !.hash = hash], "send"))
      PROVE  Inv'
  <2> DEFINE signs == [h EXCEPT !.hash = hash]  new == Goes(signs, "send")
  <2>1. signs \in Handler
    BY <1>1, WithdrawAssumption DEF Handler, Inv, TypeOK, WithdrawAssumption
  <2>2. new \in Handler
    BY <2>1, HandlerType DEF Call
  <2>3. /\ new.phase = "send" /\ new.hash = hash /\ new.send = h.send
        /\ new.asked = h.asked /\ new.answer = h.answer
    BY <1>1, <2>1 DEF Goes, Handler
  <2>4. Progress(new) /\ h.hash = 0
    BY <1>1, <1>3, <2>3, WithdrawAssumption DEF Progress, Inv, TypeOK, WithdrawAssumption
  <2> QED
    BY <1>1, <1>3, <2>2, <2>3, <2>4, HandlerChanges
<1>4. CASE h.phase = "send" /\ PutHandler(r, Goes([h EXCEPT !.polls = 0], "poll"))
  <2> DEFINE polls == [h EXCEPT !.polls = 0]  new == Goes(polls, "poll")
  <2>1. polls \in Handler
    BY <1>1, WithdrawAssumption DEF Handler, WithdrawAssumption
  <2>2. new \in Handler
    BY <2>1, HandlerType DEF Call
  <2>3. /\ new.phase = "poll" /\ new.hash = h.hash /\ new.send = h.send
        /\ new.asked = h.asked /\ new.answer = h.answer /\ new.polls = 0
    BY <1>1, <2>1 DEF Goes, Handler
  <2>4. Progress(new)
    BY <1>1, <1>4, <2>3, WithdrawAssumption DEF Progress, Signed, WithdrawAssumption
  <2> QED
    BY <1>1, <1>4, <2>2, <2>3, <2>4, HandlerChanges
<1>5. CASE h.phase = "poll" /\ PutHandler(r, AfterPoll(h))
  BY <1>1, <1>5, AfterPollKeeps, HandlerChanges
<1> QED
  BY <1>2, <1>3, <1>4, <1>5 DEF Answered

-----------------------------------------------------------------------------
(* Each action of the chain, and all of them.                                 *)

\* Transfers do not appear by themselves.
LEMMA ChainChanges ==
    ASSUME Inv, TypeOK', handlers' = handlers, Sent' \subseteq Sent,
           errored \subseteq errored', landed' \cap errored' = {}
    PROVE  Inv'
<1>1. TransfersAreServed'
  BY DEF Inv, TransfersAreServed, Serves
<1>2. \A r \in Request : Progress(handlers[r])'
  BY DEF Inv, Progress, Signed
<1> QED
  BY <1>1, <1>2 DEF Inv

LEMMA SendReachesInv == ASSUME Inv, NEW r \in Request, SendReaches(r) PROVE Inv'
<1> DEFINE h == handlers[r]  x == Signed(h)
<1>1. /\ h \in Handler /\ h.hash # 0 /\ pool' = pool \cup {x}
      /\ UNCHANGED <<handlers, block, balance, landed, errored, withdrawn>>
  BY DEF Inv, TypeOK, SendReaches, Progress
<1>2. x \in Signature /\ x.for = 0 /\ Serves(x, h)
  BY <1>1, WithdrawAssumption DEF Signed, Signature, Serves, Handler, WithdrawAssumption
<1>3. TypeOK'
  BY <1>1, <1>2 DEF Inv, TypeOK
<1>4. TransfersAreServed'
  BY <1>1, <1>2 DEF Inv, TransfersAreServed, Sent, Serves
<1>5. \A q \in Request : Progress(handlers[q])'
  BY <1>1 DEF Inv, Progress, Signed
<1> QED
  BY <1>1, <1>3, <1>4, <1>5 DEF Inv

LEMMA LandsInv == ASSUME Inv, NEW x \in pool, Lands(x) PROVE Inv'
<1> DEFINE cost == x.send + FeeReserve
<1>1. /\ x \notin landed \cup errored /\ pool' = pool \ {x} /\ UNCHANGED <<handlers, block>>
      /\ \/ /\ balance >= cost /\ balance' = balance - cost
            /\ withdrawn' = withdrawn + x.send
            /\ landed' = landed \cup {x} /\ errored' = errored
         \/ /\ errored' = errored \cup {x}
            /\ UNCHANGED <<balance, withdrawn, landed>>
  BY DEF Lands
<1>2. /\ x \in Signature /\ x.send \in Nat /\ balance \in 0..MaxBalance
      /\ withdrawn \in Nat /\ MaxBalance \in Nat
  BY WithdrawAssumption DEF Inv, TypeOK, Signature, WithdrawAssumption
<1>3. balance' \in 0..MaxBalance /\ withdrawn' \in Nat
  BY <1>1, <1>2 DEF FeeReserve
<1>4. TypeOK'
  BY <1>1, <1>2, <1>3 DEF Inv, TypeOK
<1>5. /\ Sent' \subseteq Sent /\ errored \subseteq errored'
      /\ landed' \cap errored' = {}
  BY <1>1 DEF Inv, Sent
<1> QED
  BY <1>1, <1>4, <1>5, ChainChanges

LEMMA OthersInv ==
    ASSUME Inv, (\E x \in pool : Expires(x)) \/ NewBlock \/ Spends \/ UNCHANGED vars
    PROVE  Inv'
<1>1. TypeOK'
  BY WithdrawAssumption
  DEF WithdrawAssumption, Inv, TypeOK, Expires, NewBlock, Spends, vars
<1>2. /\ handlers' = handlers /\ Sent' \subseteq Sent /\ landed' = landed
      /\ errored' = errored
  BY DEF Expires, NewBlock, Spends, vars, Sent
<1> QED
  BY <1>1, <1>2, ChainChanges DEF Inv

LEMMA NextInv == Inv /\ [Next]_vars => Inv'
  BY AskInv, SendReachesInv, AnsweredInv, UnavailableInv, RejectedInv, CallerLeavesInv,
     LandsInv, OthersInv
  DEF Next, HandlerStep

LEMMA WithdrawInv == Spec => []Inv
  BY InitInv, NextInv, PTL DEF Spec

\* The handlers stay within their bounds and the wallet never owes: balance is a
\* natural number, whatever was signed for it.
THEOREM WithdrawTypeCorrect == Spec => []TypeOK
  BY WithdrawInv, PTL DEF Inv

\* "It can never double-spend" (signer/withdraw.js:60): a request is not paid by two
\* transfers, however many endpoints, polls, requests and retries there are.
THEOREM WithdrawPaysOnce == Spec => []NeverPaidTwice
<1>1. Inv => NeverPaidTwice
  BY DEF Inv, NeverPaidTwice, TransfersAreServed, Sent, Serves, TypeOK, Signature
<1> QED
  BY <1>1, WithdrawInv, PTL

-----------------------------------------------------------------------------
(* The refinement: what the requests' handlers and the chain do is what       *)
(* Payment promises.                                                          *)

asked == [r \in Request |-> handlers[r].asked]
paid == [r \in Request |-> Paid(handlers[r])]
told == [r \in Request |-> handlers[r].answer]

\* No transfer serves a request that has no blockhash; a request that was paid
\* got what it asked for, and was not told that it may be repeated.
PaidRight(h) ==
    /\ h.hash = 0 => Paid(h) = 0
    /\ Paid(h) # 0 => /\ h.send = Paid(h) /\ h.hash # 0
                      /\ h.answer \notin {"refused", "tx_failed"}
    /\ \A x \in landed : Serves(x, h) => Paid(h) = x.send /\ x.send # 0

LEMMA PaidIsRight == Inv => \A r \in Request : PaidRight(handlers[r])
<1> SUFFICES ASSUME Inv, NEW r \in Request PROVE PaidRight(handlers[r])
  OBVIOUS
<1> DEFINE h == handlers[r]
<1>1. h \in Handler /\ Progress(h)
  BY DEF Inv, TypeOK
<1>2. h.hash = 0 => Paid(h) = 0
  BY DEF Paid, Serves
<1>3. ASSUME NEW x \in landed, Serves(x, h)
      PROVE  /\ Paid(h) = x.send /\ x.send # 0 /\ h.send = x.send /\ h.hash # 0
             /\ h.answer \notin {"refused", "tx_failed"}
  <2>1. Paid(h) = h.send /\ h.send = x.send /\ h.hash # 0 /\ x.hash = h.hash
    BY <1>3 DEF Paid, Serves
  <2>2. h.send \in Nat /\ h.send # 0
    BY <1>1, <2>1 DEF Progress, Handler
  <2>3. x \in Signature /\ x.for = 0
    BY DEF Inv, TypeOK, TransfersAreServed, Sent
  <2>4. x = Signed(h)
    BY <2>1, <2>3 DEF Signed, Signature
  <2>5. Signed(h) \notin errored
    BY <2>4 DEF Inv
  <2> QED
    BY <1>1, <2>1, <2>2, <2>5 DEF Progress
<1>4. Paid(h) # 0 => \E x \in landed : Serves(x, h)
  BY DEF Paid
<1> QED
  BY <1>2, <1>3, <1>4 DEF PaidRight

LEMMA PaidStaysRight == Inv' => \A r \in Request : PaidRight(handlers[r])'
<1>1. (Inv => \A r \in Request : PaidRight(handlers[r]))'
  BY PaidIsRight, PTL
<1> QED
  BY <1>1

LEMMA InitRefines == ASSUME Init PROVE Promise!Init
<1>1. PICK ask \in [Request -> Amounts] :
        handlers = [r \in Request |->
           [phase |-> "idle", at |-> 1, asked |-> ask[r], send |-> 0,
            hash |-> 0, polls |-> 0, answer |-> "none"]]
  BY DEF Init
<1>2. asked \in [Request -> Nat]
  BY <1>1, WithdrawAssumption DEF asked, WithdrawAssumption
<1>3. paid = [r \in Request |-> 0] /\ told = [r \in Request |-> "none"]
  BY <1>1 DEF paid, told, Paid, Init
<1> QED
  BY <1>2, <1>3 DEF Promise!Init, Init, asked, paid, told

\* A step of a handler either tells its caller something, or nothing and goes on.
Steps(h, new) ==
    /\ new.asked = h.asked
    /\ \/ /\ new.hash = h.hash /\ (new.send = h.send \/ h.hash = 0)
          /\ new.answer = h.answer \/ (h.answer = "none" /\ new.answer \in Answer)
       \/ h.hash = 0 /\ new.answer = h.answer

LEMMA HandlerSteps ==
    ASSUME Inv, NEW r \in Request, Ask(r) \/ HandlerStep(r) \/ CallerLeaves(r)
    PROVE  UNCHANGED chain /\ \E new : PutHandler(r, new) /\ Steps(handlers[r], new)
<1> DEFINE h == handlers[r]
<1>1. h \in Handler /\ Progress(h)
  BY DEF Inv, TypeOK
<1>2. UNCHANGED chain
  BY DEF Ask, HandlerStep, CallerLeaves, Answered, Unavailable, Rejected
<1>3. \A phase : Steps(h, Goes(h, phase))
  BY <1>1 DEF Steps, Goes, Handler
<1>4. \A answer \in Answer : Steps(h, Tells(h, answer))
  BY <1>1 DEF Steps, Tells, Handler
<1>5. \A at : Steps(h, [h EXCEPT !.at = at])
  BY <1>1 DEF Steps, Handler
<1>6. \A send : h.hash = 0 => Steps(h, Goes([h EXCEPT !.send = send], "blockhash"))
  BY <1>1 DEF Steps, Goes, Handler
<1>7. \A hash : h.hash = 0 => Steps(h, Goes([h EXCEPT !.hash = hash], "send"))
  BY <1>1 DEF Steps, Goes, Handler
<1>8. \A polls : Steps(h, Goes([h EXCEPT !.polls = polls], "poll"))
  BY <1>1 DEF Steps, Goes, Handler
<1>9. CASE Ask(r)
  BY <1>2, <1>3, <1>9 DEF Ask
<1>10. CASE Unavailable(r)
  BY <1>2, <1>4, <1>5, <1>10 DEF Unavailable, Answer
<1>11. CASE Rejected(r)
  BY <1>2, <1>4, <1>11 DEF Rejected, Answer
<1>12. CASE CallerLeaves(r)
  <2>1. Steps(h, [h EXCEPT !.answer = "failed"])
    BY <1>1, <1>12 DEF CallerLeaves, Steps, Handler, Answer
  <2> QED
    BY <1>2, <1>12, <2>1 DEF CallerLeaves
<1>13. CASE Answered(r)
  <2>1. CASE h.phase = "balance" /\ PutHandler(r, AfterBalance(h))
    <3>1. h.hash = 0
      BY <1>1, <2>1 DEF Progress
    <3>2. Steps(h, AfterBalance(h))
      BY <1>4, <1>6, <3>1 DEF AfterBalance, Answer
    <3> QED
      BY <1>2, <2>1, <3>2
  <2>2. CASE /\ h.phase = "blockhash"
             /\ \E hash \in 1..block :
                   PutHandler(r, Goes([h EXCEPT !.hash = hash], "send"))
    <3>1. h.hash = 0
      BY <1>1, <2>2 DEF Progress
    <3> QED
      BY <1>2, <1>7, <2>2, <3>1
  <2>3. CASE PutHandler(r, Goes([h EXCEPT !.polls = 0], "poll"))
    BY <1>2, <1>8, <2>3
  <2>4. CASE PutHandler(r, AfterPoll(h))
    <3>1. Steps(h, AfterPoll(h))
      BY <1>4, <1>8 DEF AfterPoll, Answer
    <3> QED
      BY <1>2, <2>4, <3>1
  <2> QED
    BY <1>13, <2>1, <2>2, <2>3, <2>4 DEF Answered
<1> QED
  BY <1>9, <1>10, <1>11, <1>12, <1>13 DEF HandlerStep

LEMMA HandlerRefines ==
    ASSUME Inv, Inv', NEW r \in Request, Ask(r) \/ HandlerStep(r) \/ CallerLeaves(r)
    PROVE  [Promise!Next]_(Promise!vars)
<1> DEFINE h == handlers[r]
<1>1. PICK new : PutHandler(r, new) /\ Steps(h, new)
  BY HandlerSteps
<1>2. UNCHANGED <<block, landed, errored, withdrawn>>
  BY HandlerSteps DEF chain
<1>3. /\ handlers \in [Request -> Handler]
      /\ handlers' = [handlers EXCEPT ![r] = new] /\ handlers'[r] = new
  BY <1>1 DEF PutHandler, Inv, TypeOK
<1>4. asked' = asked
  BY <1>1, <1>3 DEF asked, Steps
<1>5. PaidRight(h) /\ PaidRight(handlers[r])'
  BY PaidIsRight, PaidStaysRight
<1>6. /\ told[r] = h.answer /\ told'[r] = new.answer
      /\ paid[r] = Paid(h) /\ paid'[r] = Paid(handlers[r])'
      /\ asked[r] = h.asked /\ asked'[r] = new.asked
  BY <1>3 DEF told, paid, asked
<1>7. \A q \in Request \ {r} : paid'[q] = paid[q] /\ told'[q] = told[q]
  BY <1>2, <1>3 DEF paid, told, Paid, Serves
<1>8. /\ paid = [q \in Request |-> paid[q]] /\ paid' = [q \in Request |-> paid'[q]]
      /\ told = [q \in Request |-> told[q]] /\ told' = [q \in Request |-> told'[q]]
  BY DEF paid, told
<1>9. CASE /\ new.hash = h.hash /\ (new.send = h.send \/ h.hash = 0)
           /\ new.answer = h.answer \/ (h.answer = "none" /\ new.answer \in Answer)
  <2>1. paid'[r] = paid[r]
    BY <1>2, <1>3, <1>9 DEF paid, Paid, Serves
  <2>2. paid' = paid
    BY <1>7, <1>8, <2>1
  <2>3. CASE new.answer = h.answer
    BY <1>2, <1>4, <1>6, <1>7, <1>8, <2>2, <2>3
    DEF Promise!vars, asked, paid, told
  <2>4. CASE h.answer = "none" /\ new.answer \in Answer
    <3>1. told' = [told EXCEPT ![r] = new.answer]
      BY <1>6, <1>7, <1>8
    <3>2. new.answer \in {"refused", "tx_failed"} => paid[r] = 0
      BY <1>3, <1>5, <1>6, <2>1 DEF PaidRight
    <3>3. Promise!Tell(r, new.answer)
      BY <1>2, <1>4, <1>6, <2>2, <2>4, <3>1, <3>2
      DEF Promise!Tell, asked, paid, told
    <3> QED
      BY <2>4, <3>3 DEF Promise!Next
  <2> QED
    BY <1>9, <2>3, <2>4
<1>10. CASE h.hash = 0 /\ new.answer = h.answer
  <2>1. paid[r] = 0 /\ told' = told
    BY <1>5, <1>6, <1>7, <1>8, <1>10 DEF PaidRight
  <2>2. CASE paid'[r] = 0
    <3>1. paid' = paid
      BY <1>7, <1>8, <2>1, <2>2
    <3> QED
      BY <1>2, <1>4, <2>1, <3>1 DEF Promise!vars, asked, paid, told
  <2>3. CASE paid'[r] # 0
    <3>1. PICK x \in landed : Serves(x, new)
      BY <1>2, <1>3, <1>6, <2>3 DEF Paid, Serves
    <3>2. new.hash # 0 /\ new.send = paid'[r] /\ new.answer \notin {"refused", "tx_failed"}
      BY <1>3, <1>5, <1>6, <2>3 DEF PaidRight
    <3>3. PICK q \in Request : Serves(x, handlers[q])
      BY DEF Inv, TransfersAreServed, Sent
    <3>4. paid[q] = x.send /\ paid[q] # 0
      BY <3>3, PaidIsRight DEF PaidRight, paid
    <3>5. paid[q] = paid'[r]
      BY <3>1, <3>2, <3>4 DEF Serves
    <3>6. asked[r] \in {0, paid[q]}
      BY <1>1, <1>3, <1>6, <3>2, <3>5 DEF Inv, Progress, Steps
    <3>7. paid' = [paid EXCEPT ![r] = paid[q]]
      BY <1>7, <1>8, <3>5
    <3>8. Promise!Share(r, q)
      BY <1>2, <1>4, <1>6, <1>10, <2>1, <3>2, <3>4, <3>6, <3>7
      DEF Promise!Share, Promise!Asks, asked, paid, told
    <3> QED
      BY <3>8 DEF Promise!Next
  <2> QED
    BY <2>2, <2>3
<1> QED
  BY <1>1, <1>9, <1>10 DEF Steps

\* A transfer that lands pays every request it serves, and one that does not
\* pays none.
LEMMA LandsRefines ==
    ASSUME Inv, Inv', NEW x \in pool, Lands(x)
    PROVE  [Promise!Next]_(Promise!vars)
<1> DEFINE S == {r \in Request : Serves(x, handlers[r])}
<1>1. x \notin landed \cup errored /\ handlers' = handlers
  BY DEF Lands
<1>2. asked' = asked /\ told' = told
  BY <1>1 DEF asked, told
<1>3. x \in Signature /\ x.for = 0 /\ withdrawn \in Nat
  BY DEF Inv, TypeOK, TransfersAreServed, Sent
<1>4. CASE landed' = landed \cup {x} /\ withdrawn' = withdrawn + x.send
  <2>1. PICK q \in Request : Serves(x, handlers[q])
    BY DEF Inv, TransfersAreServed, Sent
  <2>2. x.send \in Nat /\ x.send > 0 /\ withdrawn' - withdrawn = x.send
    <3>1. handlers[q].send > 0 /\ x.send = handlers[q].send
      BY <2>1 DEF Inv, Progress, Serves
    <3> QED
      BY <1>3, <1>4, <3>1 DEF Signature
  <2>3. ASSUME NEW r \in S
        PROVE  paid[r] = 0 /\ asked[r] \in {0, x.send} /\ paid'[r] = x.send
               /\ told[r] \notin {"refused", "tx_failed"}
    <3>1. \A y \in landed : ~Serves(y, handlers[r])
      <4> SUFFICES ASSUME NEW y \in landed, Serves(y, handlers[r]) PROVE FALSE
        OBVIOUS
      <4>1. y \in Signature /\ y.for = 0
        BY DEF Inv, TypeOK, TransfersAreServed, Sent
      <4>2. y.send = x.send /\ y.hash = x.hash
        BY DEF Serves
      <4>3. y = x
        BY <1>3, <4>1, <4>2 DEF Signature
      <4> QED
        BY <1>1, <4>3
    <3>2. paid[r] = 0
      BY <3>1 DEF paid, Paid
    <3>3. paid'[r] = x.send
      BY <1>1, <1>4 DEF paid, Paid, Serves
    <3>4. asked[r] \in {0, x.send}
      BY DEF Inv, Progress, Serves, asked
    <3>5. PaidRight(handlers[r])'
      BY PaidStaysRight
    <3>6. told[r] \notin {"refused", "tx_failed"}
      BY <1>1, <2>2, <3>3, <3>5 DEF PaidRight, paid, told
    <3> QED
      BY <3>2, <3>3, <3>4, <3>6
  <2>4. \A r \in Request \ S : paid'[r] = paid[r]
    BY <1>1, <1>4 DEF paid, Paid, Serves
  <2>5. paid' = [r \in Request |-> IF r \in S THEN x.send ELSE paid[r]]
    BY <2>3, <2>4 DEF paid
  <2>6. Promise!Pay(S)
    BY <1>2, <2>1, <2>2, <2>3, <2>5 DEF Promise!Pay, Promise!Asks, asked, paid, told
  <2> QED
    BY <2>6 DEF Promise!Next
<1>5. CASE UNCHANGED <<balance, withdrawn, landed>>
  BY <1>1, <1>5 DEF Promise!vars, Paid, Serves
<1> QED
  BY <1>4, <1>5 DEF Lands

LEMMA NextRefines == Inv /\ Inv' /\ [Next]_vars => [Promise!Next]_(Promise!vars)
<1> SUFFICES ASSUME Inv, Inv', [Next]_vars PROVE [Promise!Next]_(Promise!vars)
  OBVIOUS
<1>1. ASSUME \/ \E r \in Request : SendReaches(r)
             \/ \E x \in pool : Expires(x)
             \/ NewBlock \/ Spends \/ UNCHANGED vars
      PROVE  UNCHANGED Promise!vars
  BY <1>1
  DEF SendReaches, Expires, NewBlock, Spends, vars, Promise!vars, Paid, Serves
<1> QED
  BY <1>1, HandlerRefines, LandsRefines DEF Next

\* "The amount asked for, to the owner, once": whatever the endpoints answer, in
\* whatever order handlers go on and transfers land, each request is paid at most
\* once and with what it asks for, one payment is for one withdrawal of the
\* wallet, and a request that was told "refused" or "tx_failed" is never paid.
THEOREM WithdrawRefines == Spec => Pays
<1>1. Init => Promise!Init
  BY InitRefines
<1> QED
  BY <1>1, WithdrawInv, NextRefines, PTL DEF Spec, Pays, Promise!Spec
=============================================================================
