------------------------------ MODULE Payment -------------------------------
(* What the owner's withdrawals promise (signer/withdraw.js), whatever the    *)
(* RPC endpoints do: each request is paid at most once, with the amount asked *)
(* for, and one that was turned down for good is not paid at all. Requests    *)
(* for the same amount may share one payment.                                 *)
EXTENDS Integers

CONSTANTS Request, Answer, Final   \* answers, and those that turn a request down

VARIABLES
    asked,      \* the amount each request asks for, 0 for all there is
    paid,       \* the amount that was paid for it, 0 if none
    told,       \* what its caller was told
    withdrawn   \* what left the wallet in all

vars == <<asked, paid, told, withdrawn>>

Init ==
    /\ asked \in [Request -> Nat]
    /\ paid = [r \in Request |-> 0]
    /\ told = [r \in Request |-> "none"]
    /\ withdrawn = 0

Asks(r, amount) == asked[r] \in {0, amount} /\ told[r] \notin Final

\* One payment for the requests of S.
Pay(S) ==
    LET amount == withdrawn' - withdrawn
    IN  /\ S # {} /\ amount > 0
        /\ \A r \in S : paid[r] = 0 /\ Asks(r, amount)
        /\ paid' = [r \in Request |-> IF r \in S THEN amount ELSE paid[r]]
        /\ UNCHANGED <<asked, told>>

\* Request r turns out to be for a payment already made.
Share(r, q) ==
    /\ paid[r] = 0 /\ paid[q] # 0 /\ Asks(r, paid[q])
    /\ paid' = [paid EXCEPT ![r] = paid[q]]
    /\ UNCHANGED <<asked, told, withdrawn>>

Tell(r, answer) ==
    /\ told[r] = "none"
    /\ answer \in Final => paid[r] = 0
    /\ told' = [told EXCEPT ![r] = answer]
    /\ UNCHANGED <<asked, paid, withdrawn>>

Next ==
    \/ \E S \in SUBSET Request : Pay(S)
    \/ \E r, q \in Request : Share(r, q)
    \/ \E r \in Request, answer \in Answer : Tell(r, answer)

Spec == Init /\ [][Next]_vars
=============================================================================
