------------------------------ MODULE MCGates -------------------------------
(* An instance of OwnerAuth and one of VerifiedIntents for TLC: a behaviour   *)
(* is about one or the other.                                                 *)
EXTENDS OwnerAuth, VerifiedIntents, TLC

CONSTANTS price, mint, verdict

\* Requests of two clients; one nonce is used twice, by mistake or in vain.
MCRequest ==
    {[owner |-> "o1", ts |-> 2, nonce |-> "k1", good |-> TRUE],
     [owner |-> "o1", ts |-> 3, nonce |-> "k2", good |-> TRUE],
     [owner |-> "o1", ts |-> 5, nonce |-> "k3", good |-> TRUE],
     [owner |-> "o2", ts |-> 3, nonce |-> "k1", good |-> FALSE]}

\* Buy the mint a quote names for 1 if its price is below 2 and the model agrees.
MCRule ==
    [id |-> "dip",
     when |-> {[input |-> price, op |-> "<", value |-> Num(2)],
               [input |-> verdict, op |-> "==", value |-> Text(9)]},
     then |-> [kind |-> "buy", token |-> None, tokenInput |-> mint,
               size |-> Num(1), sizeInput |-> None],
     requires |-> {price, verdict}]

Quote(p, ts, nonce, genuine) ==
    [kind |-> "signed-quote", by |-> "api", genuine |-> genuine, ts |-> ts, nonce |-> nonce,
     says |-> [i \in Input |-> CASE i = price -> Num(p) [] i = mint -> Text(7) [] OTHER -> None]]

Receipt(by, ts, nonce) ==
    [kind |-> "inference-receipt", by |-> by, genuine |-> TRUE, ts |-> ts, nonce |-> nonce,
     says |-> [i \in Input |-> Text(9)]]

Q1 == Quote(1, 1, "q1", TRUE)
Q2 == Quote(1, 4, "q2", TRUE)
Q3 == Quote(5, 2, "q3", TRUE)
R1 == Receipt("mesh", 2, "r1")
R2 == Receipt("mesh", 4, "r2")

Asks(p, m, size, evidence) ==
    [rule |-> "dip", evidence |-> evidence,
     inputs |-> [i \in Input |-> CASE i = price -> Num(p) [] i = mint -> m [] i = verdict -> Text(9)],
     intent |-> [kind |-> "buy", token |-> m, size |-> size]]

MCProposal ==
    {Asks(1, Text(7), Num(1), <<Q1, R1>>), Asks(1, Text(7), Num(1), <<Q2, R2>>),
     Asks(1, Text(8), Num(1), <<R2, Q1>>),
     Asks(1, Text(7), Num(1), <<R1, R1, Q1>>),
     Asks(1, Text(7), Num(1), <<Q3, R2>>),
     Asks(5, Text(7), Num(1), <<Q3, R1>>),
     Asks(1, Text(7), Num(2), <<Q2, R1>>),
     Asks(1, Text(7), Num(1), <<Quote(1, 3, "q4", FALSE), R1>>),
     Asks(1, Text(7), Num(1), <<Q2, Receipt("api", 3, "r3")>>),
     [Asks(1, Text(7), Num(1), <<Q1, R2>>) EXCEPT !.rule = "other"]}

VARIABLE about

vars == <<about, now, authVars, gateVars>>

Init == about \in {"requests", "intents"} /\ now = 0 /\ AuthInit /\ GateInit

Next ==
    /\ UNCHANGED about
    /\ \/ about = "requests" /\ AuthNext /\ UNCHANGED gateVars
       \/ about = "intents" /\ GateNext /\ UNCHANGED authVars

Spec == Init /\ [][Next]_vars
=============================================================================
