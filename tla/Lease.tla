------------------------------- MODULE Lease --------------------------------
(* What the session fence promises for each agent, whose wallet "at most one  *)
(* instance may trade" (README.md): the nodes that run an instance the signer *)
(* serves. The lease passes from node to node only through a moment at which  *)
(* nobody holds it, when a new session supersedes the one before.             *)
(*                                                                            *)
(* The promise ends when a session has gone astray: it was handed to a node   *)
(* it was not opened for, or is held by a process its host has forgotten.     *)
CONSTANTS Agent, Node

VARIABLES
    holders,   \* for each agent, the nodes whose instance may trade
    astray     \* the agents for which the promise has ended

vars == <<holders, astray>>

TypeOK == holders \in [Agent -> SUBSET Node] /\ astray \in SUBSET Agent

Init == holders = [a \in Agent |-> {}] /\ astray = {}

\* What a step may do for agent a.
Kept(a) == holders'[a] = holders[a]

\* A new session supersedes the one the holder has, or the holder is gone.
Revoked(a) == holders'[a] = {}

\* The node the session was opened for starts the instance that holds it.
Granted(a) == holders[a] = {} /\ \E n \in Node : holders'[a] = {n}

Next ==
    /\ holders' \in [Agent -> SUBSET Node]
    /\ astray' \in SUBSET Agent /\ astray \subseteq astray'
    /\ \A a \in Agent \ astray' : Kept(a) \/ Revoked(a) \/ Granted(a)

Spec == Init /\ [][Next]_vars

-----------------------------------------------------------------------------
\* "At most one instance may trade it", as long as no session went astray.
AtMostOne == \A a \in Agent \ astray : \A n, m \in holders[a] : n = m
=============================================================================
