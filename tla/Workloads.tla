----------------------------- MODULE Workloads ------------------------------
(* What an agent runs, and where: bundles are admitted by the control plane   *)
(* (control-plane/server.js), agents are placed on nodes that are isolated    *)
(* enough for them (lib/proto.js), and hosts pull, verify, unpack and run     *)
(* what they are sent (node-host/host.js, lib/bundle.js).                     *)
(*                                                                            *)
(* A bundle's id of an agent is chosen by its publisher, so an agent that was *)
(* destroyed can be created again under the same id, with other code: the     *)
(* only way to update an agent. Hosts and heartbeats know agents by id alone. *)
(*                                                                            *)
(* ControlPlane has the states of a record, budgets and the awaits of a       *)
(* heartbeat, NodeHost the order of starts and the signals. Here a heartbeat  *)
(* and its reply are one step and the starts it brings are worked off later,  *)
(* in any order, beside other heartbeats.                                     *)
EXTENDS Integers, FiniteSets

CONSTANTS
    Agent, Node, Owner, Sha,
    None,        \* no record, no node, no bundle (a built-in workload)
    Bundle,      \* the manifests that were signed
    Require,     \* spec.requireSandbox of each agent, as a rank
    Strength,    \* the isolation of each node's machine, as a rank
    FirstParty,  \* whom each host lets run outside a container
    Root,        \* hosts that can remove what was made read-only
    MaxLives,    \* bound on creations
    MaxFaults,   \* bound on crashes, exits, failed pulls, broken engines
    MaxOrders    \* bound on stops, hand-overs and changes of trust

\* SANDBOX_RANK
NodeRank == 1
OciRank == 2
Rank == 0..3

Manifest == [agent : Agent, publisher : Owner, sha : Sha, oci : BOOLEAN]

ASSUME WorkloadsAssumption ==
    /\ None \notin Agent \cup Node \cup Owner \cup Sha \cup Bundle
    /\ Bundle \subseteq Manifest
    /\ Require \in [Agent -> Rank] /\ Strength \in [Node -> Rank]
    /\ FirstParty \in [Node -> SUBSET Owner] /\ Root \subseteq Node
    /\ MaxLives \in Nat /\ MaxFaults \in Nat /\ MaxOrders \in Nat

Workload == Bundle \cup {None}

\* An agent's record, and a creation that waits for the signer.
Record == [owner : Owner, bundle : Workload, node : Node \cup {None}, wanted : BOOLEAN]
Creation == [agent : Agent, owner : Owner, bundle : Workload]

\* A process; a `child` was spawned since its host last started.
Process == [agent : Agent, bundle : Workload, child : BOOLEAN]

VARIABLES
    agents, creating,
    nodes,      \* what the control plane holds of each node
    engine,     \* whether a host's container engine works
    starts,     \* starts a host was sent and has not looked at
    pulls,      \* starts that wait for their bundle
    trees,      \* what is unpacked under each hash: nothing, a part, the whole
    procs,
    overtaken,  \* history: see RunsItsBundle
    weakened,   \* history: see Contained
    lives, faults, orders

vars == <<agents, creating, nodes, engine, starts, pulls, trees, procs, overtaken,
          weakened, lives, faults, orders>>

bounds == <<lives, faults, orders>>
host == <<starts, pulls, trees, procs>>

\* assertBundleOwnerBinding
Binds(b, o, a) == b # None => b.publisher = o /\ b.agent = a

\* A bundle is its owner's: "else the stored 'publisher == owner' invariant
\* silently breaks and the node would reject the bundle"
\* (control-plane/server.js:476). And no start a host works on is one it rejects.
TypeOK ==
    /\ agents \in [Agent -> Record \cup {None}]
    /\ \A a \in Agent : agents[a] # None => Binds(agents[a].bundle, agents[a].owner, a)
    /\ creating \subseteq Creation
    /\ nodes \in [Node -> [sandbox : Rank, trusted : BOOLEAN]]
    /\ engine \in [Node -> BOOLEAN]
    /\ starts \in [Node -> SUBSET Creation] /\ pulls \in [Node -> SUBSET Creation]
    /\ \A n \in Node : \A s \in starts[n] \cup pulls[n] : Binds(s.bundle, s.owner, s.agent)
    /\ trees \in [Node -> [Sha -> {"none", "part", "whole"}]]
    /\ procs \in [Node -> SUBSET Process]
    /\ overtaken \subseteq Agent /\ weakened \subseteq Node
    /\ lives \in 0..MaxLives /\ faults \in 0..MaxFaults /\ orders \in 0..MaxOrders

Oci(b) == b # None /\ b.oci

\* resolveSandbox, once in a host's life: what its machine offers.
Resolved(n) == IF engine[n] \/ Strength[n] <= NodeRank THEN Strength[n] ELSE NodeRank

\* All hosts have registered, and nobody is trusted.
Init ==
    /\ agents = [a \in Agent |-> None] /\ creating = {}
    /\ engine = [n \in Node |-> TRUE]
    /\ nodes = [n \in Node |-> [sandbox |-> Strength[n], trusted |-> FALSE]]
    /\ starts = [n \in Node |-> {}] /\ pulls = [n \in Node |-> {}]
    /\ trees = [n \in Node |-> [s \in Sha |-> "none"]]
    /\ procs = [n \in Node |-> {}]
    /\ overtaken = {} /\ weakened = {}
    /\ lives = 0 /\ faults = 0 /\ orders = 0

-----------------------------------------------------------------------------
(* Placement.                                                                 *)

\* The tier an agent needs: its runtime's, raised to what its owner insists on.
Need(a, b) ==
    LET floor == IF Oci(b) THEN OciRank ELSE NodeRank
    IN  IF Require[a] > floor THEN Require[a] ELSE floor

NodeSatisfies(n, a, b) ==
    b # None => nodes[n].sandbox >= Need(a, b) /\ (Oci(b) => nodes[n].trusted)

\* schedule: an agent on a node stays there, whatever has become of the node.
Scheduled(a, r) ==
    LET able == {n \in Node : NodeSatisfies(n, a, r.bundle)}
    IN  IF ~r.wanted \/ r.node # None \/ able = {} THEN {r}
        ELSE {[r EXCEPT !.node = n] : n \in able}

Put(a, r) == agents' = [agents EXCEPT ![a] = r]

Order == orders < MaxOrders /\ orders' = orders + 1

Start(a) ==
    /\ agents[a] # None
    /\ \E r \in Scheduled(a, [agents[a] EXCEPT !.wanted = TRUE]) : Put(a, r)
    /\ UNCHANGED <<creating, nodes, engine, host, overtaken, weakened, bounds>>

Stop(a) ==
    /\ agents[a] # None /\ agents[a].wanted
    /\ Order
    /\ Put(a, [agents[a] EXCEPT !.wanted = FALSE])
    /\ UNCHANGED <<creating, nodes, engine, host, overtaken, weakened, lives, faults>>

\* The sweep places an agent; its watchdog, or a node that is down, takes it off
\* its node first, and it may be placed there again.
Sweep(a, off) ==
    /\ agents[a] # None /\ agents[a].wanted
    /\ \E r \in Scheduled(a, [agents[a] EXCEPT !.node = IF off THEN None ELSE @]) :
        Put(a, r)
    /\ UNCHANGED <<creating, nodes, engine, host, overtaken, weakened, bounds>>

\* PUT /v1/nodes/:id/trust: nothing that is placed is moved.
Trust(n) ==
    /\ Order
    /\ nodes' = [nodes EXCEPT ![n].trusted = ~@]
    /\ weakened' = IF nodes[n].trusted THEN weakened \cup {n} ELSE weakened
    /\ UNCHANGED <<agents, creating, engine, host, overtaken, lives, faults>>

-----------------------------------------------------------------------------
(* Admission.                                                                 *)

\* A plausible bug: an id that is taken is left to the signer, which knows it.
Fresh(a, b) == TRUE

\* The id of an agent without a bundle is made up, and new.
Free(a, b) ==
    /\ agents[a] = None
    /\ IF b = None THEN \A c \in Bundle : c.agent # a ELSE b.agent = a

\* What is left of an agent on the hosts.
Remains(a) ==
    \E n \in Node : \E s \in starts[n] \cup pulls[n] \cup procs[n] : s.agent = a

\* POST /v1/agents up to the signer: is the id free, is the bundle the owner's?
CreateAsks(a, o, b) ==
    /\ lives < MaxLives /\ lives' = lives + 1
    /\ Free(a, b)
    /\ Binds(b, o, a)
    /\ creating' = creating \cup {[agent |-> a, owner |-> o, bundle |-> b]}
    /\ overtaken' = IF \E c \in creating : c.agent = a THEN overtaken \cup {a}
                    ELSE overtaken
    /\ UNCHANGED <<agents, nodes, engine, host, weakened, faults, orders>>

\* The signer has answered: the record is put, whatever the id names by now.
CreateReturns(c) ==
    /\ c \in creating
    /\ creating' = creating \ {c}
    /\ Put(c.agent, [owner |-> c.owner, bundle |-> c.bundle, node |-> None,
                     wanted |-> FALSE])
    /\ overtaken' = IF agents[c.agent] = None /\ Remains(c.agent)
                    THEN overtaken \cup {c.agent} ELSE overtaken
    /\ UNCHANGED <<nodes, engine, host, weakened, bounds>>

CreateFails(c) ==
    /\ c \in creating
    /\ creating' = creating \ {c}
    /\ UNCHANGED <<agents, nodes, engine, host, overtaken, weakened, bounds>>

\* A plausible bug: the binding is only looked at when an agent is created.
HandOverUnbound(a, o) ==
    /\ agents[a] # None
    /\ Order
    /\ Put(a, [agents[a] EXCEPT !.owner = o])
    /\ UNCHANGED <<creating, nodes, engine, host, overtaken, weakened, lives, faults>>

\* PUT /v1/agents/:id/owner; Custody has its call to the signer.
HandOver(a, o) ==
    /\ agents[a] # None
    /\ Binds(agents[a].bundle, o, a)
    /\ Order
    /\ Put(a, [agents[a] EXCEPT !.owner = o])
    /\ UNCHANGED <<creating, nodes, engine, host, overtaken, weakened, lives, faults>>

\* DELETE /v1/agents/:id; Custody has its call to the signer.
Delete(a) ==
    /\ agents[a] # None
    /\ Put(a, None)
    /\ UNCHANGED <<creating, nodes, engine, host, overtaken, weakened, bounds>>

-----------------------------------------------------------------------------
(* A host.                                                                    *)

Fault == faults < MaxFaults /\ faults' = faults + 1

Tracked(n) == {p \in procs[n] : p.child}

\* Wanted here, or not known by its id: what the heartbeat's reply goes by.
Belongs(a, n) == agents[a] # None /\ agents[a].node = n /\ agents[a].wanted

\* A heartbeat: what does not belong here is stopped, what is missing is started,
\* with the bundle and the owner on record.
Beat(n) ==
    LET missing == {a \in Agent : Belongs(a, n) /\ \A p \in Tracked(n) : p.agent # a}
    IN  /\ procs' = [procs EXCEPT ![n] = {p \in @ : p.child => Belongs(p.agent, n)}]
        /\ starts' = [starts EXCEPT ![n] = @ \cup
            {[agent |-> a, owner |-> agents[a].owner, bundle |-> agents[a].bundle]
                : a \in missing}]
        /\ UNCHANGED <<agents, creating, nodes, engine, pulls, trees, overtaken,
                       weakened, bounds>>

\* startAgent spawns what was resolved.
Spawned(n, s) ==
    [procs EXCEPT ![n] = @ \cup {[agent |-> s.agent, bundle |-> s.bundle, child |-> TRUE]}]

\* A plausible bug: any tree under the hash will do.
AnyTree(n, b) == b # None => trees[n][b.sha] # "none"

\* Built in, or unpacked with the marker of a whole tree.
AtHand(n, b) == b # None => trees[n][b.sha] = "whole"

\* Refused before a look at the bundle: started already, or a publisher who has
\* to use a container.
Refused(n, s) ==
    \/ \E p \in Tracked(n) : p.agent = s.agent
    \/ s.bundle # None /\ ~s.bundle.oci /\ s.bundle.publisher \notin FirstParty[n]

\* Refused with the tree at hand: an untrusted bundle and no container engine.
Uncontainable(n, b) == Oci(b) /\ ~engine[n]

Looks(n, s) ==
    /\ s \in starts[n]
    /\ starts' = [starts EXCEPT ![n] = @ \ {s}]
    /\ UNCHANGED <<agents, creating, nodes, engine, trees, overtaken, weakened, bounds>>

SkipStart(n, s) ==
    /\ Refused(n, s) \/ (AtHand(n, s.bundle) /\ Uncontainable(n, s.bundle))
    /\ Looks(n, s)
    /\ UNCHANGED <<pulls, procs>>

StartNow(n, s) ==
    /\ ~Refused(n, s) /\ AtHand(n, s.bundle) /\ ~Uncontainable(n, s.bundle)
    /\ Looks(n, s)
    /\ procs' = Spawned(n, s)
    /\ UNCHANGED pulls

StartPulls(n, s) ==
    /\ ~Refused(n, s) /\ ~AtHand(n, s.bundle)
    /\ Looks(n, s)
    /\ pulls' = [pulls EXCEPT ![n] = @ \cup {s}]
    /\ UNCHANGED procs

\* What is under a hash is removed before it is unpacked; a whole tree was made
\* read-only.
Removable(n, sha) == n \in Root \/ trees[n][sha] # "whole"

\* The bytes are here. They are verified against the manifest, the owner and the
\* id that came with the start, unpacked, marked and sealed, and run, with no
\* second look at the marker or at what runs already.
Pulled(n, s) ==
    LET usable == Binds(s.bundle, s.owner, s.agent) /\ Removable(n, s.bundle.sha)
    IN  /\ s \in pulls[n]
        /\ pulls' = [pulls EXCEPT ![n] = @ \ {s}]
        /\ trees' = IF usable THEN [trees EXCEPT ![n][s.bundle.sha] = "whole"] ELSE trees
        /\ procs' = IF usable /\ ~Uncontainable(n, s.bundle) THEN Spawned(n, s) ELSE procs
        /\ UNCHANGED <<agents, creating, nodes, engine, starts, overtaken, weakened, bounds>>

PullFails(n, s) ==
    /\ s \in pulls[n]
    /\ Fault
    /\ pulls' = [pulls EXCEPT ![n] = @ \ {s}]
    /\ UNCHANGED <<agents, creating, nodes, engine, starts, trees, procs, overtaken,
                   weakened, lives, orders>>

Exits(n, p) ==
    /\ p \in procs[n]
    /\ Fault
    /\ procs' = [procs EXCEPT ![n] = @ \ {p}]
    /\ UNCHANGED <<agents, creating, nodes, engine, starts, pulls, trees, overtaken,
                   weakened, lives, orders>>

\* The container engine of a host stops working, or works again.
EngineTurns(n) ==
    /\ Fault
    /\ engine' = [engine EXCEPT ![n] = ~@]
    /\ weakened' = weakened \cup {n}
    /\ UNCHANGED <<agents, creating, nodes, host, overtaken, lives, orders>>

\* A plausible bug: a node that registers is put on record anew.
RegistersAnew(n) == [nodes EXCEPT ![n] = [sandbox |-> Resolved(n), trusted |-> FALSE]]

\* upsertNode: the trust put into a node outlives its registrations.
Registers(n) == [nodes EXCEPT ![n].sandbox = Resolved(n)]

\* A host dies, perhaps while it unpacks a bundle, and starts again; its processes
\* live on as nobody's children.
HostRestarts(n, cut) ==
    /\ Fault
    /\ cut \subseteq {s.bundle.sha : s \in pulls[n]} /\ Cardinality(cut) <= 1
    /\ trees' = [trees EXCEPT ![n] =
        [sha \in Sha |-> IF sha \in cut /\ Removable(n, sha) THEN "part" ELSE @[sha]]]
    /\ starts' = [starts EXCEPT ![n] = {}] /\ pulls' = [pulls EXCEPT ![n] = {}]
    /\ procs' = [procs EXCEPT ![n] = {[p EXCEPT !.child = FALSE] : p \in @}]
    /\ nodes' = Registers(n)
    /\ UNCHANGED <<agents, creating, engine, overtaken, weakened, lives, orders>>

-----------------------------------------------------------------------------
ControlPlaneStep ==
    \/ \E a \in Agent :
        \/ Start(a) \/ Stop(a) \/ Delete(a)
        \/ \E off \in BOOLEAN : Sweep(a, off)
        \/ \E o \in Owner : HandOver(a, o) \/ \E b \in Workload : CreateAsks(a, o, b)
    \/ \E c \in creating : CreateReturns(c) \/ CreateFails(c)
    \/ \E n \in Node : Trust(n)

HostStep(n) ==
    \/ Beat(n) \/ EngineTurns(n)
    \/ \E s \in starts[n] : SkipStart(n, s) \/ StartNow(n, s) \/ StartPulls(n, s)
    \/ \E s \in pulls[n] : Pulled(n, s) \/ PullFails(n, s)
    \/ \E p \in procs[n] : Exits(n, p)
    \/ \E cut \in SUBSET Sha : HostRestarts(n, cut)

Next == ControlPlaneStep \/ \E n \in Node : HostStep(n)

Spec == Init /\ [][Next]_vars

-----------------------------------------------------------------------------
\* "The scheduler never hands us a bundle we can't contain" and an untrusted bundle
\* is placed "only on a node.trusted node" (node-host/host.js:321,
\* docs/SECURITY_REVIEW_2026-06-27.md:35): whatever registers, restarts or moves,
\* untrusted code runs on a trusted host with the isolation its owner asked for,
\* unless the host's trust was withdrawn or its engine broke at some time.
Contained ==
    \A n \in Node \ weakened : \A p \in procs[n] :
        /\ Oci(p.bundle) => nodes[n].trusted
        /\ p.bundle # None => Strength[n] >= Need(p.agent, p.bundle)

\* What runs under an agent's id is the bundle on the agent's record, also after
\* the id was destroyed and created again with other code; unless it was created
\* before the hosts were done with its last life, or by two requests at a time.
RunsItsBundle ==
    \A n \in Node : \A p \in procs[n] :
        agents[p.agent] # None /\ p.agent \notin overtaken
            => p.bundle = agents[p.agent].bundle

\* "No unverified bytes ever execute": the tree a process runs from stays whole,
\* although pulls of one hash overlap and hosts die in the middle of unpacking, on
\* a host that cannot undo its own seal.
RunsWholeTree ==
    \A n \in Node \ Root : \A p \in procs[n] :
        p.bundle # None => trees[n][p.bundle.sha] = "whole"
=============================================================================
