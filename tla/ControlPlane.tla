---------------------------- MODULE ControlPlane ----------------------------
(* The control plane (control-plane/server.js) places agents on operator      *)
(* nodes: it answers start and stop requests, sweeps every five seconds, and  *)
(* reconciles with each node in the node's heartbeat. Before a start is pushed*)
(* to a node it opens a session at the signer, so that the previous placement *)
(* is fenced out.                                                             *)
(*                                                                            *)
(* One process, one event loop: a handler runs alone until it awaits. Here    *)
(* `turn` is whoever holds the loop; the heartbeat handler gives it up while  *)
(* it awaits the signer, and start, stop, delete, sweeps and other heartbeats *)
(* run in between.                                                            *)
(*                                                                            *)
(* Hosts (node-host/host.js) and the signer's session route are modelled as   *)
(* far as the control plane sees them: the set a host reports, the starts and *)
(* stops it applies, and an epoch per agent.                                  *)
EXTENDS Integers, FiniteSets

CONSTANTS
    Agent, Node,
    NoAgent, NoNode,  \* null
    Idle, Sweeper,    \* holders of the event loop besides the nodes' handlers
    Budgets,          \* values of budget.maxAgents
    Satisfies,        \* [node, agent] pairs with nodeSatisfies(node, agent)
    CanRun,           \* each a set of pairs whose start succeeds on the host
    StuckMin,         \* an agent may be older than STUCK_MS after, and
    StuckMax,         \*   surely is after, so many heartbeats of its node
    MaxEpoch,         \* bound on sessions opened per agent
    MaxFaults,        \* bound on silent nodes, restarts and lost replies
    MaxStops,         \* bound on stop requests and deletions
    MaxRestarts       \* bound on restarts of the control plane

ASSUME ControlPlaneAssumption ==
    /\ IsFiniteSet(Agent) /\ IsFiniteSet(Node)
    /\ NoAgent \notin Agent /\ NoNode \notin Node
    /\ Idle \notin Node /\ Sweeper \notin Node /\ Idle # Sweeper
    /\ Budgets \subseteq Nat /\ Budgets # {}
    /\ Satisfies \subseteq Node \X Agent
    /\ CanRun # {} /\ \A can \in CanRun : can \subseteq Satisfies
    /\ StuckMin \in Nat /\ StuckMax \in Nat /\ StuckMin <= StuckMax
    /\ MaxEpoch \in Nat /\ MaxFaults \in Nat
    /\ MaxStops \in Nat /\ MaxRestarts \in Nat

\* STATE of lib/proto.js
AgentState == {"pending", "scheduled", "running", "stopping", "stopped", "failed"}

\* An agent's record. `known` is whether the store lists it; `age` stands for
\* now() - placedAt, counted in heartbeats of the node it was placed on.
\* Epoch 0 is "no session". placeAttempts only feeds a log line.
AgentRecord ==
    [known : BOOLEAN, desired : {"running", "stopped"}, state : AgentState,
     node : Node \cup {NoNode}, failed : SUBSET Node, age : 0..StuckMax,
     session : [epoch : Nat, node : Node \cup {NoNode}]]

\* A node's record; `quiet` stands for now() - lastSeen > NODE_TIMEOUT_MS.
\* `runs` are the agents the node's host manages to start.
NodeRecord ==
    [status : {"up", "down"}, max : Nat, quiet : BOOLEAN, runs : SUBSET Agent]

\* What the state file keeps. `quiet` and `runs` are not the control plane's.
DiskRecord ==
    [agents : [Agent -> AgentRecord], status : [Node -> {"up", "down"}],
     max : [Node -> Nat]]

\* A start assignment: the agent and the epoch of the signer block in it.
StartType == [agent : Agent, epoch : Nat]

\* The heartbeat handler of one node, and then its reply on the way.
BeatRecord ==
    [phase : {"idle", "loop", "opening", "opened", "reply"},
     todo : SUBSET Agent,           \* what is left of the listAgents snapshot
     current : Agent \cup {NoAgent},\* the agent whose session is being opened
     asked : Node \cup {NoNode},     \* the node it is opened for
     got : Nat,                     \* the epoch the signer answered
     free : Int, reported : SUBSET Agent,
     starts : SUBSET StartType, stops : SUBSET Agent]

VARIABLES
    agents, nodes,    \* the store
    turn,             \* who holds the event loop
    placing,          \* agents the sweep has still to schedule
    beats,            \* the heartbeat handlers
    signer,           \* the epoch of each agent's current session at the signer
    late,             \* calls to open a session given up on and still to be served
    procs,            \* what each host runs, with the epoch it was given
    budget,           \* what each host takes by its own configuration
    disk,             \* the store as it was last persisted
    strayed,          \* history: agents whose session may have reached two nodes
    faults, stops, restarts

vars == <<agents, nodes, turn, placing, beats, signer, late, procs, budget, disk,
          strayed, faults, stops, restarts>>
hosts    == <<procs, budget>>
sessions == <<signer, late>>
counters == <<faults, stops, restarts>>

NoBeat ==
    [phase |-> "idle", todo |-> {}, current |-> NoAgent, asked |-> NoNode,
     got |-> 0, free |-> 0, reported |-> {}, starts |-> {}, stops |-> {}]

TypeOK ==
    /\ agents \in [Agent -> AgentRecord]
    /\ nodes \in [Node -> NodeRecord]
    /\ turn \in Node \cup {Idle, Sweeper}
    /\ placing \subseteq Agent
    /\ beats \in [Node -> BeatRecord]
    /\ signer \in [Agent -> Nat]
    /\ procs \in [Node -> SUBSET StartType]
    /\ late \in [Agent -> Nat]
    /\ budget \in [Node -> Nat]
    /\ disk \in DiskRecord
    /\ strayed \subseteq Agent
    /\ faults \in 0..MaxFaults /\ stops \in 0..MaxStops
    /\ restarts \in 0..MaxRestarts

\* The state file as persist() writes it, from the maps it is given.
Image(as, ns) ==
    [agents |-> as, status |-> [n \in Node |-> ns[n].status],
     max |-> [n \in Node |-> ns[n].max]]

Persist == disk' = Image(agents', nodes')

\* Agents are created stopped; the nodes have registered.
Init ==
    /\ agents = [a \in Agent |->
          [known |-> TRUE, desired |-> "stopped", state |-> "pending",
           node |-> NoNode, failed |-> {}, age |-> 0,
           session |-> [epoch |-> 0, node |-> NoNode]]]
    /\ budget \in [Node -> Budgets]
    /\ \E can \in CanRun :
          nodes = [n \in Node |->
             [status |-> "up", max |-> budget[n], quiet |-> FALSE,
              runs |-> {a \in Agent : <<n, a>> \in can}]]
    /\ turn = Idle /\ placing = {}
    /\ beats = [n \in Node |-> NoBeat]
    /\ signer = [a \in Agent |-> 0]
    /\ late = [a \in Agent |-> 0]
    /\ procs = [n \in Node |-> {}]
    /\ disk = Image(agents, nodes)
    /\ strayed = {}
    /\ faults = 0 /\ stops = 0 /\ restarts = 0

-----------------------------------------------------------------------------
(* Placement.                                                                 *)

\* listAgents()
Listed == {a \in Agent : agents[a].known}

Wanted(r) == r.desired = "running"

CountAssigned(n) ==
    Cardinality({a \in Listed : agents[a].node = n /\ Wanted(agents[a])})

Free(n) == nodes[n].max - CountAssigned(n)

\* Nodes that could take agent a, other than those in `avoid`.
Candidates(a, avoid) ==
    {n \in Node \ avoid : /\ nodes[n].status = "up"
                          /\ <<n, a>> \in Satisfies
                          /\ Free(n) > 0}

\* pickNode: the candidates with the most room. Ties go to the node that
\* registered first, which is any of them.
Picks(a, avoid) ==
    {n \in Candidates(a, avoid) :
        \A m \in Candidates(a, avoid) : Free(m) <= Free(n)}

\* A plausible bug: the nodes that failed an agent are not avoided.
AvoidNone(a, failed) == {}

\* If every node that could take it has failed it, try them all again.
Avoid(a, failed) == IF Picks(a, failed) = {} THEN {} ELSE failed

\* A plausible bug: schedule keeps an agent on its node even if that is down.
OnNode(r) == r.node # NoNode

OnLiveNode(r) == r.node # NoNode /\ nodes[r.node].status = "up"

\* schedule(agent), for an agent whose record is r; r' is the record after.
Scheduled(a, r) ==
    LET avoid == Avoid(a, r.failed)
        picks == Picks(a, avoid)
    IN  IF ~Wanted(r) \/ OnLiveNode(r) THEN {r}
        ELSE IF picks = {}
             THEN {[r EXCEPT !.node = NoNode, !.state = "pending", !.failed = avoid]}
             ELSE {[r EXCEPT !.node = n, !.state = "scheduled", !.failed = avoid,
                             !.age = 0] : n \in picks}

Put(a, r) == agents' = [agents EXCEPT ![a] = r]

-----------------------------------------------------------------------------
(* Requests of the owner.                                                     *)

\* POST /v1/agents/:id/start
Start(a) ==
    /\ turn = Idle
    /\ agents[a].known
    /\ LET r == [agents[a] EXCEPT
                    !.desired = "running",
                    !.state = IF @ \in {"stopped", "failed"} THEN "pending" ELSE @]
       IN  \E s \in Scheduled(a, r) : Put(a, s)
    /\ UNCHANGED nodes
    /\ Persist
    /\ UNCHANGED <<turn, placing, beats, sessions, hosts, strayed, counters>>

\* POST /v1/agents/:id/stop: the agent keeps its node until that reports it gone.
Stop(a) ==
    /\ turn = Idle
    /\ agents[a].known
    /\ stops < MaxStops
    /\ stops' = stops + 1
    /\ Put(a, [agents[a] EXCEPT
                  !.desired = "stopped",
                  !.state = IF @ = "running" THEN "stopping" ELSE "stopped"])
    /\ UNCHANGED nodes
    /\ Persist
    /\ UNCHANGED <<turn, placing, beats, sessions, hosts, strayed, faults, restarts>>

\* DELETE /v1/agents/:id, once the signer has destroyed the wallet.
Delete(a) ==
    /\ turn = Idle
    /\ agents[a].known
    /\ stops < MaxStops
    /\ stops' = stops + 1
    /\ Put(a, [agents[a] EXCEPT !.known = FALSE])
    /\ UNCHANGED nodes
    /\ Persist
    /\ UNCHANGED <<turn, placing, beats, sessions, hosts, strayed, faults, restarts>>

-----------------------------------------------------------------------------
(* The sweep.                                                                 *)

\* First pass: nodes that have been silent go down and lose their agents. Second
\* pass, the watchdog: agents scheduled for too long are taken off their node.
\* Which of them are older than STUCK_MS is between StuckMin and StuckMax.
SweepBegins(stuck) ==
    LET down == {n \in Node : nodes[n].status = "up" /\ nodes[n].quiet}
        lost == {a \in Listed : Wanted(agents[a]) /\ agents[a].node \in down}
        due(age) == {a \in Listed \ lost :
                        /\ Wanted(agents[a]) /\ agents[a].state = "scheduled"
                        /\ agents[a].node # NoNode
                        /\ agents[a].age >= age}
        swept(a) ==
            IF a \in lost
            THEN [agents[a] EXCEPT !.state = "failed", !.node = NoNode]
            ELSE IF a \in stuck
            THEN [agents[a] EXCEPT !.failed = @ \cup {agents[a].node},
                                   !.node = NoNode, !.state = "pending"]
            ELSE agents[a]
    IN  /\ turn = Idle
        /\ due(StuckMax) \subseteq stuck /\ stuck \subseteq due(StuckMin)
        /\ nodes' = [n \in Node |-> IF n \in down
                                    THEN [nodes[n] EXCEPT !.status = "down"]
                                    ELSE nodes[n]]
        /\ agents' = [a \in Agent |-> swept(a)]
        /\ placing' = {a \in Agent :
                          /\ swept(a).known /\ Wanted(swept(a))
                          /\ \/ swept(a).node = NoNode
                             \/ swept(a).state \in {"pending", "failed"}}
        /\ turn' = IF placing' = {} THEN Idle ELSE Sweeper
        /\ IF placing' = {} /\ (down # {} \/ stuck # {})
           THEN Persist ELSE UNCHANGED disk
        /\ UNCHANGED <<beats, sessions, hosts, strayed, counters>>

\* Third pass: schedule each agent that has no node or waits for one.
SweepPlaces(a) ==
    /\ turn = Sweeper
    /\ a \in placing
    /\ \E s \in Scheduled(a, agents[a]) : Put(a, s)
    /\ placing' = placing \ {a}
    /\ turn' = IF placing' = {} THEN Idle ELSE Sweeper
    /\ UNCHANGED nodes
    /\ IF placing' = {} THEN Persist ELSE UNCHANGED disk
    /\ UNCHANGED <<beats, sessions, hosts, strayed, counters>>

-----------------------------------------------------------------------------
(* The heartbeat of node n.                                                   *)

PutBeat(n, b) == beats' = [beats EXCEPT ![n] = b]

\* The handler starts: it snapshots the agents of this node and what the node
\* says it runs.
BeatArrives(n) ==
    LET running == {p.agent : p \in procs[n]}
    IN  /\ turn = Idle
        /\ beats[n].phase = "idle"
        /\ turn' = n
        /\ nodes' = [nodes EXCEPT ![n].status = "up", ![n].quiet = FALSE]
        /\ PutBeat(n, [NoBeat EXCEPT
                          !.phase = "loop",
                          !.todo = {a \in Listed : agents[a].node = n},
                          !.free = nodes[n].max - Cardinality(running),
                          !.reported = running])
        /\ UNCHANGED <<agents, placing, sessions, hosts, disk, strayed, counters>>

\* The loop takes the next agent of the snapshot; its record is read now.
Looping(n, a) == turn = n /\ beats[n].phase = "loop" /\ a \in beats[n].todo

ToStart(n, a) == Wanted(agents[a]) /\ a \notin beats[n].reported

StartOf(a) == [agent |-> a, epoch |-> agents[a].session.epoch]

\* A plausible bug: the full node is remembered as one to avoid, whichever node
\* the agent has by now.
BounceAvoiding(n, a) ==
    /\ Looping(n, a)
    /\ ToStart(n, a)
    /\ beats[n].free <= 0
    /\ Put(a, [agents[a] EXCEPT !.node = NoNode, !.state = "pending",
                                !.failed = @ \cup {agents[a].node}])
    /\ PutBeat(n, [beats[n] EXCEPT !.todo = @ \ {a}])
    /\ UNCHANGED <<nodes, turn, placing, sessions, hosts, disk, strayed, counters>>

\* A plausible bug: the agent loses its node but is still taken for scheduled.
BounceScheduled(n, a) ==
    /\ Looping(n, a)
    /\ ToStart(n, a)
    /\ beats[n].free <= 0
    /\ Put(a, [agents[a] EXCEPT !.node = NoNode])
    /\ PutBeat(n, [beats[n] EXCEPT !.todo = @ \ {a}])
    /\ UNCHANGED <<nodes, turn, placing, sessions, hosts, disk, strayed, counters>>

\* The node is at its budget: back to the scheduler.
Bounce(n, a) ==
    /\ Looping(n, a)
    /\ ToStart(n, a)
    /\ beats[n].free <= 0
    /\ Put(a, [agents[a] EXCEPT !.node = NoNode, !.state = "pending"])
    /\ PutBeat(n, [beats[n] EXCEPT !.todo = @ \ {a}])
    /\ UNCHANGED <<nodes, turn, placing, sessions, hosts, disk, strayed, counters>>

\* A plausible bug: any session will do, whichever node it was opened for.
SessionOpened(r) == r.node = NoNode \/ r.session.epoch # 0

\* ensureSession has nothing to do.
SessionCurrent(r) ==
    r.node = NoNode \/ (r.session.epoch # 0 /\ r.session.node = r.node)

\* Whether a start of node n takes another node's session with it.
Foreign(n, session) == session.epoch # 0 /\ session.node # n

Stray(a, astray) == strayed' = IF astray THEN strayed \cup {a} ELSE strayed

PushStart(n, a) ==
    /\ Looping(n, a)
    /\ ToStart(n, a)
    /\ beats[n].free > 0
    /\ SessionCurrent(agents[a])
    /\ PutBeat(n, [beats[n] EXCEPT !.todo = @ \ {a}, !.free = @ - 1,
                                   !.starts = @ \cup {StartOf(a)}])
    /\ Stray(a, agents[a].node # n /\ Foreign(n, agents[a].session))
    /\ UNCHANGED <<agents, nodes, turn, placing, sessions, hosts, disk, counters>>

\* A plausible bug: room is only taken once the session is there.
AskSessionRoomy(n, a) ==
    /\ Looping(n, a)
    /\ ToStart(n, a)
    /\ beats[n].free > 0
    /\ ~SessionCurrent(agents[a])
    /\ PutBeat(n, [beats[n] EXCEPT !.todo = @ \ {a}, !.phase = "opening",
                                   !.current = a, !.asked = agents[a].node])
    /\ turn' = Idle
    /\ UNCHANGED <<agents, nodes, placing, sessions, hosts, disk, strayed, counters>>

\* ensureSession asks the signer for a session and awaits the answer.
AskSession(n, a) ==
    /\ Looping(n, a)
    /\ ToStart(n, a)
    /\ beats[n].free > 0
    /\ ~SessionCurrent(agents[a])
    /\ PutBeat(n, [beats[n] EXCEPT !.todo = @ \ {a}, !.free = @ - 1,
                                   !.phase = "opening", !.current = a,
                                   !.asked = agents[a].node])
    /\ turn' = Idle
    /\ UNCHANGED <<agents, nodes, placing, sessions, hosts, disk, strayed, counters>>

\* The signer opens the session.
SignerOpens(n) ==
    LET a == beats[n].current
    IN  /\ beats[n].phase = "opening"
        /\ agents[a].known
        /\ signer[a] + late[a] < MaxEpoch
        /\ signer' = [signer EXCEPT ![a] = @ + 1]
        /\ PutBeat(n, [beats[n] EXCEPT !.phase = "opened", !.got = signer[a] + 1])
        /\ UNCHANGED <<agents, nodes, turn, placing, late, hosts, disk, strayed, counters>>

\* The signer gets to a call the control plane no longer waits for.
SignerOpensLate(a) ==
    /\ late[a] > 0
    /\ agents[a].known
    /\ late' = [late EXCEPT ![a] = @ - 1]
    /\ signer' = [signer EXCEPT ![a] = @ + 1]
    /\ UNCHANGED <<agents, nodes, turn, placing, beats, hosts, disk, strayed, counters>>

\* The answer arrives: the session is recorded for the node the agent has now,
\* and the start is pushed to the node whose heartbeat this is.
OpenReturns(n) ==
    LET a == beats[n].current
        session == [epoch |-> beats[n].got, node |-> agents[a].node]
    IN  /\ turn = Idle
        /\ beats[n].phase = "opened"
        /\ Put(a, [agents[a] EXCEPT !.session = session])
        /\ PutBeat(n, [beats[n] EXCEPT
              !.phase = "loop", !.current = NoAgent, !.asked = NoNode, !.got = 0,
              !.starts = @ \cup {[agent |-> a, epoch |-> beats[n].got]}])
        /\ turn' = n
        /\ UNCHANGED nodes
        /\ Persist
        /\ Stray(a, beats[n].asked # n \/ agents[a].node \notin {n, NoNode})
        /\ UNCHANGED <<placing, sessions, hosts, counters>>

\* A call that is given up on while it is under way may still be served.
GivenUp(a, n) == late' = IF n = 0 THEN late ELSE [late EXCEPT ![a] = @ + n]

\* The call fails or times out, before or after the signer opened the session:
\* the start is pushed with the session on record, if any.
OpenFails(n) ==
    LET a == beats[n].current
    IN  /\ turn = Idle
        /\ beats[n].phase \in {"opening", "opened"}
        /\ PutBeat(n, [beats[n] EXCEPT
              !.phase = "loop", !.current = NoAgent, !.asked = NoNode, !.got = 0,
              !.starts = @ \cup {StartOf(a)}])
        /\ turn' = n
        /\ \/ GivenUp(a, 0)
           \/ /\ beats[n].phase = "opening"
              /\ signer[a] + late[a] < MaxEpoch
              /\ GivenUp(a, 1)
        /\ Stray(a, Foreign(n, agents[a].session))
        /\ UNCHANGED <<agents, nodes, placing, signer, hosts, disk, counters>>

\* The node runs what it should: confirmed, and past failures are forgotten.
Confirm(n, a) ==
    /\ Looping(n, a)
    /\ Wanted(agents[a]) /\ a \in beats[n].reported
    /\ Put(a, [agents[a] EXCEPT !.state = "running", !.failed = {}])
    /\ PutBeat(n, [beats[n] EXCEPT !.todo = @ \ {a}])
    /\ UNCHANGED <<nodes, turn, placing, sessions, hosts, disk, strayed, counters>>

Drain(n, a) ==
    /\ Looping(n, a)
    /\ ~Wanted(agents[a]) /\ a \in beats[n].reported
    /\ Put(a, [agents[a] EXCEPT !.state = "stopping"])
    /\ PutBeat(n, [beats[n] EXCEPT !.todo = @ \ {a}, !.stops = @ \cup {a}])
    /\ UNCHANGED <<nodes, turn, placing, sessions, hosts, disk, strayed, counters>>

Drained(n, a) ==
    /\ Looping(n, a)
    /\ ~Wanted(agents[a]) /\ a \notin beats[n].reported
    /\ Put(a, [agents[a] EXCEPT !.state = "stopped"])
    /\ PutBeat(n, [beats[n] EXCEPT !.todo = @ \ {a}])
    /\ UNCHANGED <<nodes, turn, placing, sessions, hosts, disk, strayed, counters>>

\* Plausible bugs: agents that moved away, or were deleted, are not orphans.
OrphansDeleted(n) == {a \in beats[n].reported : ~agents[a].known}
OrphansMoved(n) ==
    {a \in beats[n].reported : agents[a].known /\ agents[a].node # n}

\* What the node runs without being assigned it.
Orphans(n) ==
    {a \in beats[n].reported : ~agents[a].known \/ agents[a].node # n}

\* The loop is done: stop the orphans, reply.
\* The agents scheduled here have seen one more heartbeat of their node.
BeatEnds(n) ==
    /\ turn = n
    /\ beats[n].phase = "loop" /\ beats[n].todo = {}
    /\ PutBeat(n, [beats[n] EXCEPT
          !.phase = "reply", !.free = 0, !.reported = {},
          !.stops = @ \cup Orphans(n)])
    /\ agents' = [a \in Agent |->
          IF agents[a].state = "scheduled" /\ agents[a].node = n
             /\ agents[a].age < StuckMax
          THEN [agents[a] EXCEPT !.age = @ + 1]
          ELSE agents[a]]
    /\ turn' = Idle
    /\ UNCHANGED nodes
    /\ Persist
    /\ UNCHANGED <<placing, sessions, hosts, strayed, counters>>

-----------------------------------------------------------------------------
(* The hosts, as the control plane sees them.                                 *)

\* The reply arrives: the starts that succeed, in the order of the reply and
\* while the host has room, and the stops.
HostApplies(n) ==
    LET old == procs[n]
        able == {s \in beats[n].starts :
                    /\ s.agent \in nodes[n].runs
                    /\ \A p \in old : p.agent # s.agent}
    IN  /\ beats[n].phase = "reply"
        /\ \E new \in SUBSET able :
              /\ Cardinality(old) + Cardinality(new) <= budget[n] \/ new = {}
              /\ \A s \in able \ new :
                    Cardinality(old) + Cardinality(new) >= budget[n]
              /\ procs' = [procs EXCEPT
                    ![n] = {p \in old \cup new : p.agent \notin beats[n].stops}]
        /\ PutBeat(n, NoBeat)
        /\ UNCHANGED <<agents, nodes, turn, placing, sessions, budget, disk, strayed,
                       counters>>

\* The reply is lost (the host timed out, or was restarted).
ReplyLost(n) ==
    /\ beats[n].phase = "reply"
    /\ faults < MaxFaults
    /\ faults' = faults + 1
    /\ PutBeat(n, NoBeat)
    /\ UNCHANGED <<agents, nodes, turn, placing, sessions, hosts, disk, strayed,
                   stops, restarts>>

\* An agent's process exits by itself.
ProcessExits(n, p) ==
    /\ p \in procs[n]
    /\ faults < MaxFaults
    /\ faults' = faults + 1
    /\ procs' = [procs EXCEPT ![n] = @ \ {p}]
    /\ UNCHANGED <<agents, nodes, turn, placing, beats, sessions, budget, disk,
                   strayed, stops, restarts>>

\* Nothing is heard of the node for NODE_TIMEOUT_MS. A handler of its last
\* heartbeat is done by then.
GoesQuiet(n) ==
    /\ beats[n].phase \in {"idle", "reply"}
    /\ ~nodes[n].quiet
    /\ faults < MaxFaults
    /\ faults' = faults + 1
    /\ nodes' = [nodes EXCEPT ![n].quiet = TRUE]
    /\ UNCHANGED <<agents, turn, placing, beats, sessions, hosts, disk, strayed,
                   stops, restarts>>

\* The host restarts and registers, perhaps with another budget
\* (POST /v1/nodes/register); upsertNode does not persist. Processes of its
\* former life that go on unknown to it are counted as strays.
Register(n, max) ==
    /\ turn = Idle
    /\ beats[n].phase = "idle"
    /\ faults < MaxFaults
    /\ faults' = faults + 1
    /\ nodes' = [nodes EXCEPT ![n].status = "up", ![n].max = max, ![n].quiet = FALSE]
    /\ procs' = [procs EXCEPT ![n] = {}]
    /\ budget' = [budget EXCEPT ![n] = max]
    /\ \E left \in SUBSET {p.agent : p \in {q \in procs[n] : q.epoch # 0}} :
          strayed' = strayed \cup left
    /\ UNCHANGED <<agents, turn, placing, beats, sessions, disk, stops, restarts>>

\* The control plane restarts from its state file; of its handlers only the
\* replies already sent and the calls under way are left. Nodes may have been
\* silent for too long by the time on file.
Restart(silent) ==
    LET calls(a) == {n \in Node : beats[n].phase = "opening" /\ beats[n].current = a}
    IN  /\ turn = Idle
        /\ restarts < MaxRestarts
        /\ restarts' = restarts + 1
        /\ agents' = disk.agents
        /\ nodes' = [n \in Node |-> [nodes[n] EXCEPT !.status = disk.status[n],
                                                   !.max = disk.max[n],
                                                   !.quiet = @ \/ n \in silent]]
        /\ beats' = [n \in Node |->
                       IF beats[n].phase = "reply" THEN beats[n] ELSE NoBeat]
        /\ late' = [a \in Agent |->
              IF signer[a] + late[a] + Cardinality(calls(a)) <= MaxEpoch
              THEN late[a] + Cardinality(calls(a)) ELSE late[a]]
        /\ UNCHANGED <<turn, placing, signer, hosts, disk, strayed, faults, stops>>

-----------------------------------------------------------------------------
LoopStep(n) ==
    \/ \E a \in Agent :
        \/ Bounce(n, a) \/ PushStart(n, a) \/ AskSession(n, a)
        \/ Confirm(n, a) \/ Drain(n, a) \/ Drained(n, a)
    \/ BeatEnds(n)

SweepStep ==
    \/ \E stuck \in SUBSET Agent : SweepBegins(stuck)
    \/ \E a \in Agent : SweepPlaces(a)

Next ==
    \/ \E a \in Agent : Start(a) \/ Stop(a) \/ Delete(a)
    \/ SweepStep
    \/ \E n \in Node :
        \/ BeatArrives(n) \/ LoopStep(n)
        \/ SignerOpens(n) \/ OpenReturns(n) \/ OpenFails(n)
        \/ HostApplies(n) \/ ReplyLost(n) \/ GoesQuiet(n)
        \/ \E p \in procs[n] : ProcessExits(n, p)
        \/ \E max \in Budgets : Register(n, max)
    \/ \E a \in Agent : SignerOpensLate(a)
    \/ \E silent \in SUBSET Node : Restart(silent)

Spec == Init /\ [][Next]_vars

-----------------------------------------------------------------------------
\* Sweeps, heartbeats and their awaits happen again and again: timers fire, the
\* event loop serves what is ready in turn, calls answer or time out.
Fairness ==
    /\ SF_vars(\E stuck \in SUBSET Agent : SweepBegins(stuck))
    /\ WF_vars(\E a \in Agent : SweepPlaces(a))
    /\ \A n \in Node :
        /\ SF_vars(BeatArrives(n))
        /\ WF_vars(LoopStep(n))
        /\ SF_vars(OpenReturns(n) \/ OpenFails(n))
        /\ WF_vars(HostApplies(n))

FairSpec == Spec /\ Fairness

-----------------------------------------------------------------------------
\* No agent that should run is left on a node that is down or that may not run
\* it: whatever moves a node down also takes its agents off. And the watchdog and
\* the scheduler between them look after every agent that should run: one that is
\* scheduled has a node, and one that lost its node is not taken for scheduled.
OnUpNode(a) ==
    agents[a].known /\ Wanted(agents[a]) /\ agents[a].node # NoNode =>
        /\ nodes[agents[a].node].status = "up"
        /\ <<agents[a].node, a>> \in Satisfies

ScheduledHasNode(a) ==
    agents[a].state = "scheduled" => agents[a].node # NoNode /\ Wanted(agents[a])

\* A reply never asks a host for more than its budget holds, although the host
\* was last heard when the handler started.
StartsFit(n) ==
    beats[n].phase = "reply" /\ beats[n].starts # {} =>
        Cardinality(procs[n]) + Cardinality(beats[n].starts) <= nodes[n].max

\* Placements are sound in all three ways, whatever interleaves with the heartbeats
\* that await the signer, and through restarts.
PlacementSound ==
    /\ \A a \in Agent : OnUpNode(a) /\ ScheduledHasNode(a)
    /\ \A n \in Node : StartsFit(n)

RunsOn(a, n) == \E p \in procs[n] : p.agent = a
RunsSomewhere(a) == \E n \in Node : RunsOn(a, n)
ShouldRun(a) == agents[a].known /\ Wanted(agents[a])

\* An agent that should run gets to run, on whichever node can start it. (Not
\* so one that is stopped and started again: on a live node that cannot start it
\* it turns "pending", and the watchdog only looks at "scheduled".)
EventuallyRuns ==
    \A a \in Agent :
        ShouldRun(a) /\ stops = 0 ~> RunsSomewhere(a) \/ ~ShouldRun(a) \/ stops > 0

\* An agent that was stopped or deleted for good is drained from every host.
StoppedGoesDown ==
    \A a \in Agent : <>[](~ShouldRun(a)) => <>[](~RunsSomewhere(a))

\* Two instances of one agent do not live side by side for ever: a host left
\* behind by a failover is told to stop its orphan.
DuplicatesDie ==
    \A a \in Agent :
        []<>(\A n, m \in Node : RunsOn(a, n) /\ RunsOn(a, m) => n = m)

\* The nodes whose instance of the agent the signer serves: it holds the newest
\* session, and the wallet has not been destroyed.
Traders(a) ==
    {n \in Node : /\ agents[a].known /\ signer[a] # 0
                  /\ [agent |-> a, epoch |-> signer[a]] \in procs[n]}

Fence == INSTANCE Lease WITH holders <- [a \in Agent |-> Traders(a)],
                             astray <- strayed

\* The sessions of each agent are a lease, as Lease defines it: through node
\* failures, hosts that restart, lost replies, calls served late and restarts of
\* the control plane, as long as no session goes astray. The ways a session can
\* go astray are those `strayed` records and no others.
Leased == Fence!Spec

\* "Each agent has one wallet, so at most one instance may trade it."
OneTrader == \A a \in Agent : \A n, m \in Traders(a) : n = m
=============================================================================
