------------------------------ MODULE NodeHost ------------------------------
(* A node host (node-host/host.js). On a timer it sends the control plane a   *)
(* heartbeat with the agents in its map, and applies the reply: it spawns a   *)
(* process for each start, one after the other, and signals the process of    *)
(* each stop. A start may have to pull a bundle, which takes long enough for  *)
(* the timer to fire again: the timer does not wait for the heartbeat before. *)
(*                                                                            *)
(* The map and the processes are two things: a process is spawned before it   *)
(* is in the map, is taken off the map before it is gone, and when it is gone *)
(* its handler takes the agent off the map once more.                         *)
(*                                                                            *)
(* The control plane (control-plane/server.js) is the set of agents it has    *)
(* assigned to this node and wants running; ControlPlane has the rest of it.  *)
EXTENDS Integers, FiniteSets

CONSTANTS
    Agent,
    Proc,          \* bound on the processes at a time
    Beat,          \* bound on the heartbeats under way at a time
    None,          \* no agent, no process
    Cached,        \* agents that need no pull: built-in, or unpacked before
    MaxAgents,     \* CFG.maxAgents
    MaxFaults,     \* bound on failed calls and pulls, exits, memory kills, restarts
    MaxMoves       \* bound on agents being assigned to this node or taken off it

ASSUME NodeHostAssumption ==
    /\ None \notin Agent \cup Proc
    /\ IsFiniteSet(Agent) /\ Cached \subseteq Agent
    /\ MaxAgents \in Nat /\ MaxFaults \in Nat
    /\ MaxMoves \in Nat

\* A process slot; "exiting" is after SIGTERM, "exited" before its handler ran.
\* A `child` was spawned since the host last started.
Process ==
    [agent : Agent \cup {None}, child : BOOLEAN,
     status : {"free", "up", "exiting", "exited"}]

FreeSlot == [agent |-> None, child |-> FALSE, status |-> "free"]

\* One invocation of beat(): `running` is what it reports, `current` the agent
\* whose workload is being resolved.
BeatRecord ==
    [phase : {"idle", "polling", "applying", "resolving"},
     running : SUBSET Agent, starts : SUBSET Agent, stops : SUBSET Agent,
     current : Agent \cup {None}]

VARIABLES
    wanted,    \* at the control plane: assigned to this node and to be running
    agents,    \* the host's map, from an agent to its process
    procs, beats,
    cache,     \* agents whose bundle is unpacked
    disturbed, \* history: see Orderly
    faults, moves

vars == <<wanted, agents, procs, beats, cache, disturbed, faults, moves>>

NoBeat ==
    [phase |-> "idle", running |-> {}, starts |-> {}, stops |-> {}, current |-> None]

Tracked == {a \in Agent : agents[a] # None}

TypeOK ==
    /\ wanted \subseteq Agent
    /\ agents \in [Agent -> Proc \cup {None}]
    /\ procs \in [Proc -> Process]
    /\ beats \in [Beat -> BeatRecord]
    /\ cache \subseteq Agent
    /\ \A b \in Beat : beats[b].phase = "resolving" <=> beats[b].current # None
    /\ disturbed \in BOOLEAN
    /\ faults \in 0..MaxFaults /\ moves \in 0..MaxMoves

\* The host starts; agents may be assigned to it from before.
Init ==
    /\ wanted \in SUBSET Agent
    /\ agents = [a \in Agent |-> None]
    /\ procs = [p \in Proc |-> FreeSlot]
    /\ beats = [b \in Beat |-> NoBeat]
    /\ cache = Cached /\ disturbed = FALSE
    /\ faults = 0 /\ moves = 0

-----------------------------------------------------------------------------
PutBeat(b, r) == beats' = [beats EXCEPT ![b] = r]

Fault == faults < MaxFaults /\ faults' = faults + 1

WithStatus(status) == {p \in Proc : procs[p].status = status}

\* spawn, and agents.set(a.id, rec). Free slots are alike.
Spawn(a) ==
    LET free == WithStatus("free")
        p    == CHOOSE q \in free : TRUE
    IN  /\ free # {}
        /\ procs' = [procs EXCEPT ![p] = [agent |-> a, child |-> TRUE, status |-> "up"]]
        /\ agents' = [agents EXCEPT ![a] = p]
        /\ disturbed' = (disturbed \/ \E q \in Proc : procs[q].agent = a
                                                   /\ procs[q].status # "up")

\* SIGTERM for these processes.
Signalled(ps) ==
    [p \in Proc |-> IF p \in ps THEN [procs[p] EXCEPT !.status = "exiting"] ELSE procs[p]]

\* SIGTERM for the processes of these agents, which are off the map at once.
StopAgents(as) ==
    /\ procs' = Signalled({agents[a] : a \in as \cap Tracked} \cap WithStatus("up"))
    /\ agents' = [a \in Agent |-> IF a \in as THEN None ELSE agents[a]]

-----------------------------------------------------------------------------
(* The control plane.                                                         *)

Move == moves < MaxMoves /\ moves' = moves + 1

Assign(a) ==
    /\ a \notin wanted
    /\ Move
    /\ wanted' = wanted \cup {a}
    /\ UNCHANGED <<agents, procs, beats, cache, disturbed, faults>>

\* The agent is stopped, deleted or moved to another node.
Unassign(a) ==
    /\ a \in wanted
    /\ Move
    /\ wanted' = wanted \ {a}
    /\ UNCHANGED <<agents, procs, beats, cache, disturbed, faults>>

\* A plausible bug: what is reported but not assigned here is left alone.
NothingToStop(r) == {}

\* What it tells the host to stop: it is not wanted, or not here.
ToStop(r) == r.running \ wanted

\* What it wants started.
Missing(r) == wanted \ r.running

\* What there is no room for goes back to the scheduler.
Bounced(r, starts) == Missing(r) \ starts

\* It answers the heartbeat: starts as far as there is room beside what is
\* reported running.
Answer(b, starts) ==
    LET r == beats[b]
        room == MaxAgents - Cardinality(r.running)
    IN  /\ r.phase = "polling"
        /\ starts \subseteq Missing(r)
        /\ Cardinality(starts) <= room \/ starts = {}
        /\ starts = Missing(r) \/ Cardinality(starts) >= room
        /\ wanted' = wanted \ Bounced(r, starts)
        /\ PutBeat(b, [r EXCEPT !.phase = "applying", !.running = {},
                                !.starts = starts, !.stops = ToStop(r)])
        /\ UNCHANGED <<agents, procs, cache, disturbed, faults, moves>>

-----------------------------------------------------------------------------
(* The heartbeat.                                                             *)

Idle == {b \in Beat : beats[b].phase = "idle"}

\* The timer fires, whether or not another heartbeat is under way. Idle slots are
\* alike.
Poll(b) ==
    /\ b \in Idle /\ b = CHOOSE c \in Idle : TRUE
    /\ PutBeat(b, [NoBeat EXCEPT !.phase = "polling", !.running = Tracked])
    /\ disturbed' = (disturbed \/ \E c \in Beat : beats[c].phase = "resolving")
    /\ UNCHANGED <<wanted, agents, procs, cache, faults, moves>>

\* The call fails: refused, timed out, or unknown node (which registers again).
PollFails(b) ==
    /\ beats[b].phase = "polling"
    /\ Fault
    /\ PutBeat(b, NoBeat)
    /\ UNCHANGED <<wanted, agents, procs, cache, disturbed, moves>>

\* Its reply was answered, but is lost.
ReplyLost(b) ==
    /\ beats[b].phase = "applying"
    /\ Fault
    /\ PutBeat(b, NoBeat)
    /\ UNCHANGED <<wanted, agents, procs, cache, disturbed, moves>>

\* A plausible bug: the host trusts the control plane to keep the budget.
RefusedTracked(a) == a \in Tracked

\* startAgent: nothing to do, or no room.
Refused(a) == a \in Tracked \/ Cardinality(Tracked) >= MaxAgents

Started(b, a) == [beats[b] EXCEPT !.starts = @ \ {a}]

SkipStart(b, a) ==
    /\ beats[b].phase = "applying" /\ a \in beats[b].starts
    /\ Refused(a)
    /\ PutBeat(b, Started(b, a))
    /\ UNCHANGED <<wanted, agents, procs, cache, disturbed, faults, moves>>

\* The workload is at hand: spawned without an await.
StartNow(b, a) ==
    /\ beats[b].phase = "applying" /\ a \in beats[b].starts
    /\ ~Refused(a)
    /\ a \in cache
    /\ Spawn(a)
    /\ PutBeat(b, Started(b, a))
    /\ UNCHANGED <<wanted, cache, faults, moves>>

\* The workload's bundle is pulled first. This heartbeat waits for it.
StartPulls(b, a) ==
    /\ beats[b].phase = "applying" /\ a \in beats[b].starts
    /\ ~Refused(a)
    /\ a \notin cache
    /\ PutBeat(b, [Started(b, a) EXCEPT !.phase = "resolving", !.current = a])
    /\ disturbed' = (disturbed \/ \E c \in Beat \ {b} : beats[c].phase # "idle")
    /\ UNCHANGED <<wanted, agents, procs, cache, faults, moves>>

\* The bundle is here, verified and unpacked: spawned, with no second look at
\* the map.
Pulled(b) ==
    LET a == beats[b].current
    IN  /\ beats[b].phase = "resolving"
        /\ Spawn(a)
        /\ cache' = cache \cup {a}
        /\ PutBeat(b, [beats[b] EXCEPT !.phase = "applying", !.current = None])
        /\ UNCHANGED <<wanted, faults, moves>>

\* A plausible bug: the start that failed is still the current one.
PullFailsHalfway(b) ==
    /\ beats[b].phase = "resolving"
    /\ Fault
    /\ PutBeat(b, [beats[b] EXCEPT !.phase = "applying"])
    /\ UNCHANGED <<wanted, agents, procs, cache, disturbed, moves>>

\* No bundle, or one that does not verify.
PullFails(b) ==
    /\ beats[b].phase = "resolving"
    /\ Fault
    /\ PutBeat(b, [beats[b] EXCEPT !.phase = "applying", !.current = None])
    /\ UNCHANGED <<wanted, agents, procs, cache, disturbed, moves>>

\* A plausible bug: the agent is taken off the map and its process left alone.
ForgetOne(b, a) ==
    /\ beats[b].phase = "applying" /\ a \in beats[b].stops
    /\ agents' = [agents EXCEPT ![a] = None]
    /\ PutBeat(b, [beats[b] EXCEPT !.stops = @ \ {a}])
    /\ UNCHANGED <<wanted, procs, cache, disturbed, faults, moves>>

StopOne(b, a) ==
    /\ beats[b].phase = "applying" /\ a \in beats[b].stops
    /\ StopAgents({a})
    /\ PutBeat(b, [beats[b] EXCEPT !.stops = @ \ {a}])
    /\ UNCHANGED <<wanted, cache, disturbed, faults, moves>>

\* All is applied; enforceMemory stops the agents that use too much.
BeatEnds(b, greedy) ==
    /\ beats[b].phase = "applying"
    /\ beats[b].starts = {} /\ beats[b].stops = {}
    /\ greedy \subseteq Tracked
    /\ IF greedy = {} THEN UNCHANGED faults ELSE Fault
    /\ StopAgents(greedy)
    /\ PutBeat(b, NoBeat)
    /\ UNCHANGED <<wanted, cache, disturbed, moves>>

-----------------------------------------------------------------------------
(* Processes.                                                                 *)

\* A process exits, or could not be spawned at all.
Exits(p) ==
    /\ procs[p].status = "up"
    /\ Fault
    /\ procs' = [procs EXCEPT ![p].status = "exited"]
    /\ UNCHANGED <<wanted, agents, beats, cache, disturbed, moves>>

\* SIGTERM, or SIGKILL 8 seconds later, takes effect.
Obeys(p) ==
    /\ procs[p].status = "exiting"
    /\ procs' = [procs EXCEPT ![p].status = "exited"]
    /\ UNCHANGED <<wanted, agents, beats, cache, disturbed, faults, moves>>

Freed(p) == procs' = [procs EXCEPT ![p] = FreeSlot]

\* A plausible bug: the handler only logs the exit.
HandlerOnlyLogs(p) ==
    /\ procs[p].status = "exited"
    /\ Freed(p)
    /\ UNCHANGED <<wanted, agents, beats, cache, disturbed, faults, moves>>

\* The exit handler takes the agent off the map, whatever it maps to by now.
ExitHandler(p) ==
    /\ procs[p].status = "exited"
    /\ Freed(p)
    /\ agents' = IF procs[p].child THEN [agents EXCEPT ![procs[p].agent] = None]
                 ELSE agents
    /\ UNCHANGED <<wanted, beats, cache, disturbed, faults, moves>>

\* The host dies, or is shut down, which signals what is on the map first, and
\* is started again. The map is lost; processes live on as nobody's children, and
\* nobody kills those that ignore the signal.
HostRestarts(drained) ==
    LET left == Signalled(IF drained THEN {agents[a] : a \in Tracked}
                                          \cap WithStatus("up") ELSE {})
    IN  /\ Fault
        /\ disturbed' = TRUE
        /\ procs' = [p \in Proc |-> [left[p] EXCEPT !.child = FALSE]]
        /\ agents' = [a \in Agent |-> None]
        /\ beats' = [b \in Beat |-> NoBeat]
        /\ UNCHANGED <<wanted, cache, moves>>

-----------------------------------------------------------------------------
Applies(b) ==
    \/ \E a \in Agent : SkipStart(b, a) \/ StartNow(b, a) \/ StartPulls(b, a)
                        \/ StopOne(b, a)
    \/ \E greedy \in SUBSET Agent : BeatEnds(b, greedy)

Next ==
    \/ \E a \in Agent : Assign(a) \/ Unassign(a)
    \/ \E b \in Beat :
        \/ Poll(b) \/ PollFails(b) \/ ReplyLost(b)
        \/ \E starts \in SUBSET Agent : Answer(b, starts)
        \/ Applies(b) \/ Pulled(b) \/ PullFails(b)
    \/ \E p \in Proc : Exits(p) \/ Obeys(p) \/ ExitHandler(p)
    \/ \E drained \in BOOLEAN : HostRestarts(drained)

Spec == Init /\ [][Next]_vars

\* The timer fires for ever, calls and pulls are answered or fail, a signalled
\* child is gone in the end (SIGKILL), and exits are handled.
Fairness ==
    /\ SF_vars(\E b \in Beat : Poll(b))
    /\ \A b \in Beat :
        /\ WF_vars(\E starts \in SUBSET Agent : Answer(b, starts))
        /\ WF_vars(Applies(b))
        /\ WF_vars(Pulled(b) \/ PullFails(b))
    /\ \A p \in Proc :
        /\ WF_vars(procs[p].child /\ Obeys(p))
        /\ WF_vars(ExitHandler(p))

FairSpec == Spec /\ Fairness

-----------------------------------------------------------------------------
ProcsOf(a) == {p \in WithStatus("up") : procs[p].agent = a}

\* The host is in its first life, no heartbeat was under way while another one
\* pulled a bundle, and no agent was started before its last process was gone.
Orderly == ~disturbed

\* The map is right about what runs: every process that is up is its agent's
\* process on the map, and what is on the map is up or has just exited.
MapIsRight ==
    Orderly =>
        /\ \A p \in WithStatus("up") : agents[procs[p].agent] = p
        /\ \A a \in Tracked : procs[agents[a]].agent = a

\* "Awaiting each makes the budget authoritative": the host never runs more
\* agents than its operator allows.
WithinBudget == Orderly => Cardinality(WithStatus("up")) <= MaxAgents

\* An agent the control plane wants here gets a process again, however often it
\* exits, its pull fails, it is killed for its memory or the host restarts.
WantedRuns ==
    \A a \in Agent : a \in wanted ~> ProcsOf(a) # {} \/ a \notin wanted

\* "Orphans: node runs something we don't assign to it -> stop it": an agent
\* that is not wanted here any more is gone in the end.
UnwantedStops ==
    \A a \in Agent :
        []Orderly /\ <>[](a \notin wanted) => <>[](ProcsOf(a) = {})
=============================================================================
