------------------------- MODULE ControlPlaneProofs -------------------------
(* Theorems about the control plane, for any agents, nodes, budgets, faults   *)
(* and restarts: its placements are sound, and the sessions it hands out are  *)
(* a lease, as Lease defines it.                                              *)
EXTENDS ControlPlane, FiniteSetTheorems, TLAPS

-----------------------------------------------------------------------------
(* Types.                                                                     *)

LEMMA PutType ==
    ASSUME TypeOK, NEW a \in Agent, NEW r \in AgentRecord, Put(a, r)
    PROVE  agents' \in [Agent -> AgentRecord] /\ agents' = [agents EXCEPT ![a] = r]
  BY DEF TypeOK, Put

LEMMA PutBeatType ==
    ASSUME TypeOK, NEW n \in Node, NEW b \in BeatRecord, PutBeat(n, b)
    PROVE  beats' \in [Node -> BeatRecord] /\ beats' = [beats EXCEPT ![n] = b]
  BY DEF TypeOK, PutBeat

LEMMA AgentType == ASSUME TypeOK PROVE \A a \in Agent : agents[a] \in AgentRecord
  BY DEF TypeOK

LEMMA NoBeatType == NoBeat \in BeatRecord
  BY DEF NoBeat, BeatRecord

LEMMA ImageType ==
    ASSUME NEW as \in [Agent -> AgentRecord], NEW ns \in [Node -> NodeRecord]
    PROVE  Image(as, ns) \in DiskRecord
  BY DEF Image, DiskRecord, NodeRecord

LEMMA PersistType ==
    ASSUME TypeOK, agents' \in [Agent -> AgentRecord], nodes' \in [Node -> NodeRecord],
           Persist \/ UNCHANGED disk
    PROVE  disk' \in DiskRecord
  BY ImageType DEF TypeOK, Persist

\* Scheduling an agent leaves it alone, or finds it a node that is up and may run
\* it, or none.
LEMMA ScheduledKeeps ==
    ASSUME TypeOK, NEW a \in Agent, NEW r \in AgentRecord, NEW q \in Scheduled(a, r)
    PROVE  /\ q \in AgentRecord
           /\ q.known = r.known /\ q.desired = r.desired /\ q.session = r.session
           /\ \/ q = r /\ (~Wanted(r) \/ OnLiveNode(r))
              \/ Wanted(r) /\ q.node = NoNode /\ q.state = "pending"
              \/ /\ Wanted(r) /\ q.node \in Node /\ nodes[q.node].status = "up"
                 /\ <<q.node, a>> \in Satisfies /\ q.state = "scheduled"
<1> DEFINE avoid == Avoid(a, r.failed)
           picks == Picks(a, avoid)
<1>1. avoid \subseteq Node
  BY DEF Avoid, AgentRecord
<1>2. CASE q = r /\ (~Wanted(r) \/ OnLiveNode(r))
  BY <1>2
<1>3. CASE Wanted(r) /\ q = [r EXCEPT !.node = NoNode, !.state = "pending", !.failed = avoid]
  BY <1>1, <1>3 DEF AgentRecord, AgentState
<1>4. CASE /\ Wanted(r)
           /\ \E n \in picks : q = [r EXCEPT !.node = n, !.state = "scheduled",
                                             !.failed = avoid, !.age = 0]
  <2>1. PICK n \in picks : q = [r EXCEPT !.node = n, !.state = "scheduled",
                                         !.failed = avoid, !.age = 0]
    BY <1>4
  <2>2. n \in Node /\ nodes[n].status = "up" /\ <<n, a>> \in Satisfies
    BY DEF Picks, Candidates
  <2>3. 0 \in 0..StuckMax
    BY ControlPlaneAssumption DEF ControlPlaneAssumption
  <2> QED
    BY <1>1, <1>4, <2>1, <2>2, <2>3 DEF AgentRecord, AgentState
<1> QED
  BY <1>2, <1>3, <1>4 DEF Scheduled

LEMMA InitType == Init => TypeOK
<1> SUFFICES ASSUME Init PROVE TypeOK
  OBVIOUS
<1>1. 0 \in 0..StuckMax /\ 0 \in 0..MaxFaults /\ 0 \in 0..MaxStops /\ 0 \in 0..MaxRestarts
  BY ControlPlaneAssumption DEF ControlPlaneAssumption
<1>2. agents \in [Agent -> AgentRecord]
  BY <1>1 DEF Init, AgentRecord, AgentState
<1>3. nodes \in [Node -> NodeRecord] /\ budget \in [Node -> Nat]
  <2>1. budget \in [Node -> Nat]
    BY ControlPlaneAssumption DEF ControlPlaneAssumption, Init
  <2>2. PICK can \in CanRun :
            nodes = [n \in Node |->
               [status |-> "up", max |-> budget[n], quiet |-> FALSE,
                runs |-> {a \in Agent : <<n, a>> \in can}]]
    BY DEF Init
  <2> QED
    BY <2>1, <2>2 DEF NodeRecord
<1>4. disk \in DiskRecord
  BY <1>2, <1>3, ImageType DEF Init
<1>5. beats \in [Node -> BeatRecord]
  BY NoBeatType DEF Init
<1>6. turn \in Node \cup {Idle, Sweeper} /\ placing \subseteq Agent /\ strayed \subseteq Agent
  BY DEF Init
<1>7. signer \in [Agent -> Nat] /\ late \in [Agent -> Nat]
  BY DEF Init
<1>8. procs \in [Node -> SUBSET StartType]
  BY DEF Init
<1>9. faults \in 0..MaxFaults /\ stops \in 0..MaxStops /\ restarts \in 0..MaxRestarts
  BY <1>1 DEF Init
<1> QED
  BY <1>2, <1>3, <1>4, <1>5, <1>6, <1>7, <1>8, <1>9 DEF TypeOK

LEMMA RequestType ==
    ASSUME TypeOK, NEW a \in Agent, Start(a) \/ Stop(a) \/ Delete(a)
    PROVE  TypeOK'
<1>1. \E r \in AgentRecord : Put(a, r)
  <2>1. CASE Start(a)
    <3> DEFINE r == [agents[a] EXCEPT
                    !.desired = "running",
                    !.state = IF @ \in {"stopped", "failed"} THEN "pending" ELSE @]
    <3>1. r \in AgentRecord
      BY AgentType DEF AgentRecord, AgentState
    <3>2. \E s \in Scheduled(a, r) : Put(a, s)
      BY <2>1 DEF Start
    <3> QED
      BY <3>1, <3>2, ScheduledKeeps
  <2>2. CASE Stop(a)
    <3>1. [agents[a] EXCEPT !.desired = "stopped",
             !.state = IF @ = "running" THEN "stopping" ELSE "stopped"] \in AgentRecord
      BY AgentType DEF AgentRecord, AgentState
    <3> QED
      BY <2>2, <3>1 DEF Stop
  <2>3. CASE Delete(a)
    <3>1. [agents[a] EXCEPT !.known = FALSE] \in AgentRecord
      BY AgentType DEF AgentRecord
    <3> QED
      BY <2>3, <3>1 DEF Delete
  <2> QED
    BY <2>1, <2>2, <2>3
<1>2. agents' \in [Agent -> AgentRecord]
  BY <1>1, PutType
<1>3. /\ UNCHANGED <<nodes, turn, placing, beats, sessions, hosts, strayed, faults, restarts>>
      /\ Persist
      /\ stops' = stops \/ (stops < MaxStops /\ stops' = stops + 1)
  BY DEF Start, Stop, Delete, counters
<1>4. nodes' \in [Node -> NodeRecord]
  BY <1>3 DEF TypeOK
<1>5. disk' \in DiskRecord
  BY <1>2, <1>3, <1>4, PersistType
<1>6. stops' \in 0..MaxStops
  BY <1>3, ControlPlaneAssumption DEF TypeOK, ControlPlaneAssumption
<1> QED
  BY <1>2, <1>3, <1>4, <1>5, <1>6 DEF TypeOK, hosts, sessions

LEMMA SweepType == ASSUME TypeOK, SweepStep PROVE TypeOK'
<1>1. ASSUME NEW stuck \in SUBSET Agent, SweepBegins(stuck) PROVE TypeOK'
  <2> DEFINE down == {n \in Node : nodes[n].status = "up" /\ nodes[n].quiet}
             lost == {a \in Listed : Wanted(agents[a]) /\ agents[a].node \in down}
             swept(a) ==
               IF a \in lost
               THEN [agents[a] EXCEPT !.state = "failed", !.node = NoNode]
               ELSE IF a \in stuck
               THEN [agents[a] EXCEPT !.failed = @ \cup {agents[a].node},
                                      !.node = NoNode, !.state = "pending"]
               ELSE agents[a]
  <2>1. \A a \in stuck : agents[a].node # NoNode
    BY <1>1 DEF SweepBegins
  <2>2. ASSUME NEW a \in Agent PROVE swept(a) \in AgentRecord
    <3>1. agents[a] \in AgentRecord
      BY AgentType
    <3>2. [agents[a] EXCEPT !.state = "failed", !.node = NoNode] \in AgentRecord
      BY <3>1 DEF AgentRecord, AgentState
    <3>3. CASE a \in stuck
      <4>1. agents[a].node \in Node
        BY <2>1, <3>1, <3>3 DEF AgentRecord
      <4>2. [agents[a] EXCEPT !.failed = @ \cup {agents[a].node}, !.node = NoNode,
                              !.state = "pending"] \in AgentRecord
        BY <3>1, <4>1 DEF AgentRecord, AgentState
      <4> QED
        BY <3>1, <3>2, <4>2
    <3> QED
      BY <3>1, <3>2, <3>3
  <2>3. agents' \in [Agent -> AgentRecord]
    BY <1>1, <2>2 DEF SweepBegins
  <2>4. nodes' \in [Node -> NodeRecord]
    <3>1. \A n \in Node : nodes[n] \in NodeRecord
      BY DEF TypeOK
    <3>2. \A n \in Node : [nodes[n] EXCEPT !.status = "down"] \in NodeRecord
      BY <3>1 DEF NodeRecord
    <3> QED
      BY <1>1, <3>1, <3>2 DEF SweepBegins
  <2>5. placing' \in SUBSET Agent /\ turn' \in Node \cup {Idle, Sweeper}
    BY <1>1 DEF SweepBegins
  <2>6. disk' \in DiskRecord
    BY <1>1, <2>3, <2>4, PersistType DEF SweepBegins
  <2>7. UNCHANGED <<beats, sessions, hosts, strayed, counters>>
    BY <1>1 DEF SweepBegins
  <2> QED
    BY <2>3, <2>4, <2>5, <2>6, <2>7 DEF TypeOK, hosts, sessions, counters
<1>2. ASSUME NEW a \in Agent, SweepPlaces(a) PROVE TypeOK'
  <2>1. agents[a] \in AgentRecord
    BY DEF TypeOK
  <2>2. agents' \in [Agent -> AgentRecord] /\ nodes' \in [Node -> NodeRecord]
    BY <1>2, <2>1, ScheduledKeeps, PutType DEF SweepPlaces, TypeOK
  <2>3. disk' \in DiskRecord
    BY <1>2, <2>2, PersistType DEF SweepPlaces
  <2> QED
    BY <1>2, <2>2, <2>3 DEF SweepPlaces, TypeOK, hosts, sessions, counters
<1> QED
  BY <1>1, <1>2 DEF SweepStep

\* A call to the signer under way is for some agent, and for a node.
Calling == \A n \in Node :
    beats[n].phase \in {"opening", "opened"} =>
        beats[n].current \in Agent /\ beats[n].asked \in Node

CallOf(b) == b.phase \in {"opening", "opened"} => b.current \in Agent /\ b.asked \in Node

LEMMA PutBeatCalling ==
    ASSUME TypeOK, Calling, NEW n \in Node, NEW b \in BeatRecord, CallOf(b),
           PutBeat(n, b)
    PROVE  beats' \in [Node -> BeatRecord] /\ Calling'
<1>1. beats' \in [Node -> BeatRecord] /\ beats' = [beats EXCEPT ![n] = b]
  BY PutBeatType
<1>2. ASSUME NEW m \in Node PROVE CallOf(beats'[m])
  <2>1. CASE m = n
    BY <1>1, <2>1 DEF TypeOK
  <2>2. CASE m # n
    BY <1>1, <2>2 DEF TypeOK, Calling, CallOf
  <2> QED
    BY <2>1, <2>2
<1> QED
  BY <1>1, <1>2 DEF Calling, CallOf

LEMMA RunningFinite ==
    ASSUME TypeOK, NEW n \in Node
    PROVE  /\ {p.agent : p \in procs[n]} \subseteq Agent
           /\ IsFiniteSet({p.agent : p \in procs[n]})
           /\ Cardinality({p.agent : p \in procs[n]}) \in Nat
<1>1. {p.agent : p \in procs[n]} \subseteq Agent
  BY DEF TypeOK, StartType
<1>2. IsFiniteSet({p.agent : p \in procs[n]})
  BY <1>1, FS_Subset, ControlPlaneAssumption DEF ControlPlaneAssumption
<1> QED
  BY <1>1, <1>2, FS_CardinalityType

\* The steps of a heartbeat's handler.
LEMMA BeatType ==
    ASSUME TypeOK, Calling, NEW n \in Node, BeatArrives(n) \/ LoopStep(n)
    PROVE  TypeOK' /\ Calling'
<1>b. beats[n] \in BeatRecord /\ CallOf(beats[n])
  BY DEF TypeOK, Calling, CallOf
<1>1. CASE BeatArrives(n)
  <2> DEFINE running == {p.agent : p \in procs[n]}
             b == [NoBeat EXCEPT
                     !.phase = "loop",
                     !.todo = {a \in Listed : agents[a].node = n},
                     !.free = nodes[n].max - Cardinality(running),
                     !.reported = running]
  <2>1. nodes[n].max - Cardinality(running) \in Int
    <3>1. nodes[n].max \in Nat
      BY DEF TypeOK, NodeRecord
    <3>2. Cardinality(running) \in Nat
      BY RunningFinite
    <3> QED
      BY <3>1, <3>2
  <2>2. b \in BeatRecord
    BY <2>1, RunningFinite, NoBeatType DEF BeatRecord, NoBeat, Listed
  <2>3. CallOf(b)
    BY DEF NoBeat, CallOf
  <2>4. nodes' \in [Node -> NodeRecord]
    <3>1. nodes[n] \in NodeRecord
      BY DEF TypeOK
    <3>2. [nodes[n] EXCEPT !.status = "up", !.quiet = FALSE] \in NodeRecord
      BY <3>1 DEF NodeRecord
    <3>3. nodes' = [nodes EXCEPT ![n] = [nodes[n] EXCEPT !.status = "up", !.quiet = FALSE]]
      BY <1>1, <3>1 DEF BeatArrives, TypeOK, NodeRecord
    <3> QED
      BY <3>2, <3>3 DEF TypeOK
  <2>5. beats' \in [Node -> BeatRecord] /\ Calling'
    BY <1>1, <2>2, <2>3, PutBeatCalling DEF BeatArrives
  <2> QED
    BY <1>1, <2>4, <2>5 DEF BeatArrives, TypeOK, hosts, sessions, counters
<1>2. ASSUME NEW a \in Agent,
             Bounce(n, a) \/ Confirm(n, a) \/ Drain(n, a) \/ Drained(n, a)
      PROVE  TypeOK' /\ Calling'
  <2>1. PICK r \in AgentRecord : Put(a, r)
    <3>1. [agents[a] EXCEPT !.node = NoNode, !.state = "pending"] \in AgentRecord
      BY AgentType DEF AgentRecord, AgentState
    <3>2. [agents[a] EXCEPT !.state = "running", !.failed = {}] \in AgentRecord
      BY AgentType DEF AgentRecord, AgentState
    <3>3. \A s \in AgentState : [agents[a] EXCEPT !.state = s] \in AgentRecord
      BY AgentType DEF AgentRecord
    <3> QED
      BY <1>2, <3>1, <3>2, <3>3 DEF Bounce, Confirm, Drain, Drained, AgentState
  <2>2. PICK b \in BeatRecord : PutBeat(n, b) /\ CallOf(b)
    <3> DEFINE b1 == [beats[n] EXCEPT !.todo = @ \ {a}]
               b2 == [beats[n] EXCEPT !.todo = @ \ {a}, !.stops = @ \cup {a}]
    <3>1. b1 \in BeatRecord /\ CallOf(b1)
      BY <1>b DEF BeatRecord, CallOf
    <3>2. b2 \in BeatRecord /\ CallOf(b2)
      BY <1>b DEF BeatRecord, CallOf
    <3>3. PutBeat(n, b1) \/ PutBeat(n, b2)
      BY <1>2 DEF Bounce, Confirm, Drain, Drained
    <3> QED
      BY <3>1, <3>2, <3>3
  <2>3. agents' \in [Agent -> AgentRecord]
    BY <2>1, PutType
  <2>4. beats' \in [Node -> BeatRecord] /\ Calling'
    BY <2>2, PutBeatCalling
  <2> QED
    BY <1>2, <2>3, <2>4
    DEF Bounce, Confirm, Drain, Drained, TypeOK, hosts, sessions, counters
<1>3. ASSUME NEW a \in Agent, PushStart(n, a) PROVE TypeOK' /\ Calling'
  <2>1. StartOf(a) \in StartType
    BY AgentType DEF StartOf, StartType, AgentRecord
  <2> DEFINE b == [beats[n] EXCEPT !.todo = @ \ {a}, !.free = @ - 1,
                                   !.starts = @ \cup {StartOf(a)}]
  <2>2. b \in BeatRecord /\ CallOf(b)
    <3>1. beats[n].starts \cup {StartOf(a)} \in SUBSET StartType
      BY <1>b, <2>1 DEF BeatRecord
    <3>2. beats[n].free - 1 \in Int /\ beats[n].todo \ {a} \in SUBSET Agent
      BY <1>b DEF BeatRecord
    <3> QED
      BY <1>b, <3>1, <3>2 DEF BeatRecord, CallOf
  <2>3. beats' \in [Node -> BeatRecord] /\ Calling'
    BY <1>3, <2>2, PutBeatCalling DEF PushStart
  <2> QED
    BY <1>3, <2>3 DEF PushStart, Stray, TypeOK, hosts, sessions, counters
<1>4. ASSUME NEW a \in Agent, AskSession(n, a) PROVE TypeOK' /\ Calling'
  <2> DEFINE b == [beats[n] EXCEPT !.todo = @ \ {a}, !.free = @ - 1,
                                   !.phase = "opening", !.current = a,
                                   !.asked = agents[a].node]
  <2>1. agents[a].node \in Node
    BY <1>4, AgentType DEF AskSession, SessionCurrent, AgentRecord
  <2>2. b \in BeatRecord
    <3>1. beats[n].free - 1 \in Int /\ beats[n].todo \ {a} \in SUBSET Agent
      BY <1>b DEF BeatRecord
    <3> QED
      BY <1>b, <2>1, <3>1 DEF BeatRecord
  <2>3. CallOf(b)
    BY <1>b, <2>1 DEF BeatRecord, CallOf
  <2>4. beats' \in [Node -> BeatRecord] /\ Calling'
    BY <1>4, <2>2, <2>3, PutBeatCalling DEF AskSession
  <2> QED
    BY <1>4, <2>4 DEF AskSession, TypeOK, hosts, sessions, counters
<1>5. CASE BeatEnds(n)
  <2> DEFINE b == [beats[n] EXCEPT !.phase = "reply", !.free = 0, !.reported = {},
                                   !.stops = @ \cup Orphans(n)]
  <2>1. b \in BeatRecord /\ CallOf(b)
    <3>1. beats[n].stops \cup Orphans(n) \in SUBSET Agent
      BY <1>b DEF BeatRecord, Orphans
    <3>2. {} \in SUBSET Agent /\ 0 \in Int
      OBVIOUS
    <3>3. b \in BeatRecord
      BY <1>b, <3>1, <3>2 DEF BeatRecord
    <3>4. b.phase = "reply"
      BY <1>b DEF BeatRecord
    <3> QED
      BY <3>3, <3>4 DEF CallOf
  <2>2. beats' \in [Node -> BeatRecord] /\ Calling'
    BY <1>5, <2>1, PutBeatCalling DEF BeatEnds
  <2>3. ASSUME NEW a \in Agent, agents[a].age < StuckMax
        PROVE  [agents[a] EXCEPT !.age = @ + 1] \in AgentRecord
    <3>1. agents[a] \in AgentRecord
      BY AgentType
    <3>2. agents[a].age + 1 \in 0..StuckMax
      BY <2>3, <3>1, ControlPlaneAssumption DEF AgentRecord, ControlPlaneAssumption
    <3> QED
      BY <3>1, <3>2 DEF AgentRecord
  <2>4. agents' \in [Agent -> AgentRecord]
    BY <1>5, <2>3, AgentType DEF BeatEnds
  <2>5. nodes' \in [Node -> NodeRecord]
    BY <1>5 DEF BeatEnds, TypeOK
  <2>6. disk' \in DiskRecord
    BY <1>5, <2>4, <2>5, PersistType DEF BeatEnds
  <2> QED
    BY <1>5, <2>2, <2>4, <2>5, <2>6 DEF BeatEnds, TypeOK, hosts, sessions, counters
<1> QED
  BY <1>1, <1>2, <1>3, <1>4, <1>5 DEF LoopStep

\* The steps of the signer and of the calls to it.
LEMMA SessionType ==
    ASSUME TypeOK, Calling, NEW n \in Node,
           SignerOpens(n) \/ OpenReturns(n) \/ OpenFails(n)
    PROVE  TypeOK' /\ Calling'
<1> DEFINE a == beats[n].current
<1>b. beats[n] \in BeatRecord /\ beats[n].phase \in {"opening", "opened"}
  BY DEF TypeOK, SignerOpens, OpenReturns, OpenFails
<1>a. a \in Agent /\ beats[n].asked \in Node /\ agents[a] \in AgentRecord
  BY <1>b, AgentType DEF Calling
<1>1. CASE SignerOpens(n)
  <2> DEFINE b == [beats[n] EXCEPT !.phase = "opened", !.got = signer[a] + 1]
  <2>1. signer[a] + 1 \in Nat
    BY <1>a DEF TypeOK
  <2>2. b \in BeatRecord
    BY <1>b, <2>1 DEF BeatRecord
  <2>3. b.current = a /\ b.asked = beats[n].asked
    BY <1>b DEF BeatRecord
  <2>4. beats' \in [Node -> BeatRecord] /\ Calling'
    BY <1>1, <1>a, <2>2, <2>3, PutBeatCalling DEF SignerOpens, CallOf
  <2>5. signer' \in [Agent -> Nat]
    BY <1>1, <2>1 DEF SignerOpens, TypeOK
  <2> QED
    BY <1>1, <2>4, <2>5 DEF SignerOpens, TypeOK, hosts, counters
<1>2. ASSUME NEW s \in StartType,
             PutBeat(n, [beats[n] EXCEPT
                !.phase = "loop", !.current = NoAgent, !.asked = NoNode, !.got = 0,
                !.starts = @ \cup {s}])
      PROVE  beats' \in [Node -> BeatRecord] /\ Calling'
  <2> DEFINE b == [beats[n] EXCEPT
                !.phase = "loop", !.current = NoAgent, !.asked = NoNode, !.got = 0,
                !.starts = @ \cup {s}]
  <2>1. beats[n].starts \cup {s} \in SUBSET StartType
    BY <1>b DEF BeatRecord
  <2>2. b \in BeatRecord
    BY <1>b, <2>1 DEF BeatRecord
  <2>3. b.phase = "loop"
    BY <1>b DEF BeatRecord
  <2> QED
    BY <1>2, <2>2, <2>3, PutBeatCalling DEF CallOf
<1>3. CASE OpenReturns(n)
  <2> DEFINE session == [epoch |-> beats[n].got, node |-> agents[a].node]
             s == [agent |-> a, epoch |-> beats[n].got]
  <2>1. beats[n].got \in Nat /\ agents[a].node \in Node \cup {NoNode}
    BY <1>b, <1>a DEF BeatRecord, AgentRecord
  <2>2. [agents[a] EXCEPT !.session = session] \in AgentRecord
    BY <1>a, <2>1 DEF AgentRecord
  <2>3. s \in StartType
    BY <1>a, <2>1 DEF StartType
  <2>4. agents' \in [Agent -> AgentRecord]
    BY <1>3, <1>a, <2>2, PutType DEF OpenReturns
  <2>5. beats' \in [Node -> BeatRecord] /\ Calling'
    BY <1>2, <1>3, <2>3 DEF OpenReturns
  <2>6. nodes' \in [Node -> NodeRecord]
    BY <1>3 DEF OpenReturns, TypeOK
  <2>7. disk' \in DiskRecord
    BY <1>3, <2>4, <2>6, PersistType DEF OpenReturns
  <2>8. strayed' \in SUBSET Agent
    BY <1>3, <1>a DEF OpenReturns, Stray, TypeOK
  <2> QED
    BY <1>3, <2>4, <2>5, <2>6, <2>7, <2>8
    DEF OpenReturns, TypeOK, hosts, sessions, counters
<1>4. CASE OpenFails(n)
  <2>1. StartOf(a) \in StartType
    BY <1>a DEF StartOf, StartType, AgentRecord
  <2>2. beats' \in [Node -> BeatRecord] /\ Calling'
    BY <1>2, <1>4, <2>1 DEF OpenFails
  <2>3. late' \in [Agent -> Nat]
    BY <1>4, <1>a DEF OpenFails, GivenUp, TypeOK
  <2>4. strayed' \in SUBSET Agent
    BY <1>4, <1>a DEF OpenFails, Stray, TypeOK
  <2> QED
    BY <1>4, <2>2, <2>3, <2>4 DEF OpenFails, TypeOK, hosts, counters
<1> QED
  BY <1>1, <1>3, <1>4

\* The steps of the hosts.
LEMMA HostType ==
    ASSUME TypeOK, Calling, NEW n \in Node,
           \/ HostApplies(n) \/ ReplyLost(n) \/ GoesQuiet(n)
           \/ \E p \in procs[n] : ProcessExits(n, p)
           \/ \E max \in Budgets : Register(n, max)
    PROVE  TypeOK' /\ Calling'
<1>f. faults < MaxFaults => faults + 1 \in 0..MaxFaults
  BY ControlPlaneAssumption DEF ControlPlaneAssumption, TypeOK
<1>n. CallOf(NoBeat)
  BY DEF NoBeat, CallOf
<1>1. CASE HostApplies(n)
  <2>1. beats' \in [Node -> BeatRecord] /\ Calling'
    BY <1>1, <1>n, NoBeatType, PutBeatCalling DEF HostApplies
  <2>2. beats[n].starts \subseteq StartType /\ procs[n] \subseteq StartType
    BY DEF TypeOK, BeatRecord
  <2>3. PICK new \in SUBSET beats[n].starts :
            procs' = [procs EXCEPT
                ![n] = {p \in procs[n] \cup new : p.agent \notin beats[n].stops}]
    BY <1>1 DEF HostApplies
  <2>4. procs' \in [Node -> SUBSET StartType]
    BY <2>2, <2>3 DEF TypeOK
  <2> QED
    BY <1>1, <2>1, <2>4 DEF HostApplies, TypeOK, sessions, counters
<1>2. CASE ReplyLost(n)
  <2>1. beats' \in [Node -> BeatRecord] /\ Calling'
    BY <1>2, <1>n, NoBeatType, PutBeatCalling DEF ReplyLost
  <2> QED
    BY <1>2, <1>f, <2>1 DEF ReplyLost, TypeOK, hosts, sessions
<1>3. CASE GoesQuiet(n)
  <2>1. [nodes[n] EXCEPT !.quiet = TRUE] \in NodeRecord
    BY DEF TypeOK, NodeRecord
  <2>2. nodes' \in [Node -> NodeRecord]
    BY <1>3, <2>1 DEF GoesQuiet, TypeOK
  <2> QED
    BY <1>3, <1>f, <2>2 DEF GoesQuiet, TypeOK, Calling, hosts, sessions
<1>4. ASSUME NEW p \in procs[n], ProcessExits(n, p) PROVE TypeOK' /\ Calling'
  <2>1. procs' \in [Node -> SUBSET StartType]
    BY <1>4 DEF ProcessExits, TypeOK
  <2> QED
    BY <1>4, <1>f, <2>1 DEF ProcessExits, TypeOK, Calling, sessions
<1>5. ASSUME NEW max \in Budgets, Register(n, max) PROVE TypeOK' /\ Calling'
  <2>1. max \in Nat /\ nodes[n] \in NodeRecord
    BY ControlPlaneAssumption DEF ControlPlaneAssumption, TypeOK
  <2>2. [nodes[n] EXCEPT !.status = "up", !.max = max, !.quiet = FALSE] \in NodeRecord
    BY <2>1 DEF NodeRecord
  <2>3. nodes' = [nodes EXCEPT ![n] =
            [nodes[n] EXCEPT !.status = "up", !.max = max, !.quiet = FALSE]]
    BY <1>5, <2>1 DEF Register, TypeOK, NodeRecord
  <2>4. nodes' \in [Node -> NodeRecord]
    BY <2>2, <2>3 DEF TypeOK
  <2>5. procs' \in [Node -> SUBSET StartType] /\ budget' \in [Node -> Nat]
    BY <1>5, <2>1 DEF Register, TypeOK
  <2>6. strayed' \in SUBSET Agent
    <3>1. {p.agent : p \in {q \in procs[n] : q.epoch # 0}} \subseteq Agent
      BY DEF TypeOK, StartType
    <3>2. PICK left \in SUBSET {p.agent : p \in {q \in procs[n] : q.epoch # 0}} :
              strayed' = strayed \cup left
      BY <1>5 DEF Register
    <3> QED
      BY <3>1, <3>2 DEF TypeOK
  <2> QED
    BY <1>5, <1>f, <2>4, <2>5, <2>6 DEF Register, TypeOK, Calling, sessions
<1> QED
  BY <1>1, <1>2, <1>3, <1>4, <1>5

LEMMA RestartType ==
    ASSUME TypeOK, Calling, NEW silent \in SUBSET Node, Restart(silent)
    PROVE  TypeOK' /\ Calling'
<1>1. agents' \in [Agent -> AgentRecord]
  BY DEF Restart, TypeOK, DiskRecord
<1>2. nodes' \in [Node -> NodeRecord]
  <2>1. ASSUME NEW n \in Node
        PROVE  [nodes[n] EXCEPT !.status = disk.status[n], !.max = disk.max[n],
                                !.quiet = @ \/ n \in silent] \in NodeRecord
    <3>1. nodes[n] \in NodeRecord
      BY DEF TypeOK
    <3>2. disk.status[n] \in {"up", "down"} /\ disk.max[n] \in Nat
      BY DEF TypeOK, DiskRecord
    <3>3. (nodes[n].quiet \/ n \in silent) \in BOOLEAN
      OBVIOUS
    <3> QED
      BY <3>1, <3>2, <3>3 DEF NodeRecord
  <2> QED
    BY <2>1 DEF Restart
<1>3. ASSUME NEW n \in Node PROVE beats'[n] \in BeatRecord /\ CallOf(beats'[n])
  <2>1. beats'[n] = IF beats[n].phase = "reply" THEN beats[n] ELSE NoBeat
    BY DEF Restart
  <2>2. CASE beats[n].phase = "reply"
    BY <2>1, <2>2 DEF TypeOK, CallOf
  <2>3. CASE beats[n].phase # "reply"
    BY <2>1, <2>3, NoBeatType DEF NoBeat, CallOf
  <2> QED
    BY <2>2, <2>3
<1>4. beats' \in [Node -> BeatRecord] /\ Calling'
  BY <1>3 DEF Restart, Calling, CallOf
<1>5. late' \in [Agent -> Nat]
  <2> DEFINE calls(a) ==
        {n \in Node : beats[n].phase = "opening" /\ beats[n].current = a}
  <2>1. ASSUME NEW a \in Agent PROVE Cardinality(calls(a)) \in Nat
    <3>1. IsFiniteSet(calls(a))
      BY FS_Subset, ControlPlaneAssumption DEF ControlPlaneAssumption
    <3> QED
      BY <3>1, FS_CardinalityType
  <2>2. ASSUME NEW a \in Agent PROVE late[a] + Cardinality(calls(a)) \in Nat
    BY <2>1 DEF TypeOK
  <2> QED
    BY <2>2 DEF Restart, TypeOK
<1>6. restarts' \in 0..MaxRestarts
  <2>1. restarts < MaxRestarts /\ restarts' = restarts + 1
    BY DEF Restart
  <2>2. restarts \in 0..MaxRestarts
    BY DEF TypeOK
  <2> QED
    BY <2>1, <2>2, ControlPlaneAssumption DEF ControlPlaneAssumption
<1>7. UNCHANGED <<turn, placing, signer, hosts, disk, strayed, faults, stops>>
  BY DEF Restart
<1> QED
  BY <1>1, <1>2, <1>4, <1>5, <1>6, <1>7 DEF TypeOK, hosts

LEMMA Types == Spec => [](TypeOK /\ Calling)
<1>1. Init => TypeOK /\ Calling
  <2>1. NoBeat.phase = "idle"
    BY DEF NoBeat
  <2>2. Init => Calling
    BY <2>1 DEF Init, Calling
  <2> QED
    BY <2>2, InitType
<1>2. TypeOK /\ Calling /\ [Next]_vars => (TypeOK /\ Calling)'
  <2> SUFFICES ASSUME TypeOK, Calling, [Next]_vars PROVE TypeOK' /\ Calling'
    OBVIOUS
  <2>1. ASSUME UNCHANGED vars PROVE TypeOK' /\ Calling'
    BY <2>1 DEF vars, TypeOK, Calling
  <2>2. ASSUME NEW a \in Agent, Start(a) \/ Stop(a) \/ Delete(a)
        PROVE  TypeOK' /\ Calling'
    <3>1. UNCHANGED beats
      BY <2>2 DEF Start, Stop, Delete
    <3> QED
      BY <2>2, <3>1, RequestType DEF Calling
  <2>3. ASSUME SweepStep PROVE TypeOK' /\ Calling'
    <3>1. UNCHANGED beats
      BY <2>3 DEF SweepStep, SweepBegins, SweepPlaces
    <3> QED
      BY <2>3, <3>1, SweepType DEF Calling
  <2>4. ASSUME NEW n \in Node, BeatArrives(n) \/ LoopStep(n) PROVE TypeOK' /\ Calling'
    BY <2>4, BeatType
  <2>5. ASSUME NEW n \in Node, SignerOpens(n) \/ OpenReturns(n) \/ OpenFails(n)
        PROVE  TypeOK' /\ Calling'
    BY <2>5, SessionType
  <2>6. ASSUME NEW n \in Node,
               \/ HostApplies(n) \/ ReplyLost(n) \/ GoesQuiet(n)
               \/ \E p \in procs[n] : ProcessExits(n, p)
               \/ \E max \in Budgets : Register(n, max)
        PROVE  TypeOK' /\ Calling'
    BY <2>6, HostType
  <2>7. ASSUME NEW a \in Agent, SignerOpensLate(a) PROVE TypeOK' /\ Calling'
    <3>1. late' \in [Agent -> Nat] /\ signer' \in [Agent -> Nat]
      <4>1. late[a] - 1 \in Nat /\ signer[a] + 1 \in Nat
        BY <2>7 DEF SignerOpensLate, TypeOK
      <4> QED
        BY <2>7, <4>1 DEF SignerOpensLate, TypeOK
    <3> QED
      BY <2>7, <3>1 DEF SignerOpensLate, TypeOK, Calling, hosts, counters
  <2>8. ASSUME NEW silent \in SUBSET Node, Restart(silent) PROVE TypeOK' /\ Calling'
    BY <2>8, RestartType
  <2> QED
    BY <2>1, <2>2, <2>3, <2>4, <2>5, <2>6, <2>7, <2>8 DEF Next
<1> QED
  BY <1>1, <1>2, PTL DEF Spec

-----------------------------------------------------------------------------
(* Placements.                                                                *)

Up     == {n \in Node : nodes[n].status = "up"}
DiskUp == {n \in Node : disk.status[n] = "up"}

\* The record of agent a is sound while the nodes `up` are up.
Sound(a, r, up) ==
    /\ r.state = "scheduled" => r.node # NoNode /\ Wanted(r)
    /\ r.node # NoNode => <<r.node, a>> \in Satisfies
    /\ r.known /\ Wanted(r) /\ r.node # NoNode => r.node \in up

\* So is every record of the store, and every record a restart would find.
Placed ==
    \A a \in Agent : Sound(a, agents[a], Up) /\ Sound(a, disk.agents[a], DiskUp)

LEMMA PlacedPersists ==
    ASSUME Placed, \A a \in Agent : Sound(a, agents'[a], Up'),
           Persist \/ UNCHANGED disk
    PROVE  Placed'
<1>1. CASE UNCHANGED disk
  <2>1. DiskUp' = DiskUp
    BY <1>1 DEF DiskUp
  <2> QED
    BY <1>1, <2>1 DEF Placed, Sound
<1>2. CASE Persist
  <2>1. disk' = Image(agents', nodes')
    BY <1>2 DEF Persist
  <2>2. disk'.agents = agents' /\ \A n \in Node : disk'.status[n] = nodes'[n].status
    BY <2>1 DEF Image
  <2>3. DiskUp' = Up'
    BY <2>2 DEF DiskUp, Up
  <2> QED
    BY <2>2, <2>3 DEF Placed, Sound
<1> QED
  BY <1>1, <1>2

\* A step that writes one record and takes no node down.
LEMMA PlacedPut ==
    ASSUME TypeOK, Placed, NEW a \in Agent, NEW r \in AgentRecord, Put(a, r),
           Sound(a, r, Up'), Up \subseteq Up', Persist \/ UNCHANGED disk
    PROVE  Placed'
<1>1. ASSUME NEW c \in Agent PROVE Sound(c, agents'[c], Up')
  <2>1. CASE c = a
    BY <2>1, PutType DEF TypeOK
  <2>2. CASE c # a
    <3>1. agents'[c] = agents[c]
      BY <2>2, PutType DEF TypeOK
    <3> QED
      BY <3>1 DEF Placed, Sound
  <2> QED
    BY <2>1, <2>2
<1> QED
  BY <1>1, PlacedPersists

LEMMA PlacedSame ==
    ASSUME Placed, UNCHANGED <<agents, disk>>, Up \subseteq Up' PROVE Placed'
<1>1. \A a \in Agent : Sound(a, agents'[a], Up')
  BY DEF Placed, Sound
<1> QED
  BY <1>1, PlacedPersists

LEMMA ScheduledSound ==
    ASSUME TypeOK, NEW a \in Agent, NEW r \in AgentRecord, NEW q \in Scheduled(a, r),
           ~Wanted(r) \/ OnLiveNode(r) => Sound(a, r, Up)
    PROVE  q \in AgentRecord /\ Sound(a, q, Up)
<1>1. q \in AgentRecord /\ q.desired = r.desired
  BY ScheduledKeeps
<1>2. CASE q = r /\ (~Wanted(r) \/ OnLiveNode(r))
  BY <1>1, <1>2
<1>3. CASE Wanted(r) /\ q.node = NoNode /\ q.state = "pending"
  BY <1>1, <1>3 DEF Sound
<1>4. CASE /\ Wanted(r) /\ q.node \in Node /\ nodes[q.node].status = "up"
           /\ <<q.node, a>> \in Satisfies /\ q.state = "scheduled"
  BY <1>1, <1>4, ControlPlaneAssumption DEF Sound, Up, Wanted, ControlPlaneAssumption
<1> QED
  BY <1>2, <1>3, <1>4, ScheduledKeeps

LEMMA PlacedByRequest ==
    ASSUME TypeOK, Placed, NEW a \in Agent, Start(a) \/ Stop(a) \/ Delete(a)
    PROVE  Placed'
<1>a. agents[a] \in AgentRecord /\ Sound(a, agents[a], Up)
  BY AgentType DEF Placed
<1>1. UNCHANGED nodes /\ Persist /\ Up' = Up
  BY DEF Start, Stop, Delete, Up
<1>2. CASE Start(a)
  <2> DEFINE r == [agents[a] EXCEPT
                    !.desired = "running",
                    !.state = IF @ \in {"stopped", "failed"} THEN "pending" ELSE @]
  <2>1. r \in AgentRecord
    BY <1>a DEF AgentRecord, AgentState
  <2>2. /\ r.node = agents[a].node /\ r.desired = "running"
        /\ r.state = "scheduled" => agents[a].state = "scheduled"
    BY <1>a DEF AgentRecord, AgentState
  <2>3. ~Wanted(r) \/ OnLiveNode(r) => Sound(a, r, Up)
    BY <1>a, <2>1, <2>2 DEF Sound, OnLiveNode, Wanted, Up, AgentRecord
  <2>4. PICK q \in Scheduled(a, r) : Put(a, q)
    BY <1>2 DEF Start
  <2>5. q \in AgentRecord /\ Sound(a, q, Up)
    BY <2>1, <2>3, ScheduledSound
  <2> QED
    BY <1>1, <2>4, <2>5, PlacedPut
<1>3. CASE Stop(a)
  <2> DEFINE r == [agents[a] EXCEPT !.desired = "stopped",
                      !.state = IF @ = "running" THEN "stopping" ELSE "stopped"]
  <2>1. r \in AgentRecord
    BY <1>a DEF AgentRecord, AgentState
  <2>2. r.node = agents[a].node /\ r.desired = "stopped" /\ r.state # "scheduled"
    BY <1>a DEF AgentRecord, AgentState
  <2>3. Sound(a, r, Up)
    BY <1>a, <2>2 DEF Sound, Wanted
  <2> QED
    BY <1>1, <1>3, <2>1, <2>3, PlacedPut DEF Stop
<1>4. CASE Delete(a)
  <2> DEFINE r == [agents[a] EXCEPT !.known = FALSE]
  <2>1. r \in AgentRecord
    BY <1>a DEF AgentRecord
  <2>2. /\ r.node = agents[a].node /\ r.desired = agents[a].desired /\ ~r.known
        /\ r.state = agents[a].state
    BY <1>a DEF AgentRecord
  <2>3. Sound(a, r, Up)
    BY <1>a, <2>2 DEF Sound, Wanted
  <2> QED
    BY <1>1, <1>4, <2>1, <2>3, PlacedPut DEF Delete
<1> QED
  BY <1>2, <1>3, <1>4

LEMMA PlacedBySweep ==
    ASSUME TypeOK, Placed, SweepStep
    PROVE  Placed'
<1>1. ASSUME NEW stuck \in SUBSET Agent, SweepBegins(stuck) PROVE Placed'
  <2> DEFINE down == {n \in Node : nodes[n].status = "up" /\ nodes[n].quiet}
             lost == {a \in Listed : Wanted(agents[a]) /\ agents[a].node \in down}
             swept(a) ==
               IF a \in lost
               THEN [agents[a] EXCEPT !.state = "failed", !.node = NoNode]
               ELSE IF a \in stuck
               THEN [agents[a] EXCEPT !.failed = @ \cup {agents[a].node},
                                      !.node = NoNode, !.state = "pending"]
               ELSE agents[a]
  <2>1. Up' = Up \ down
    <3>1. \A n \in Node : nodes[n] \in NodeRecord
      BY DEF TypeOK
    <3>2. \A n \in Node : nodes'[n] = IF n \in down THEN [nodes[n] EXCEPT !.status = "down"]
                                                   ELSE nodes[n]
      BY <1>1 DEF SweepBegins
    <3>3. \A n \in Node : nodes'[n].status = IF n \in down THEN "down" ELSE nodes[n].status
      BY <3>1, <3>2 DEF NodeRecord
    <3> QED
      BY <3>3 DEF Up
  <2>2. ASSUME NEW a \in Agent PROVE Sound(a, agents'[a], Up')
    <3>a. agents[a] \in AgentRecord /\ Sound(a, agents[a], Up)
      BY AgentType DEF Placed
    <3>b. agents'[a] = swept(a)
      BY <1>1 DEF SweepBegins
    <3>1. CASE a \in lost
      <4>1. swept(a).node = NoNode /\ swept(a).state = "failed"
        BY <3>a, <3>1 DEF AgentRecord
      <4> QED
        BY <3>b, <4>1 DEF Sound
    <3>2. CASE a \notin lost /\ a \in stuck
      <4>1. swept(a).node = NoNode /\ swept(a).state = "pending"
        BY <3>a, <3>2 DEF AgentRecord
      <4> QED
        BY <3>b, <4>1 DEF Sound
    <3>3. CASE a \notin lost /\ a \notin stuck
      BY <2>1, <3>a, <3>b, <3>3 DEF Sound, Listed
    <3> QED
      BY <3>1, <3>2, <3>3
  <2>3. Persist \/ UNCHANGED disk
    BY <1>1 DEF SweepBegins
  <2> QED
    BY <2>2, <2>3, PlacedPersists
<1>2. ASSUME NEW a \in Agent, SweepPlaces(a) PROVE Placed'
  <2>1. PICK q \in Scheduled(a, agents[a]) : Put(a, q)
    BY <1>2 DEF SweepPlaces
  <2>2. q \in AgentRecord /\ Sound(a, q, Up)
    BY AgentType, ScheduledSound DEF Placed
  <2>3. Up' = Up /\ (Persist \/ UNCHANGED disk)
    BY <1>2 DEF SweepPlaces, Up
  <2> QED
    BY <2>1, <2>2, <2>3, PlacedPut
<1> QED
  BY <1>1, <1>2 DEF SweepStep

LEMMA PlacedByBeat ==
    ASSUME TypeOK, Calling, Placed, NEW n \in Node, BeatArrives(n) \/ LoopStep(n)
    PROVE  Placed'
<1>1. CASE BeatArrives(n)
  <2>1. Up \subseteq Up'
    BY <1>1 DEF BeatArrives, Up, TypeOK, NodeRecord
  <2> QED
    BY <1>1, <2>1, PlacedSame DEF BeatArrives
<1>2. ASSUME NEW a \in Agent,
             \/ Bounce(n, a) \/ PushStart(n, a) \/ AskSession(n, a)
             \/ Confirm(n, a) \/ Drain(n, a) \/ Drained(n, a)
      PROVE  Placed'
  <2>a. agents[a] \in AgentRecord /\ Sound(a, agents[a], Up)
    BY AgentType DEF Placed
  <2>1. Up' = Up /\ UNCHANGED disk
    BY <1>2 DEF Bounce, PushStart, AskSession, Confirm, Drain, Drained, Up
  <2>2. CASE PushStart(n, a) \/ AskSession(n, a)
    BY <2>1, <2>2, PlacedSame DEF PushStart, AskSession
  <2>3. CASE Bounce(n, a)
    <3> DEFINE r == [agents[a] EXCEPT !.node = NoNode, !.state = "pending"]
    <3>1. r \in AgentRecord /\ r.node = NoNode /\ r.state = "pending"
      BY <2>a DEF AgentRecord, AgentState
    <3>2. Sound(a, r, Up)
      BY <3>1 DEF Sound
    <3> QED
      BY <2>1, <2>3, <3>1, <3>2, PlacedPut DEF Bounce
  <2>4. ASSUME NEW r \in AgentRecord, Put(a, r), r.node = agents[a].node,
               r.desired = agents[a].desired, r.known = agents[a].known,
               r.state # "scheduled"
        PROVE  Placed'
    <3>1. Sound(a, r, Up)
      BY <2>a, <2>4 DEF Sound, Wanted
    <3> QED
      BY <2>1, <2>4, <3>1, PlacedPut
  <2>5. CASE Confirm(n, a)
    <3> DEFINE r == [agents[a] EXCEPT !.state = "running", !.failed = {}]
    <3>1. /\ r \in AgentRecord /\ r.node = agents[a].node /\ r.state = "running"
          /\ r.desired = agents[a].desired /\ r.known = agents[a].known
      BY <2>a DEF AgentRecord, AgentState
    <3> QED
      BY <2>4, <2>5, <3>1 DEF Confirm
  <2>6. ASSUME NEW s \in {"stopping", "stopped"}, Put(a, [agents[a] EXCEPT !.state = s])
        PROVE  Placed'
    <3> DEFINE r == [agents[a] EXCEPT !.state = s]
    <3>1. /\ r \in AgentRecord /\ r.node = agents[a].node /\ r.state = s
          /\ r.desired = agents[a].desired /\ r.known = agents[a].known
      BY <2>a DEF AgentRecord, AgentState
    <3> QED
      BY <2>4, <2>6, <3>1
  <2>7. CASE Drain(n, a) \/ Drained(n, a)
    BY <2>6, <2>7 DEF Drain, Drained
  <2> QED
    BY <1>2, <2>2, <2>3, <2>5, <2>7
<1>3. CASE BeatEnds(n)
  <2>1. Up' = Up
    BY <1>3 DEF BeatEnds, Up
  <2>2. ASSUME NEW a \in Agent PROVE Sound(a, agents'[a], Up')
    <3>1. agents[a] \in AgentRecord /\ Sound(a, agents[a], Up)
      BY AgentType DEF Placed
    <3>2. agents'[a] = agents[a] \/ agents'[a] = [agents[a] EXCEPT !.age = @ + 1]
      BY <1>3 DEF BeatEnds
    <3>3. /\ agents'[a].node = agents[a].node /\ agents'[a].state = agents[a].state
          /\ agents'[a].desired = agents[a].desired /\ agents'[a].known = agents[a].known
      BY <3>1, <3>2 DEF AgentRecord
    <3> QED
      BY <2>1, <3>1, <3>3 DEF Sound, Wanted
  <2> QED
    BY <1>3, <2>2, PlacedPersists DEF BeatEnds
<1> QED
  BY <1>1, <1>2, <1>3 DEF LoopStep

LEMMA PlacedBySession ==
    ASSUME TypeOK, Calling, Placed, NEW n \in Node,
           SignerOpens(n) \/ OpenReturns(n) \/ OpenFails(n)
    PROVE  Placed'
<1> DEFINE a == beats[n].current
           r == [agents[a] EXCEPT
                   !.session = [epoch |-> beats[n].got, node |-> agents[a].node]]
<1>1. Up' = Up
  BY DEF SignerOpens, OpenReturns, OpenFails, Up
<1>2. CASE SignerOpens(n) \/ OpenFails(n)
  BY <1>1, <1>2, PlacedSame DEF SignerOpens, OpenFails
<1>3. CASE OpenReturns(n)
  <2>1. a \in Agent
    BY <1>3 DEF OpenReturns, Calling
  <2>2. agents[a] \in AgentRecord /\ Sound(a, agents[a], Up)
    BY <2>1, AgentType DEF Placed
  <2>3. beats[n].got \in Nat
    BY DEF TypeOK, BeatRecord
  <2>4. /\ r \in AgentRecord /\ r.node = agents[a].node /\ r.state = agents[a].state
        /\ r.desired = agents[a].desired /\ r.known = agents[a].known
    BY <2>2, <2>3 DEF AgentRecord
  <2>5. Sound(a, r, Up)
    BY <2>2, <2>4 DEF Sound, Wanted
  <2> QED
    BY <1>1, <1>3, <2>1, <2>4, <2>5, PlacedPut DEF OpenReturns
<1> QED
  BY <1>2, <1>3

LEMMA PlacedByHost ==
    ASSUME TypeOK, Placed, NEW n \in Node,
           \/ HostApplies(n) \/ ReplyLost(n) \/ GoesQuiet(n)
           \/ \E p \in procs[n] : ProcessExits(n, p)
           \/ \E max \in Budgets : Register(n, max)
    PROVE  Placed'
<1>1. UNCHANGED <<agents, disk>>
  BY DEF HostApplies, ReplyLost, GoesQuiet, ProcessExits, Register
<1>2. Up \subseteq Up'
  <2>1. CASE UNCHANGED nodes
    BY <2>1 DEF Up
  <2>2. CASE GoesQuiet(n)
    BY <2>2 DEF GoesQuiet, Up, TypeOK, NodeRecord
  <2>3. ASSUME NEW max \in Budgets, Register(n, max) PROVE Up \subseteq Up'
    <3>1. nodes[n] \in NodeRecord
      BY DEF TypeOK
    <3>2. nodes' = [nodes EXCEPT ![n] =
            [nodes[n] EXCEPT !.status = "up", !.max = max, !.quiet = FALSE]]
      BY <2>3, <3>1 DEF Register, TypeOK, NodeRecord
    <3>3. \A m \in Node : nodes'[m].status = IF m = n THEN "up" ELSE nodes[m].status
      BY <3>1, <3>2 DEF TypeOK, NodeRecord
    <3> QED
      BY <3>3 DEF Up
  <2> QED
    BY <2>1, <2>2, <2>3 DEF HostApplies, ReplyLost, ProcessExits
<1> QED
  BY <1>1, <1>2, PlacedSame

LEMMA PlacedByRestart ==
    ASSUME TypeOK, Placed, NEW silent \in SUBSET Node, Restart(silent)
    PROVE  Placed'
<1>1. agents' = disk.agents /\ UNCHANGED disk
  BY DEF Restart
<1>2. Up' = DiskUp
  <2>1. \A n \in Node : nodes[n] \in NodeRecord
    BY DEF TypeOK
  <2>2. \A n \in Node : nodes'[n] = [nodes[n] EXCEPT !.status = disk.status[n],
                                        !.max = disk.max[n], !.quiet = @ \/ n \in silent]
    BY DEF Restart
  <2>3. \A n \in Node : nodes'[n].status = disk.status[n]
    BY <2>1, <2>2 DEF NodeRecord
  <2> QED
    BY <2>3 DEF Up, DiskUp
<1>3. \A a \in Agent : Sound(a, agents'[a], Up')
  BY <1>1, <1>2 DEF Placed, Sound
<1> QED
  BY <1>1, <1>3, PlacedPersists

LEMMA PlacedAlways == Spec => []Placed
<1>1. Init => Placed
  <2>1. ASSUME Init, NEW a \in Agent, NEW up PROVE Sound(a, agents[a], up)
    BY <2>1 DEF Init, Sound
  <2>2. Init => disk.agents = agents
    BY DEF Init, Image
  <2> QED
    BY <2>1, <2>2 DEF Placed
<1>2. TypeOK /\ Calling /\ Placed /\ [Next]_vars => Placed'
  <2> SUFFICES ASSUME TypeOK, Calling, Placed, [Next]_vars PROVE Placed'
    OBVIOUS
  <2>1. CASE UNCHANGED vars
    <3>1. UNCHANGED <<agents, nodes, disk>>
      BY <2>1 DEF vars
    <3> QED
      BY <3>1, PlacedSame DEF Up
  <2>2. ASSUME NEW a \in Agent, SignerOpensLate(a) PROVE Placed'
    BY <2>2, PlacedSame DEF SignerOpensLate, Up
  <2> QED
    BY <2>1, <2>2, PlacedByRequest, PlacedBySweep, PlacedByBeat, PlacedBySession,
       PlacedByHost, PlacedByRestart DEF Next
<1> QED
  BY <1>1, <1>2, Types, PTL DEF Spec

-----------------------------------------------------------------------------
(* Room on the hosts.                                                         *)

\* A finite set of starts or processes, one for each agent in it.
OneEach(S) == IsFiniteSet(S) /\ \A p, q \in S : p.agent = q.agent => p = q

Awaiting(b) == b.phase \in {"opening", "opened"}
Underway(b) == IF Awaiting(b) THEN 1 ELSE 0

\* A handler b at work for a host with `used` processes and a budget of max: its
\* starts are of agents it has dealt with, and together with the one it waits for,
\* with what it counts as free and with what runs, they are within the budget.
Filling(b, used, max) ==
    /\ \A s \in b.starts : s.agent \notin b.todo /\ s.agent # b.current
    /\ b.current \notin b.todo
    /\ used + Cardinality(b.starts) + Underway(b) + b.free <= max
    /\ b.starts # {} \/ Awaiting(b) => b.free >= 0

Replied(b, used, max, filed) ==
    /\ filed = max
    /\ b.starts # {} => used + Cardinality(b.starts) <= max

Roomy(b, ps, max, filed) ==
    /\ OneEach(ps) /\ OneEach(b.starts)
    /\ b.phase = "loop" \/ Awaiting(b) => Filling(b, Cardinality(ps), max)
    /\ b.phase = "reply" => Replied(b, Cardinality(ps), max, filed)

RoomOK == \A n \in Node : Roomy(beats[n], procs[n], nodes[n].max, disk.max[n])

LEMMA OneMore ==
    ASSUME NEW S, OneEach(S), NEW x, \A p \in S : p.agent # x.agent
    PROVE  OneEach(S \cup {x}) /\ Cardinality(S \cup {x}) = Cardinality(S) + 1
<1>1. x \notin S
  OBVIOUS
<1>2. IsFiniteSet(S \cup {x}) /\ Cardinality(S \cup {x}) = Cardinality(S) + 1
  BY <1>1, FS_AddElement DEF OneEach
<1> QED
  BY <1>2 DEF OneEach

LEMMA Fewer ==
    ASSUME NEW S, OneEach(S), NEW T \in SUBSET S
    PROVE  /\ OneEach(T) /\ Cardinality(T) \in Nat /\ Cardinality(S) \in Nat
           /\ Cardinality(T) <= Cardinality(S)
<1>1. IsFiniteSet(T) /\ Cardinality(T) <= Cardinality(S)
  BY FS_Subset DEF OneEach
<1>2. Cardinality(T) \in Nat /\ Cardinality(S) \in Nat
  BY <1>1, FS_CardinalityType DEF OneEach
<1> QED
  BY <1>1, <1>2 DEF OneEach

\* Processes of different agents are as many as their agents.
LEMMA AgentsCount ==
    ASSUME TypeOK, NEW n \in Node, OneEach(procs[n])
    PROVE  Cardinality(procs[n]) <= Cardinality({p.agent : p \in procs[n]})
<1> DEFINE running == {p.agent : p \in procs[n]}
           f == [p \in procs[n] |-> p.agent]
<1>1. f \in [procs[n] -> running]
  OBVIOUS
<1>2. \A p, q \in procs[n] : f[p] = f[q] => p = q
  BY DEF OneEach
<1>3. f \in Injection(procs[n], running)
  BY <1>1, <1>2 DEF Injection, IsInjective
<1>4. IsFiniteSet(running)
  BY RunningFinite
<1> QED
  BY <1>3, <1>4, FS_Injection

\* A step that leaves the handler, the processes and the budget of every other
\* node alone, and persists everything or nothing.
LEMMA RoomyElsewhere ==
    ASSUME RoomOK, Persist \/ UNCHANGED disk, NEW m \in Node,
           beats'[m] = beats[m], procs'[m] = procs[m], nodes'[m].max = nodes[m].max
    PROVE  Roomy(beats'[m], procs'[m], nodes'[m].max, disk'.max[m])
<1>1. CASE UNCHANGED disk
  BY <1>1 DEF RoomOK
<1>2. CASE Persist
  <2>1. disk'.max[m] = nodes'[m].max
    BY <1>2 DEF Persist, Image
  <2> QED
    BY <2>1 DEF RoomOK, Roomy, Replied
<1> QED
  BY <1>1, <1>2

\* A step of the handler of node n: it need only be shown roomy itself.
LEMMA RoomyHere ==
    ASSUME TypeOK, RoomOK, Persist \/ UNCHANGED disk, UNCHANGED procs,
           \A m \in Node : nodes'[m].max = nodes[m].max,
           NEW n \in Node, NEW b, beats' = [beats EXCEPT ![n] = b],
           Roomy(b, procs[n], nodes[n].max, disk'.max[n])
    PROVE  RoomOK'
<1>1. ASSUME NEW m \in Node
      PROVE  Roomy(beats'[m], procs'[m], nodes'[m].max, disk'.max[m])
  <2>1. CASE m = n
    BY <2>1 DEF TypeOK
  <2>2. CASE m # n
    BY <2>2, RoomyElsewhere DEF TypeOK
  <2> QED
    BY <2>1, <2>2
<1> QED
  BY <1>1 DEF RoomOK

\* Steps that concern no handler, process or budget.
LEMMA RoomySame ==
    ASSUME RoomOK, Persist \/ UNCHANGED disk, UNCHANGED <<beats, procs>>,
           \A m \in Node : nodes'[m].max = nodes[m].max
    PROVE  RoomOK'
  BY RoomyElsewhere DEF RoomOK

LEMMA RoomyByStoreStep ==
    ASSUME TypeOK, RoomOK,
           \/ \E a \in Agent : Start(a) \/ Stop(a) \/ Delete(a) \/ SignerOpensLate(a)
           \/ SweepStep
           \/ \E n \in Node : GoesQuiet(n)
    PROVE  RoomOK'
<1>1. ASSUME NEW a \in Agent, Start(a) \/ Stop(a) \/ Delete(a) \/ SignerOpensLate(a)
      PROVE  RoomOK'
  BY <1>1, RoomySame DEF Start, Stop, Delete, SignerOpensLate, hosts
<1>2. ASSUME NEW stuck \in SUBSET Agent, SweepBegins(stuck) PROVE RoomOK'
  <2>1. \A m \in Node :
            nodes'[m] = nodes[m] \/ nodes'[m] = [nodes[m] EXCEPT !.status = "down"]
    BY <1>2 DEF SweepBegins
  <2>2. \A m \in Node : nodes'[m].max = nodes[m].max
    BY <2>1 DEF TypeOK, NodeRecord
  <2>3. UNCHANGED <<beats, procs>> /\ (Persist \/ UNCHANGED disk)
    BY <1>2 DEF SweepBegins, hosts
  <2> QED
    BY <2>2, <2>3, RoomySame
<1>3. ASSUME NEW a \in Agent, SweepPlaces(a) PROVE RoomOK'
  BY <1>3, RoomySame DEF SweepPlaces, hosts
<1>4. ASSUME NEW n \in Node, GoesQuiet(n) PROVE RoomOK'
  <2>1. \A m \in Node : nodes'[m].max = nodes[m].max
    BY <1>4 DEF GoesQuiet, TypeOK, NodeRecord
  <2> QED
    BY <1>4, <2>1, RoomySame DEF GoesQuiet, hosts
<1> QED
  BY <1>1, <1>2, <1>3, <1>4 DEF SweepStep

LEMMA RoomyByBeat ==
    ASSUME TypeOK, Calling, RoomOK, NEW n \in Node, BeatArrives(n) \/ LoopStep(n)
    PROVE  RoomOK'
<1> DEFINE used == Cardinality(procs[n])
           max == nodes[n].max
<1>b. beats[n] \in BeatRecord /\ Roomy(beats[n], procs[n], max, disk.max[n])
  BY DEF TypeOK, RoomOK
<1>u. OneEach(procs[n]) /\ used \in Nat /\ max \in Nat
  <2>1. max \in Nat
    BY DEF TypeOK, NodeRecord
  <2> QED
    BY <1>b, <2>1, FS_CardinalityType DEF Roomy, OneEach
<1>c. OneEach(beats[n].starts) /\ Cardinality(beats[n].starts) \in Nat
  BY <1>b, FS_CardinalityType DEF Roomy, OneEach
<1>1. CASE BeatArrives(n)
  <2> DEFINE running == {p.agent : p \in procs[n]}
             b == [NoBeat EXCEPT
                     !.phase = "loop",
                     !.todo = {a \in Listed : agents[a].node = n},
                     !.free = max - Cardinality(running),
                     !.reported = running]
  <2>1. /\ b.phase = "loop" /\ b.starts = {} /\ b.current = NoAgent
        /\ b.todo \subseteq Agent /\ b.free = max - Cardinality(running)
    BY DEF NoBeat, Listed
  <2>2. used <= Cardinality(running) /\ Cardinality(running) \in Nat
    BY <1>u, AgentsCount, RunningFinite
  <2>3. OneEach({}) /\ Cardinality({}) = 0
    BY FS_EmptySet DEF OneEach
  <2>4. Filling(b, used, max)
    <3> HIDE DEF b, running, used, max
    <3>1. Underway(b) = 0 /\ Cardinality(b.starts) = 0 /\ ~Awaiting(b)
      BY <2>1, <2>3 DEF Awaiting, Underway
    <3>2. used + Cardinality(b.starts) + Underway(b) + b.free <= max
      BY <1>u, <2>1, <2>2, <3>1
    <3>3. b.current \notin b.todo
      BY <2>1, ControlPlaneAssumption DEF ControlPlaneAssumption
    <3> QED
      BY <2>1, <3>1, <3>2, <3>3 DEF Filling
  <2>5. Roomy(b, procs[n], max, disk'.max[n])
    BY <1>u, <2>1, <2>3, <2>4 DEF Roomy
  <2>6. \A m \in Node : nodes'[m].max = nodes[m].max
    BY <1>1 DEF BeatArrives, TypeOK, NodeRecord
  <2>7. UNCHANGED <<procs, disk>> /\ beats' = [beats EXCEPT ![n] = b]
    BY <1>1 DEF BeatArrives, PutBeat, hosts
  <2> QED
    BY <2>5, <2>6, <2>7, RoomyHere
<1>2. ASSUME NEW a \in Agent,
             Bounce(n, a) \/ Confirm(n, a) \/ Drain(n, a) \/ Drained(n, a)
      PROVE  RoomOK'
  <2>1. UNCHANGED <<procs, disk, nodes>> /\ beats[n].phase = "loop"
    BY <1>2 DEF Bounce, Confirm, Drain, Drained, Looping, hosts
  <2>2. PICK b : /\ beats' = [beats EXCEPT ![n] = b]
                 /\ b.phase = "loop" /\ b.starts = beats[n].starts
                 /\ b.current = beats[n].current /\ b.todo \subseteq beats[n].todo
                 /\ b.free = beats[n].free
    <3> DEFINE b1 == [beats[n] EXCEPT !.todo = @ \ {a}]
               b2 == [beats[n] EXCEPT !.todo = @ \ {a}, !.stops = @ \cup {a}]
    <3>1. PutBeat(n, b1) \/ PutBeat(n, b2)
      BY <1>2 DEF Bounce, Confirm, Drain, Drained
    <3>2. /\ b1.phase = "loop" /\ b1.starts = beats[n].starts
          /\ b1.current = beats[n].current /\ b1.todo \subseteq beats[n].todo
          /\ b1.free = beats[n].free
      BY <1>b, <2>1 DEF BeatRecord
    <3>3. /\ b2.phase = "loop" /\ b2.starts = beats[n].starts
          /\ b2.current = beats[n].current /\ b2.todo \subseteq beats[n].todo
          /\ b2.free = beats[n].free
      BY <1>b, <2>1 DEF BeatRecord
    <3> QED
      BY <3>1, <3>2, <3>3 DEF PutBeat
  <2>3. Roomy(b, procs[n], max, disk'.max[n])
    BY <1>b, <2>1, <2>2 DEF Roomy, Filling, Awaiting, Underway
  <2> QED
    BY <2>1, <2>2, <2>3, RoomyHere
<1>3. ASSUME NEW a \in Agent, PushStart(n, a) PROVE RoomOK'
  <2> DEFINE b == [beats[n] EXCEPT !.todo = @ \ {a}, !.free = @ - 1,
                                   !.starts = @ \cup {StartOf(a)}]
  <2>1. /\ UNCHANGED <<procs, disk, nodes>> /\ beats[n].phase = "loop"
        /\ a \in beats[n].todo /\ beats[n].free > 0 /\ PutBeat(n, b)
    BY <1>3 DEF PushStart, Looping, hosts
  <2>2. /\ b.phase = "loop" /\ b.starts = beats[n].starts \cup {StartOf(a)}
        /\ b.current = beats[n].current /\ b.todo = beats[n].todo \ {a}
        /\ b.free = beats[n].free - 1 /\ beats[n].free \in Int
    BY <1>b, <2>1 DEF BeatRecord
  <2>3. Filling(beats[n], used, max)
    BY <1>b, <2>1 DEF Roomy
  <2>4. StartOf(a).agent = a
    BY DEF StartOf
  <2>5. \A s \in beats[n].starts : s.agent # StartOf(a).agent
    BY <2>1, <2>3, <2>4 DEF Filling
  <2>6. OneEach(b.starts) /\ Cardinality(b.starts) = Cardinality(beats[n].starts) + 1
    BY <1>c, <2>2, <2>5, OneMore
  <2>7. Filling(b, used, max)
    <3>1. \A s \in b.starts : s.agent \notin b.todo /\ s.agent # b.current
      BY <2>1, <2>2, <2>3, <2>4 DEF Filling
    <3>2. b.current \notin b.todo
      BY <2>2, <2>3 DEF Filling
    <3>3. used + Cardinality(b.starts) + Underway(b) + b.free <= max
      BY <1>u, <1>c, <2>1, <2>2, <2>3, <2>6 DEF Filling, Underway, Awaiting
    <3> QED
      BY <2>1, <2>2, <3>1, <3>2, <3>3 DEF Filling
  <2>8. Roomy(b, procs[n], max, disk'.max[n])
    BY <1>u, <2>2, <2>6, <2>7 DEF Roomy
  <2> QED
    BY <2>1, <2>8, RoomyHere DEF PutBeat
<1>4. ASSUME NEW a \in Agent, AskSession(n, a) PROVE RoomOK'
  <2> DEFINE b == [beats[n] EXCEPT !.todo = @ \ {a}, !.free = @ - 1,
                                   !.phase = "opening", !.current = a,
                                   !.asked = agents[a].node]
  <2>1. /\ UNCHANGED <<procs, disk, nodes>> /\ beats[n].phase = "loop"
        /\ a \in beats[n].todo /\ beats[n].free > 0 /\ PutBeat(n, b)
    BY <1>4 DEF AskSession, Looping, hosts
  <2>2. /\ b.phase = "opening" /\ b.starts = beats[n].starts
        /\ b.current = a /\ b.todo = beats[n].todo \ {a}
        /\ b.free = beats[n].free - 1 /\ beats[n].free \in Int
    BY <1>b, <2>1 DEF BeatRecord
  <2>3. Filling(beats[n], used, max)
    BY <1>b, <2>1 DEF Roomy
  <2>4. Filling(b, used, max)
    <3>1. \A s \in b.starts : s.agent \notin b.todo /\ s.agent # b.current
      BY <2>1, <2>2, <2>3 DEF Filling
    <3>2. used + Cardinality(b.starts) + Underway(b) + b.free <= max
      BY <1>u, <1>c, <2>1, <2>2, <2>3 DEF Filling, Underway, Awaiting
    <3> QED
      BY <2>1, <2>2, <3>1, <3>2 DEF Filling
  <2>5. Roomy(b, procs[n], max, disk'.max[n])
    BY <1>u, <1>c, <2>2, <2>4 DEF Roomy
  <2> QED
    BY <2>1, <2>5, RoomyHere DEF PutBeat
<1>5. CASE BeatEnds(n)
  <2> DEFINE b == [beats[n] EXCEPT !.phase = "reply", !.free = 0, !.reported = {},
                                   !.stops = @ \cup Orphans(n)]
  <2>1. /\ UNCHANGED <<procs, nodes>> /\ Persist /\ beats[n].phase = "loop"
        /\ PutBeat(n, b)
    BY <1>5 DEF BeatEnds, hosts
  <2>2. b.phase = "reply" /\ b.starts = beats[n].starts /\ beats[n].free \in Int
    BY <1>b DEF BeatRecord
  <2>3. Filling(beats[n], used, max)
    BY <1>b, <2>1 DEF Roomy
  <2>4. disk'.max[n] = max
    BY <2>1 DEF Persist, Image
  <2>5. Replied(b, used, max, disk'.max[n])
    BY <1>u, <1>c, <2>1, <2>2, <2>3, <2>4 DEF Replied, Filling, Underway, Awaiting
  <2>6. Roomy(b, procs[n], max, disk'.max[n])
    BY <1>u, <1>c, <2>2, <2>5 DEF Roomy, Awaiting
  <2> QED
    BY <2>1, <2>6, RoomyHere DEF PutBeat
<1> QED
  BY <1>1, <1>2, <1>3, <1>4, <1>5 DEF LoopStep

LEMMA RoomyBySession ==
    ASSUME TypeOK, Calling, RoomOK, NEW n \in Node,
           SignerOpens(n) \/ OpenReturns(n) \/ OpenFails(n)
    PROVE  RoomOK'
<1> DEFINE used == Cardinality(procs[n])
           max == nodes[n].max
           a == beats[n].current
<1>b. /\ beats[n] \in BeatRecord /\ Roomy(beats[n], procs[n], max, disk.max[n])
      /\ Awaiting(beats[n])
  BY DEF TypeOK, RoomOK, SignerOpens, OpenReturns, OpenFails, Awaiting
<1>u. OneEach(procs[n]) /\ used \in Nat /\ max \in Nat
  <2>1. max \in Nat
    BY DEF TypeOK, NodeRecord
  <2> QED
    BY <1>b, <2>1, FS_CardinalityType DEF Roomy, OneEach
<1>c. OneEach(beats[n].starts) /\ Cardinality(beats[n].starts) \in Nat
  BY <1>b, FS_CardinalityType DEF Roomy, OneEach
<1>f. Filling(beats[n], used, max) /\ a \in Agent
  BY <1>b DEF Roomy, Awaiting, Calling
<1>1. CASE SignerOpens(n)
  <2> DEFINE b == [beats[n] EXCEPT !.phase = "opened", !.got = signer[a] + 1]
  <2>1. /\ b.phase = "opened" /\ b.starts = beats[n].starts /\ b.current = a
        /\ b.todo = beats[n].todo /\ b.free = beats[n].free
    BY <1>b DEF BeatRecord
  <2>2. Roomy(b, procs[n], max, disk'.max[n])
    BY <1>b, <1>c, <1>u, <1>f, <2>1 DEF Roomy, Filling, Awaiting, Underway
  <2>3. UNCHANGED <<procs, disk, nodes>> /\ beats' = [beats EXCEPT ![n] = b]
    BY <1>1 DEF SignerOpens, hosts, PutBeat
  <2> QED
    BY <2>2, <2>3, RoomyHere
<1>2. ASSUME OpenReturns(n) \/ OpenFails(n) PROVE RoomOK'
  <2>1. PICK s \in {StartOf(a), [agent |-> a, epoch |-> beats[n].got]} :
            PutBeat(n, [beats[n] EXCEPT
              !.phase = "loop", !.current = NoAgent, !.asked = NoNode, !.got = 0,
              !.starts = @ \cup {s}])
    BY <1>2 DEF OpenReturns, OpenFails
  <2> DEFINE b == [beats[n] EXCEPT
              !.phase = "loop", !.current = NoAgent, !.asked = NoNode, !.got = 0,
              !.starts = @ \cup {s}]
  <2>2. /\ b.phase = "loop" /\ b.starts = beats[n].starts \cup {s}
        /\ b.current = NoAgent /\ b.todo = beats[n].todo /\ b.free = beats[n].free
        /\ beats[n].free \in Int /\ b.todo \subseteq Agent
    BY <1>b DEF BeatRecord
  <2>3. s.agent = a
    BY DEF StartOf
  <2>4. OneEach(b.starts) /\ Cardinality(b.starts) = Cardinality(beats[n].starts) + 1
    <3>1. \A p \in beats[n].starts : p.agent # s.agent
      BY <1>f, <2>3 DEF Filling
    <3> QED
      BY <1>c, <2>2, <3>1, OneMore
  <2>5. Filling(b, used, max)
    <3>1. \A p \in b.starts : p.agent \in Agent
      <4>1. \A p \in beats[n].starts : p.agent \in Agent
        BY <1>b DEF BeatRecord, StartType
      <4> QED
        BY <1>f, <2>2, <2>3, <4>1
    <3>2. NoAgent \notin Agent
      BY ControlPlaneAssumption DEF ControlPlaneAssumption
    <3>3. \A p \in b.starts : p.agent \notin b.todo /\ p.agent # b.current
      BY <1>f, <2>2, <2>3, <3>1, <3>2 DEF Filling
    <3>4. b.current \notin b.todo
      BY <2>2, <3>2
    <3>5. Underway(beats[n]) = 1 /\ Underway(b) = 0
      BY <1>b, <2>2 DEF Underway, Awaiting
    <3>6. used + Cardinality(b.starts) + Underway(b) + b.free <= max
      BY <1>u, <1>c, <1>f, <2>2, <2>4, <3>5 DEF Filling
    <3>7. b.free >= 0
      BY <1>b, <1>f, <2>2 DEF Filling
    <3> QED
      BY <3>3, <3>4, <3>6, <3>7 DEF Filling
  <2>6. Roomy(b, procs[n], max, disk'.max[n])
    BY <1>u, <2>2, <2>4, <2>5 DEF Roomy
  <2>7. UNCHANGED <<procs, nodes>> /\ (Persist \/ UNCHANGED disk)
    BY <1>2 DEF OpenReturns, OpenFails, hosts
  <2> QED
    BY <2>1, <2>6, <2>7, RoomyHere DEF PutBeat
<1> QED
  BY <1>1, <1>2

LEMMA NoBeatRoomy ==
    ASSUME NEW ps, OneEach(ps), NEW max, NEW filed PROVE Roomy(NoBeat, ps, max, filed)
<1>1. NoBeat.phase = "idle" /\ NoBeat.starts = {}
  BY DEF NoBeat
<1>2. OneEach({})
  BY FS_EmptySet DEF OneEach
<1> QED
  BY <1>1, <1>2 DEF Roomy, Awaiting

\* Steps that change the processes of node n alone.
LEMMA RoomyThere ==
    ASSUME TypeOK, RoomOK, UNCHANGED disk, NEW n \in Node, NEW b, NEW ps, NEW max,
           beats' = [beats EXCEPT ![n] = b], procs' = [procs EXCEPT ![n] = ps],
           \A m \in Node : nodes'[m].max = IF m = n THEN max ELSE nodes[m].max,
           Roomy(b, ps, max, disk.max[n])
    PROVE  RoomOK'
<1>1. ASSUME NEW m \in Node
      PROVE  Roomy(beats'[m], procs'[m], nodes'[m].max, disk'.max[m])
  <2>1. CASE m = n
    BY <2>1 DEF TypeOK
  <2>2. CASE m # n
    BY <2>2, RoomyElsewhere DEF TypeOK
  <2> QED
    BY <2>1, <2>2
<1> QED
  BY <1>1 DEF RoomOK

LEMMA RoomyByHost ==
    ASSUME TypeOK, RoomOK, NEW n \in Node,
           \/ HostApplies(n) \/ ReplyLost(n)
           \/ \E p \in procs[n] : ProcessExits(n, p)
           \/ \E max \in Budgets : Register(n, max)
    PROVE  RoomOK'
<1> DEFINE max == nodes[n].max
<1>b. Roomy(beats[n], procs[n], max, disk.max[n])
  BY DEF RoomOK
<1>o. OneEach(procs[n]) /\ OneEach(beats[n].starts)
  BY <1>b DEF Roomy
<1>1. CASE HostApplies(n)
  <2> DEFINE able == {s \in beats[n].starts :
                        /\ s.agent \in nodes[n].runs
                        /\ \A p \in procs[n] : p.agent # s.agent}
  <2>1. PICK new \in SUBSET able :
            procs' = [procs EXCEPT
                ![n] = {p \in procs[n] \cup new : p.agent \notin beats[n].stops}]
    BY <1>1 DEF HostApplies
  <2> DEFINE ps == {p \in procs[n] \cup new : p.agent \notin beats[n].stops}
  <2>2. OneEach(procs[n] \cup new)
    <3>1. OneEach(new)
      BY <1>o, Fewer
    <3>2. IsFiniteSet(procs[n] \cup new)
      BY <1>o, <3>1, FS_Union DEF OneEach
    <3>3. \A p \in procs[n], s \in new : p.agent # s.agent
      OBVIOUS
    <3> QED
      BY <1>o, <3>1, <3>2, <3>3 DEF OneEach
  <2>3. OneEach(ps)
    BY <2>2, Fewer
  <2>4. Roomy(NoBeat, ps, max, disk.max[n])
    BY <2>3, NoBeatRoomy
  <2>5. UNCHANGED <<nodes, disk>> /\ beats' = [beats EXCEPT ![n] = NoBeat]
    BY <1>1 DEF HostApplies, PutBeat
  <2>6. \A m \in Node : nodes'[m].max = IF m = n THEN max ELSE nodes[m].max
    BY <2>5
  <2> QED
    BY <2>1, <2>4, <2>5, <2>6, RoomyThere
<1>2. CASE ReplyLost(n)
  <2>1. Roomy(NoBeat, procs[n], max, disk'.max[n])
    BY <1>o, NoBeatRoomy
  <2> QED
    BY <1>2, <2>1, RoomyHere DEF ReplyLost, PutBeat, hosts
<1>3. ASSUME NEW p \in procs[n], ProcessExits(n, p) PROVE RoomOK'
  <2> DEFINE ps == procs[n] \ {p}
  <2>1. /\ OneEach(ps) /\ Cardinality(ps) \in Nat /\ Cardinality(procs[n]) \in Nat
        /\ Cardinality(ps) <= Cardinality(procs[n])
    BY <1>o, Fewer
  <2>2. /\ Cardinality(beats[n].starts) \in Nat /\ max \in Nat
        /\ beats[n].free \in Int
    BY <1>o, FS_CardinalityType DEF OneEach, TypeOK, BeatRecord, NodeRecord
  <2>3. Filling(beats[n], Cardinality(procs[n]), max)
        => Filling(beats[n], Cardinality(ps), max)
    BY <2>1, <2>2 DEF Filling, Underway
  <2>4. Replied(beats[n], Cardinality(procs[n]), max, disk.max[n])
        => Replied(beats[n], Cardinality(ps), max, disk.max[n])
    BY <2>1, <2>2 DEF Replied
  <2>5. Roomy(beats[n], ps, max, disk.max[n])
    BY <1>b, <2>1, <2>3, <2>4 DEF Roomy
  <2>6. /\ UNCHANGED <<nodes, disk, beats>> /\ beats' = [beats EXCEPT ![n] = beats[n]]
        /\ procs' = [procs EXCEPT ![n] = ps]
    BY <1>3 DEF ProcessExits, TypeOK
  <2>7. \A m \in Node : nodes'[m].max = IF m = n THEN max ELSE nodes[m].max
    BY <2>6
  <2> QED
    BY <2>5, <2>6, <2>7, RoomyThere
<1>4. ASSUME NEW big \in Budgets, Register(n, big) PROVE RoomOK'
  <2>1. beats[n].phase = "idle" /\ OneEach({})
    BY <1>4, FS_EmptySet DEF Register, OneEach
  <2>2. Roomy(beats[n], {}, big, disk.max[n])
    BY <1>o, <2>1 DEF Roomy, Awaiting
  <2>3. /\ UNCHANGED disk /\ beats' = [beats EXCEPT ![n] = beats[n]]
        /\ procs' = [procs EXCEPT ![n] = {}]
    BY <1>4 DEF Register, TypeOK
  <2>4. nodes' = [nodes EXCEPT ![n] =
            [nodes[n] EXCEPT !.status = "up", !.max = big, !.quiet = FALSE]]
    BY <1>4 DEF Register, TypeOK, NodeRecord
  <2>5. \A m \in Node : nodes'[m].max = IF m = n THEN big ELSE nodes[m].max
    BY <2>4 DEF TypeOK, NodeRecord
  <2> QED
    BY <2>2, <2>3, <2>5, RoomyThere
<1> QED
  BY <1>1, <1>2, <1>3, <1>4

LEMMA RoomyByRestart ==
    ASSUME TypeOK, RoomOK, NEW silent \in SUBSET Node, Restart(silent)
    PROVE  RoomOK'
<1>1. ASSUME NEW n \in Node
      PROVE  Roomy(beats'[n], procs'[n], nodes'[n].max, disk'.max[n])
  <2>1. /\ beats'[n] = IF beats[n].phase = "reply" THEN beats[n] ELSE NoBeat
        /\ nodes'[n] = [nodes[n] EXCEPT !.status = disk.status[n],
                            !.max = disk.max[n], !.quiet = @ \/ n \in silent]
        /\ UNCHANGED <<procs, disk>>
    BY DEF Restart, hosts
  <2>2. nodes'[n].max = disk.max[n]
    BY <2>1 DEF TypeOK, NodeRecord
  <2>3. Roomy(beats[n], procs[n], nodes[n].max, disk.max[n])
    BY DEF RoomOK
  <2>4. CASE beats[n].phase = "reply"
    BY <2>1, <2>2, <2>3, <2>4 DEF Roomy, Replied
  <2>5. CASE beats[n].phase # "reply"
    BY <2>1, <2>3, <2>5, NoBeatRoomy DEF Roomy
  <2> QED
    BY <2>4, <2>5
<1> QED
  BY <1>1 DEF RoomOK

LEMMA RoomAlways == Spec => []RoomOK
<1>1. Init => RoomOK
  <2>1. OneEach({})
    BY FS_EmptySet DEF OneEach
  <2> QED
    BY <2>1, NoBeatRoomy DEF Init, RoomOK
<1>2. TypeOK /\ Calling /\ RoomOK /\ [Next]_vars => RoomOK'
  <2> SUFFICES ASSUME TypeOK, Calling, RoomOK, [Next]_vars PROVE RoomOK'
    OBVIOUS
  <2>1. CASE UNCHANGED vars
    BY <2>1, RoomySame DEF vars
  <2> QED
    BY <2>1, RoomyByStoreStep, RoomyByBeat, RoomyBySession, RoomyByHost, RoomyByRestart
    DEF Next
<1> QED
  BY <1>1, <1>2, Types, PTL DEF Spec

-----------------------------------------------------------------------------
(* Sessions.                                                                  *)

\* The processes and starts of node n, each with the epoch of its session.
Tokens(n) == procs[n] \cup beats[n].starts

\* The sessions of agent a on record, in memory and on file.
OnRecord(a) == {agents[a].session, disk.agents[a].session}

\* An epoch a handler was answered and has still to hand out.
Answered(n, a) == beats[n].phase = "opened" /\ beats[n].current = a

Bounded ==
    /\ \A n \in Node : \A s \in Tokens(n) : s.epoch <= signer[s.agent]
    /\ \A n \in Node, a \in Agent : Answered(n, a) => beats[n].got <= signer[a]
    /\ \A a \in Agent : \A q \in OnRecord(a) : q.epoch <= signer[a]
    /\ \A a \in Agent : disk.agents[a].known = agents[a].known

\* The newest session of agent a is at node m alone.
At(a, m) ==
    /\ \A n \in Node : \A s \in Tokens(n) :
          s.agent = a /\ s.epoch = signer[a] => n = m
    /\ \A n \in Node : Answered(n, a) /\ beats[n].got = signer[a] => n = m
    /\ \A q \in OnRecord(a) : q.epoch = signer[a] => q.node \in {m, NoNode}

Place == Node \cup {NoNode}

InOnePlace == \A a \in Agent \ strayed : signer[a] # 0 => \E m \in Place : At(a, m)

LeaseInv == Bounded /\ InOnePlace

\* A token, or a session on record, that leaves the newest session where it is.
TokenFits(s, n, astray) ==
    /\ s.epoch <= signer[s.agent]
    /\ s.agent \notin astray /\ s.epoch = signer[s.agent] /\ s.epoch # 0
       => \A m \in Place : At(s.agent, m) => n = m

SessionFits(q, a, astray) ==
    /\ q.epoch <= signer[a]
    /\ a \notin astray /\ q.epoch = signer[a] /\ q.epoch # 0
       => \A m \in Place : At(a, m) => q.node \in {m, NoNode}

\* What Lease asks of a step.
Passed(a) ==
    \/ Traders(a)' = {}
    \/ \E m \in Place : Traders(a) \subseteq {m} /\ Traders(a)' \subseteq {m}

LeaseStep == LeaseInv' /\ \A a \in Agent \ strayed' : Passed(a)

LEMMA OldFits ==
    ASSUME LeaseInv, NEW astray
    PROVE  /\ \A n \in Node : \A s \in Tokens(n) : TokenFits(s, n, astray)
           /\ \A a \in Agent : \A q \in OnRecord(a) : SessionFits(q, a, astray)
  BY DEF LeaseInv, Bounded, TokenFits, SessionFits, At

LEMMA TradersAt ==
    ASSUME TypeOK, NEW a \in Agent, NEW m, At(a, m) PROVE Traders(a) \subseteq {m}
  BY DEF Traders, At, Tokens

\* A step that opens no session and adds only what fits.
LEMMA NoSession ==
    ASSUME TypeOK, TypeOK', LeaseInv, signer' = signer, strayed \subseteq strayed',
           \A n \in Node : \A s \in Tokens(n)' : TokenFits(s, n, strayed'),
           \A a \in Agent : \A q \in OnRecord(a)' : SessionFits(q, a, strayed'),
           \A n \in Node, a \in Agent :
              Answered(n, a)' => Answered(n, a) /\ beats'[n].got = beats[n].got,
           \A a \in Agent : disk'.agents[a].known = agents'[a].known
    PROVE  LeaseStep
<1>1. Bounded'
  BY DEF Bounded, LeaseInv, TokenFits, SessionFits
<1>2. ASSUME NEW a \in Agent, a \notin strayed', signer[a] # 0, NEW m \in Place, At(a, m)
      PROVE  At(a, m)'
  <2>1. \A n \in Node : \A s \in Tokens(n)' :
            s.agent = a /\ s.epoch = signer'[a] => n = m
    BY <1>2 DEF TokenFits
  <2>2. \A n \in Node : Answered(n, a)' /\ beats'[n].got = signer'[a] => n = m
    BY <1>2 DEF At
  <2>3. \A q \in OnRecord(a)' : q.epoch = signer'[a] => q.node \in {m, NoNode}
    BY <1>2 DEF SessionFits
  <2> QED
    BY <2>1, <2>2, <2>3 DEF At
<1>3. InOnePlace'
  BY <1>2 DEF InOnePlace, LeaseInv
<1>4. ASSUME NEW a \in Agent, a \notin strayed' PROVE Passed(a)
  <2>1. CASE signer[a] = 0
    BY <2>1 DEF Passed, Traders
  <2>2. CASE signer[a] # 0
    <3>1. PICK m \in Place : At(a, m)
      BY <1>4, <2>2 DEF LeaseInv, InOnePlace
    <3>2. At(a, m)'
      BY <1>2, <1>4, <2>2, <3>1
    <3>3. Traders(a) \subseteq {m}
      BY <3>1, TradersAt
    <3>4. Traders(a)' \subseteq {m}
      BY <3>2 DEF Traders, At, Tokens
    <3> QED
      BY <3>3, <3>4 DEF Passed
  <2> QED
    BY <2>1, <2>2
<1> QED
  BY <1>1, <1>3, <1>4 DEF LeaseStep, LeaseInv

\* A step that neither opens a session nor hands one out.
LEMMA NothingNew ==
    ASSUME TypeOK, TypeOK', LeaseInv, signer' = signer, strayed \subseteq strayed',
           \A n \in Node : Tokens(n)' \subseteq Tokens(n),
           \A a \in Agent : OnRecord(a)' \subseteq OnRecord(a),
           \A n \in Node, a \in Agent :
              Answered(n, a)' => Answered(n, a) /\ beats'[n].got = beats[n].got,
           \A a \in Agent : disk'.agents[a].known = agents'[a].known
    PROVE  LeaseStep
<1>1. \A n \in Node : \A s \in Tokens(n)' : TokenFits(s, n, strayed')
  BY OldFits
<1>2. \A a \in Agent : \A q \in OnRecord(a)' : SessionFits(q, a, strayed')
  BY OldFits
<1> QED
  BY <1>1, <1>2, NoSession

\* No start is added, and no handler but that of n is answered, for agent c.
AnswersOnly(n, c) ==
    /\ \A m \in Node : beats'[m].starts = beats[m].starts
    /\ \A m \in Node, a \in Agent :
          Answered(m, a)' => \/ Answered(m, a) /\ beats'[m].got = beats[m].got
                             \/ m = n /\ a = c /\ beats'[m].got = signer[c] + 1

\* A step that opens a session of agent c, and answers no handler but that of n.
LEMMA NewSession ==
    ASSUME TypeOK, TypeOK', LeaseInv, NEW c \in Agent, NEW n \in Place,
           signer' = [signer EXCEPT ![c] = @ + 1],
           UNCHANGED <<agents, disk, procs, strayed>>,
           AnswersOnly(n, c)
    PROVE  LeaseStep
<1>s. signer[c] \in Nat /\ signer'[c] = signer[c] + 1
      /\ \A a \in Agent \ {c} : signer'[a] = signer[a]
  BY DEF TypeOK
<1>t. \A m \in Node : Tokens(m)' = Tokens(m)
  BY DEF Tokens, AnswersOnly
<1>r. \A a \in Agent : OnRecord(a)' = OnRecord(a)
  BY DEF OnRecord
<1>n. /\ \A m \in Node : \A s \in Tokens(m) : s.agent \in Agent /\ s.epoch \in Nat
      /\ \A m \in Node : beats[m].got \in Nat
      /\ \A a \in Agent : \A q \in OnRecord(a) : q.epoch \in Nat
      /\ \A a \in Agent : signer[a] \in Nat
  <2>1. \A m \in Node : beats[m].got \in Nat /\ beats[m].starts \subseteq StartType
    BY DEF TypeOK, BeatRecord
  <2>2. \A m \in Node : \A s \in Tokens(m) : s.agent \in Agent /\ s.epoch \in Nat
    BY <2>1 DEF TypeOK, Tokens, StartType
  <2>3. \A a \in Agent : agents[a].session.epoch \in Nat
    BY DEF TypeOK, AgentRecord
  <2>4. \A a \in Agent : disk.agents[a].session.epoch \in Nat
    BY DEF TypeOK, DiskRecord, AgentRecord
  <2> QED
    BY <2>1, <2>2, <2>3, <2>4 DEF OnRecord, TypeOK
<1>1. Bounded'
  <2>1. ASSUME NEW m \in Node, NEW s \in Tokens(m)' PROVE s.epoch <= signer'[s.agent]
    BY <1>s, <1>t, <1>n DEF LeaseInv, Bounded
  <2>2. ASSUME NEW m \in Node, NEW a \in Agent, Answered(m, a)'
        PROVE  beats'[m].got <= signer'[a]
    <3>1. CASE a = c
      BY <1>s, <1>n, <2>2, <3>1 DEF LeaseInv, Bounded, AnswersOnly
    <3>2. CASE a # c
      BY <1>s, <1>n, <2>2, <3>2 DEF LeaseInv, Bounded, AnswersOnly
    <3> QED
      BY <3>1, <3>2
  <2>3. ASSUME NEW a \in Agent, NEW q \in OnRecord(a)' PROVE q.epoch <= signer'[a]
    BY <1>s, <1>r, <1>n DEF LeaseInv, Bounded
  <2> QED
    BY <2>1, <2>2, <2>3 DEF LeaseInv, Bounded
<1>2. At(c, n)'
  <2>1. \A m \in Node : \A s \in Tokens(m)' : s.agent = c => s.epoch # signer'[c]
    BY <1>s, <1>t, <1>n DEF LeaseInv, Bounded
  <2>2. \A m \in Node : Answered(m, c)' /\ beats'[m].got = signer'[c] => m = n
    BY <1>s, <1>n DEF LeaseInv, Bounded, AnswersOnly
  <2>3. \A q \in OnRecord(c)' : q.epoch # signer'[c]
    BY <1>s, <1>r, <1>n DEF LeaseInv, Bounded
  <2> QED
    BY <2>1, <2>2, <2>3 DEF At
<1>3. ASSUME NEW a \in Agent, a # c, NEW m \in Place, At(a, m) PROVE At(a, m)'
  <2>1. \A k \in Node : \A s \in Tokens(k)' :
            s.agent = a /\ s.epoch = signer'[a] => k = m
    BY <1>3, <1>s, <1>t DEF At
  <2>2. \A k \in Node : Answered(k, a)' /\ beats'[k].got = signer'[a] => k = m
    BY <1>3, <1>s DEF At, AnswersOnly
  <2>3. \A q \in OnRecord(a)' : q.epoch = signer'[a] => q.node \in {m, NoNode}
    BY <1>3, <1>s, <1>r DEF At
  <2> QED
    BY <2>1, <2>2, <2>3 DEF At
<1>4. InOnePlace'
  BY <1>2, <1>3, <1>s DEF LeaseInv, InOnePlace
<1>5. ASSUME NEW a \in Agent, a \notin strayed' PROVE Passed(a)
  <2>1. CASE a = c
    <3>1. \A m \in Node : [agent |-> c, epoch |-> signer'[c]] \notin procs'[m]
      BY <1>s, <1>n, <1>t DEF LeaseInv, Bounded, Tokens
    <3> QED
      BY <2>1, <3>1 DEF Passed, Traders
  <2>2. CASE a # c
    <3>1. Traders(a)' = Traders(a)
      BY <1>s, <2>2 DEF Traders
    <3>2. CASE signer[a] = 0
      BY <3>1, <3>2 DEF Passed, Traders
    <3>3. CASE signer[a] # 0
      <4>1. PICK m \in Place : At(a, m)
        BY <1>5, <3>3 DEF LeaseInv, InOnePlace
      <4> QED
        BY <3>1, <4>1, TradersAt DEF Passed
    <3> QED
      BY <3>2, <3>3
  <2> QED
    BY <2>1, <2>2
<1> QED
  BY <1>1, <1>4, <1>5 DEF LeaseStep, LeaseInv

\* A step that changes records, but no session of theirs.
LEMMA SameSessions ==
    ASSUME LeaseInv, \A a \in Agent : agents'[a].session = agents[a].session,
           \/ Persist
           \/ UNCHANGED disk /\ \A a \in Agent : agents'[a].known = agents[a].known
    PROVE  \A a \in Agent : /\ OnRecord(a)' \subseteq OnRecord(a)
                            /\ disk'.agents[a].known = agents'[a].known
<1>1. CASE Persist
  <2>1. disk'.agents = agents'
    BY <1>1 DEF Persist, Image
  <2> QED
    BY <2>1 DEF OnRecord
<1>2. CASE UNCHANGED disk /\ \A a \in Agent : agents'[a].known = agents[a].known
  BY <1>2 DEF OnRecord, LeaseInv, Bounded
<1> QED
  BY <1>1, <1>2

LEMMA SamePut ==
    ASSUME TypeOK, NEW a \in Agent, NEW r \in AgentRecord, Put(a, r),
           r.session = agents[a].session
    PROVE  /\ \A c \in Agent : agents'[c].session = agents[c].session
           /\ r.known = agents[a].known
              => \A c \in Agent : agents'[c].known = agents[c].known
<1>1. agents' = [agents EXCEPT ![a] = r]
  BY PutType
<1> QED
  BY <1>1 DEF TypeOK

\* No handler is touched, or only the handler of n, and it is given no answer and
\* no new start.
LEMMA SameHandlers ==
    ASSUME UNCHANGED <<beats, procs>>
    PROVE  /\ \A n \in Node : Tokens(n)' \subseteq Tokens(n)
           /\ \A n \in Node, a \in Agent :
                 Answered(n, a)' => Answered(n, a) /\ beats'[n].got = beats[n].got
  BY DEF Tokens, Answered

LEMMA PutHandler ==
    ASSUME TypeOK, UNCHANGED procs, NEW n \in Node, NEW b, PutBeat(n, b),
           b.phase # "opened"
    PROVE  /\ \A m \in Node : beats'[m] = IF m = n THEN b ELSE beats[m]
           /\ b.starts \subseteq beats[n].starts
              => \A m \in Node : Tokens(m)' \subseteq Tokens(m)
           /\ \A m \in Node, a \in Agent :
                 Answered(m, a)' => Answered(m, a) /\ beats'[m].got = beats[m].got
<1>1. \A m \in Node : beats'[m] = IF m = n THEN b ELSE beats[m]
  BY DEF TypeOK, PutBeat
<1> QED
  BY <1>1 DEF Tokens, Answered

LEMMA LeaseByStoreStep ==
    ASSUME TypeOK, TypeOK', LeaseInv,
           \/ \E a \in Agent : Start(a) \/ Stop(a) \/ Delete(a)
           \/ SweepStep
    PROVE  LeaseStep
<1>1. ASSUME NEW a \in Agent, Start(a) \/ Stop(a) \/ Delete(a) PROVE LeaseStep
  <2>1. UNCHANGED <<beats, procs, signer, strayed>> /\ Persist
    BY <1>1 DEF Start, Stop, Delete, sessions, hosts
  <2>a. agents[a] \in AgentRecord
    BY AgentType
  <2>2. PICK r \in AgentRecord : Put(a, r) /\ r.session = agents[a].session
    <3>1. CASE Start(a)
      <4> DEFINE r == [agents[a] EXCEPT
                    !.desired = "running",
                    !.state = IF @ \in {"stopped", "failed"} THEN "pending" ELSE @]
      <4>1. r \in AgentRecord /\ r.session = agents[a].session
        BY <2>a DEF AgentRecord, AgentState
      <4>2. PICK q \in Scheduled(a, r) : Put(a, q)
        BY <3>1 DEF Start
      <4> HIDE DEF r
      <4>3. q \in AgentRecord /\ q.session = r.session
        BY <4>1, <4>2, ScheduledKeeps
      <4> QED
        BY <4>1, <4>2, <4>3
    <3>2. CASE Stop(a)
      <4> DEFINE r == [agents[a] EXCEPT !.desired = "stopped",
                         !.state = IF @ = "running" THEN "stopping" ELSE "stopped"]
      <4>1. r \in AgentRecord /\ r.session = agents[a].session
        BY <2>a DEF AgentRecord, AgentState
      <4> QED
        BY <3>2, <4>1 DEF Stop
    <3>3. CASE Delete(a)
      <4> DEFINE r == [agents[a] EXCEPT !.known = FALSE]
      <4>1. r \in AgentRecord /\ r.session = agents[a].session
        BY <2>a DEF AgentRecord
      <4> QED
        BY <3>3, <4>1 DEF Delete
    <3> QED
      BY <1>1, <3>1, <3>2, <3>3
  <2> QED
    BY <2>1, <2>2, SamePut, SameSessions, SameHandlers, NothingNew
<1>2. ASSUME NEW stuck \in SUBSET Agent, SweepBegins(stuck) PROVE LeaseStep
  <2>1. /\ UNCHANGED <<beats, procs, signer, strayed>>
        /\ Persist \/ UNCHANGED disk
    BY <1>2 DEF SweepBegins, sessions, hosts
  <2>2. \A a \in Agent :
            \/ agents'[a] = agents[a]
            \/ agents'[a] = [agents[a] EXCEPT !.state = "failed", !.node = NoNode]
            \/ agents'[a] = [agents[a] EXCEPT !.failed = @ \cup {agents[a].node},
                                !.node = NoNode, !.state = "pending"]
    BY <1>2 DEF SweepBegins
  <2>3. \A a \in Agent : /\ agents'[a].session = agents[a].session
                         /\ agents'[a].known = agents[a].known
    <3> SUFFICES ASSUME NEW a \in Agent
                 PROVE  /\ agents'[a].session = agents[a].session
                        /\ agents'[a].known = agents[a].known
      OBVIOUS
    <3>1. agents[a] \in AgentRecord
      BY AgentType
    <3> QED
      BY <2>2, <3>1 DEF AgentRecord
  <2> QED
    BY <2>1, <2>3, SameSessions, SameHandlers, NothingNew
<1>3. ASSUME NEW a \in Agent, SweepPlaces(a) PROVE LeaseStep
  <2>1. /\ UNCHANGED <<beats, procs, signer, strayed>>
        /\ Persist \/ UNCHANGED disk
    BY <1>3 DEF SweepPlaces, sessions, hosts
  <2>2. PICK q \in Scheduled(a, agents[a]) : Put(a, q)
    BY <1>3 DEF SweepPlaces
  <2>3. /\ q \in AgentRecord /\ q.session = agents[a].session
        /\ q.known = agents[a].known
    BY AgentType, ScheduledKeeps
  <2> QED
    BY <2>1, <2>2, <2>3, SamePut, SameSessions, SameHandlers, NothingNew
<1> QED
  BY <1>1, <1>2, <1>3 DEF SweepStep

LEMMA LeaseByBeat ==
    ASSUME TypeOK, TypeOK', LeaseInv, NEW n \in Node, BeatArrives(n) \/ LoopStep(n)
    PROVE  LeaseStep
<1>b. beats[n] \in BeatRecord
  BY DEF TypeOK
<1>1. CASE BeatArrives(n)
  <2> DEFINE b == [NoBeat EXCEPT
                     !.phase = "loop",
                     !.todo = {a \in Listed : agents[a].node = n},
                     !.free = nodes[n].max - Cardinality({p.agent : p \in procs[n]}),
                     !.reported = {p.agent : p \in procs[n]}]
  <2>1. b.phase = "loop" /\ b.starts = {}
    BY DEF NoBeat
  <2>2. UNCHANGED <<procs, signer, strayed, agents, disk>> /\ PutBeat(n, b)
    BY <1>1 DEF BeatArrives, sessions, hosts
  <2>3. /\ \A m \in Node : Tokens(m)' \subseteq Tokens(m)
        /\ \A m \in Node, a \in Agent :
              Answered(m, a)' => Answered(m, a) /\ beats'[m].got = beats[m].got
    <3> HIDE DEF b
    <3> QED
      BY <2>1, <2>2, PutHandler
  <2>4. \A a \in Agent : /\ OnRecord(a)' \subseteq OnRecord(a)
                         /\ disk'.agents[a].known = agents'[a].known
    BY <2>2, SameSessions
  <2> QED
    BY <2>2, <2>3, <2>4, NothingNew
<1>2. ASSUME NEW a \in Agent,
             \/ Bounce(n, a) \/ AskSession(n, a)
             \/ Confirm(n, a) \/ Drain(n, a) \/ Drained(n, a)
      PROVE  LeaseStep
  <2>a. agents[a] \in AgentRecord
    BY AgentType
  <2>1. /\ UNCHANGED <<procs, signer, strayed, disk>>
        /\ beats[n].phase = "loop"
    BY <1>2 DEF Bounce, AskSession, Confirm, Drain, Drained, Looping, sessions, hosts
  <2>2. \/ UNCHANGED agents
        \/ \E r \in AgentRecord : /\ Put(a, r) /\ r.session = agents[a].session
                                  /\ r.known = agents[a].known
    <3> DEFINE r1 == [agents[a] EXCEPT !.node = NoNode, !.state = "pending"]
               r2 == [agents[a] EXCEPT !.state = "running", !.failed = {}]
               r3 == [agents[a] EXCEPT !.state = "stopping"]
               r4 == [agents[a] EXCEPT !.state = "stopped"]
    <3>1. UNCHANGED agents \/ Put(a, r1) \/ Put(a, r2) \/ Put(a, r3) \/ Put(a, r4)
      BY <1>2 DEF Bounce, AskSession, Confirm, Drain, Drained
    <3>2. r1 \in AgentRecord /\ r1.session = agents[a].session /\ r1.known = agents[a].known
      BY <2>a DEF AgentRecord, AgentState
    <3>3. r2 \in AgentRecord /\ r2.session = agents[a].session /\ r2.known = agents[a].known
      BY <2>a DEF AgentRecord, AgentState
    <3>4. r3 \in AgentRecord /\ r3.session = agents[a].session /\ r3.known = agents[a].known
      BY <2>a DEF AgentRecord, AgentState
    <3>5. r4 \in AgentRecord /\ r4.session = agents[a].session /\ r4.known = agents[a].known
      BY <2>a DEF AgentRecord, AgentState
    <3> HIDE DEF r1, r2, r3, r4
    <3> QED
      BY <3>1, <3>2, <3>3, <3>4, <3>5
  <2>3. PICK b : /\ PutBeat(n, b) /\ b.phase # "opened"
                 /\ b.starts \subseteq beats[n].starts
    <3> DEFINE b1 == [beats[n] EXCEPT !.todo = @ \ {a}]
               b2 == [beats[n] EXCEPT !.todo = @ \ {a}, !.stops = @ \cup {a}]
               b3 == [beats[n] EXCEPT !.todo = @ \ {a}, !.free = @ - 1,
                                   !.phase = "opening", !.current = a,
                                   !.asked = agents[a].node]
    <3>1. PutBeat(n, b1) \/ PutBeat(n, b2) \/ PutBeat(n, b3)
      BY <1>2 DEF Bounce, AskSession, Confirm, Drain, Drained
    <3>2. b1.phase # "opened" /\ b1.starts \subseteq beats[n].starts
      BY <1>b, <2>1 DEF BeatRecord
    <3>3. b2.phase # "opened" /\ b2.starts \subseteq beats[n].starts
      BY <1>b, <2>1 DEF BeatRecord
    <3>4. b3.phase # "opened" /\ b3.starts \subseteq beats[n].starts
      BY <1>b, <2>1 DEF BeatRecord
    <3> QED
      BY <3>1, <3>2, <3>3, <3>4
  <2>4. \A c \in Agent : /\ agents'[c].session = agents[c].session
                         /\ agents'[c].known = agents[c].known
    BY <2>2, SamePut
  <2> QED
    BY <2>1, <2>3, <2>4, PutHandler, SameSessions, NothingNew
<1>3. ASSUME NEW a \in Agent, PushStart(n, a) PROVE LeaseStep
  <2> DEFINE b == [beats[n] EXCEPT !.todo = @ \ {a}, !.free = @ - 1,
                                   !.starts = @ \cup {StartOf(a)}]
  <2>1. /\ UNCHANGED <<procs, signer, disk, agents>> /\ beats[n].phase = "loop"
        /\ PutBeat(n, b) /\ SessionCurrent(agents[a])
        /\ Stray(a, agents[a].node # n /\ Foreign(n, agents[a].session))
    BY <1>3 DEF PushStart, Looping, sessions, hosts
  <2>2. b.phase # "opened" /\ b.starts = beats[n].starts \cup {StartOf(a)}
    BY <1>b, <2>1 DEF BeatRecord
  <2>3. TokenFits(StartOf(a), n, strayed')
    <3>1. StartOf(a).agent = a /\ StartOf(a).epoch = agents[a].session.epoch
      BY DEF StartOf
    <3>2. agents[a].session \in OnRecord(a)
      BY DEF OnRecord
    <3>3. a \in strayed' \/ agents[a].session.epoch = 0 \/ agents[a].session.node = n
      BY <2>1, ControlPlaneAssumption
      DEF Stray, Foreign, SessionCurrent, ControlPlaneAssumption
    <3>4. n # NoNode
      BY ControlPlaneAssumption DEF ControlPlaneAssumption
    <3> QED
      BY <3>1, <3>2, <3>3, <3>4 DEF TokenFits, LeaseInv, Bounded, At
  <2>4. \A m \in Node : \A s \in Tokens(m)' : TokenFits(s, m, strayed')
    <3>1. \A m \in Node : beats'[m] = IF m = n THEN b ELSE beats[m]
      BY <2>1, <2>2, PutHandler
    <3>2. \A m \in Node : \A s \in Tokens(m)' :
              s \in Tokens(m) \/ (m = n /\ s = StartOf(a))
      <4> SUFFICES ASSUME NEW m \in Node, NEW s \in Tokens(m)'
                   PROVE  s \in Tokens(m) \/ (m = n /\ s = StartOf(a))
        OBVIOUS
      <4>1. s \in procs[m] \/ s \in beats'[m].starts
        BY <2>1 DEF Tokens
      <4>2. beats'[m].starts = IF m = n THEN b.starts ELSE beats[m].starts
        BY <3>1
      <4> QED
        BY <2>2, <4>1, <4>2 DEF Tokens
    <3> QED
      BY <2>3, <3>2, OldFits
  <2>5. \A c \in Agent : \A q \in OnRecord(c)' : SessionFits(q, c, strayed')
    <3>1. \A c \in Agent : OnRecord(c)' = OnRecord(c)
      BY <2>1 DEF OnRecord
    <3> QED
      BY <3>1, OldFits
  <2>6. \A c \in Agent : disk'.agents[c].known = agents'[c].known
    BY <2>1 DEF LeaseInv, Bounded
  <2>7. strayed \subseteq strayed'
    BY <2>1 DEF Stray
  <2>8. \A m \in Node, c \in Agent :
              Answered(m, c)' => Answered(m, c) /\ beats'[m].got = beats[m].got
    <3> HIDE DEF b
    <3> QED
      BY <2>1, <2>2, PutHandler
  <2> QED
    BY <2>1, <2>4, <2>5, <2>6, <2>7, <2>8, NoSession
<1>4. CASE BeatEnds(n)
  <2> DEFINE b == [beats[n] EXCEPT !.phase = "reply", !.free = 0, !.reported = {},
                                   !.stops = @ \cup Orphans(n)]
  <2>1. UNCHANGED <<procs, signer, strayed>> /\ Persist /\ PutBeat(n, b)
    BY <1>4 DEF BeatEnds, sessions, hosts
  <2>2. b.phase = "reply" /\ b.starts = beats[n].starts
    BY <1>b DEF BeatRecord
  <2>3. \A a \in Agent : agents'[a].session = agents[a].session
    <3>1. \A a \in Agent :
              agents'[a] = agents[a] \/ agents'[a] = [agents[a] EXCEPT !.age = @ + 1]
      BY <1>4 DEF BeatEnds
    <3> QED
      BY <3>1 DEF TypeOK, AgentRecord
  <2>4. /\ \A m \in Node : Tokens(m)' \subseteq Tokens(m)
        /\ \A m \in Node, a \in Agent :
              Answered(m, a)' => Answered(m, a) /\ beats'[m].got = beats[m].got
    <3> HIDE DEF b
    <3> QED
      BY <2>1, <2>2, PutHandler
  <2> QED
    BY <2>1, <2>3, <2>4, SameSessions, NothingNew
<1> QED
  BY <1>1, <1>2, <1>3, <1>4 DEF LoopStep

\* One more start for node n.
LEMMA TokensGrow ==
    ASSUME UNCHANGED procs, NEW n \in Node, NEW s,
           \A m \in Node : beats'[m].starts = IF m = n THEN beats[n].starts \cup {s}
                                                       ELSE beats[m].starts,
           LeaseInv, NEW astray, TokenFits(s, n, astray)
    PROVE  \A m \in Node : \A t \in Tokens(m)' : TokenFits(t, m, astray)
<1>1. ASSUME NEW m \in Node, NEW t \in Tokens(m)'
      PROVE  t \in Tokens(m) \/ (m = n /\ t = s)
  BY DEF Tokens
<1> QED
  BY <1>1, OldFits

LEMMA LeaseBySession ==
    ASSUME TypeOK, TypeOK', Calling, LeaseInv, NEW n \in Node,
           SignerOpens(n) \/ OpenReturns(n) \/ OpenFails(n)
    PROVE  LeaseStep
<1>b. beats[n] \in BeatRecord /\ beats[n].phase \in {"opening", "opened"}
  BY DEF TypeOK, SignerOpens, OpenReturns, OpenFails
<1>a. PICK a \in Agent : a = beats[n].current /\ agents[a] \in AgentRecord
  BY <1>b, AgentType DEF Calling
<1>n. n # NoNode /\ n \in Place /\ NoNode \in Place
  BY ControlPlaneAssumption DEF ControlPlaneAssumption, Place
<1>1. CASE SignerOpens(n)
  <2> DEFINE b == [beats[n] EXCEPT !.phase = "opened", !.got = signer[a] + 1]
  <2>1. /\ b.phase = "opened" /\ b.current = a /\ b.got = signer[a] + 1
        /\ b.starts = beats[n].starts
    BY <1>a, <1>b DEF BeatRecord
  <2>2. /\ signer' = [signer EXCEPT ![a] = @ + 1]
        /\ UNCHANGED <<agents, disk, procs, strayed>> /\ PutBeat(n, b)
    BY <1>a, <1>1 DEF SignerOpens, hosts
  <2>3. \A m \in Node : beats'[m] = IF m = n THEN b ELSE beats[m]
    BY <2>2 DEF PutBeat, TypeOK
  <2>4. AnswersOnly(n, a)
    BY <2>1, <2>3 DEF Answered, AnswersOnly
  <2> HIDE DEF b
  <2> QED
    BY <1>a, <1>n, <2>2, <2>4, NewSession
<1>2. ASSUME NEW s, PutBeat(n, [beats[n] EXCEPT
                !.phase = "loop", !.current = NoAgent, !.asked = NoNode, !.got = 0,
                !.starts = @ \cup {s}])
      PROVE  /\ \A m \in Node : beats'[m].starts =
                    IF m = n THEN beats[n].starts \cup {s} ELSE beats[m].starts
             /\ \A m \in Node, c \in Agent : Answered(m, c)' =>
                    Answered(m, c) /\ beats'[m].got = beats[m].got
  <2> DEFINE b == [beats[n] EXCEPT
                !.phase = "loop", !.current = NoAgent, !.asked = NoNode, !.got = 0,
                !.starts = @ \cup {s}]
  <2>1. b.phase = "loop" /\ b.starts = beats[n].starts \cup {s}
    BY <1>a, <1>b DEF BeatRecord
  <2>2. \A m \in Node : beats'[m] = IF m = n THEN b ELSE beats[m]
    BY <1>2 DEF PutBeat, TypeOK
  <2> QED
    BY <2>1, <2>2 DEF Answered
<1>3. CASE OpenReturns(n)
  <2> DEFINE session == [epoch |-> beats[n].got, node |-> agents[a].node]
             s == [agent |-> a, epoch |-> beats[n].got]
             r == [agents[a] EXCEPT !.session = session]
  <2>1. /\ UNCHANGED <<procs, signer>> /\ Persist /\ Put(a, r)
        /\ Stray(a, beats[n].asked # n \/ agents[a].node \notin {n, NoNode})
        /\ beats[n].phase = "opened"
        /\ PutBeat(n, [beats[n] EXCEPT
              !.phase = "loop", !.current = NoAgent, !.asked = NoNode, !.got = 0,
              !.starts = @ \cup {s}])
    BY <1>a, <1>3 DEF OpenReturns, sessions, hosts
  <2>2. strayed \subseteq strayed' /\ (a \notin strayed' => agents[a].node \in {n, NoNode})
    BY <2>1 DEF Stray
  <2>3. Answered(n, a)
    BY <1>a, <2>1 DEF Answered
  <2>4. beats[n].got <= signer[a]
    BY <1>a, <2>3 DEF LeaseInv, Bounded
  <2>5. beats[n].got = signer[a] => \A m \in Place : At(a, m) => n = m
    BY <2>3 DEF At
  <2>6. TokenFits(s, n, strayed')
    BY <2>4, <2>5 DEF TokenFits
  <2>7. SessionFits(session, a, strayed')
    BY <2>2, <2>4, <2>5 DEF SessionFits
  <2>8. disk'.agents = agents'
    BY <2>1 DEF Persist, Image
  <2>9. \A c \in Agent : \A q \in OnRecord(c)' : SessionFits(q, c, strayed')
    <3>1. agents'[a].session = session
      BY <1>a, <2>1 DEF Put, TypeOK, AgentRecord
    <3>2. \A c \in Agent \ {a} : agents'[c] = agents[c]
      BY <2>1 DEF Put, TypeOK
    <3>3. \A c \in Agent \ {a} : OnRecord(c)' \subseteq OnRecord(c)
      BY <2>8, <3>2 DEF OnRecord
    <3>4. OnRecord(a)' = {session}
      BY <2>8, <3>1 DEF OnRecord
    <3> QED
      BY <2>7, <3>3, <3>4, OldFits
  <2>10. \A m \in Node : \A t \in Tokens(m)' : TokenFits(t, m, strayed')
    BY <1>2, <2>1, <2>6, TokensGrow
  <2> QED
    BY <1>2, <2>1, <2>2, <2>8, <2>9, <2>10, NoSession
<1>4. CASE OpenFails(n)
  <2> DEFINE s == StartOf(a)
  <2>1. /\ UNCHANGED <<procs, signer, agents, disk>>
        /\ Stray(a, Foreign(n, agents[a].session))
        /\ PutBeat(n, [beats[n] EXCEPT
              !.phase = "loop", !.current = NoAgent, !.asked = NoNode, !.got = 0,
              !.starts = @ \cup {s}])
    BY <1>a, <1>4 DEF OpenFails, hosts
  <2>2. /\ strayed \subseteq strayed'
        /\ a \in strayed' \/ agents[a].session.epoch = 0 \/ agents[a].session.node = n
    BY <2>1 DEF Stray, Foreign
  <2>3. TokenFits(s, n, strayed')
    <3>1. s.agent = a /\ s.epoch = agents[a].session.epoch
      BY DEF StartOf
    <3>2. agents[a].session \in OnRecord(a)
      BY DEF OnRecord
    <3> QED
      BY <1>a, <1>n, <2>2, <3>1, <3>2 DEF TokenFits, LeaseInv, Bounded, At
  <2>4. \A c \in Agent : \A q \in OnRecord(c)' : SessionFits(q, c, strayed')
    <3>1. \A c \in Agent : OnRecord(c)' = OnRecord(c)
      BY <2>1 DEF OnRecord
    <3> QED
      BY <3>1, OldFits
  <2>5. \A c \in Agent : disk'.agents[c].known = agents'[c].known
    BY <2>1 DEF LeaseInv, Bounded
  <2>6. \A m \in Node : \A t \in Tokens(m)' : TokenFits(t, m, strayed')
    BY <1>2, <2>1, <2>3, TokensGrow
  <2> QED
    BY <1>2, <2>1, <2>2, <2>4, <2>5, <2>6, NoSession
<1> QED
  BY <1>1, <1>3, <1>4

LEMMA LeaseByLateOpen ==
    ASSUME TypeOK, TypeOK', LeaseInv, NEW a \in Agent, SignerOpensLate(a)
    PROVE  LeaseStep
<1>1. /\ signer' = [signer EXCEPT ![a] = @ + 1]
      /\ UNCHANGED <<agents, disk, procs, strayed, beats>>
  BY DEF SignerOpensLate, hosts
<1>2. NoNode \in Place
  BY DEF Place
<1>3. AnswersOnly(NoNode, a)
  BY <1>1 DEF Answered, AnswersOnly
<1> QED
  BY <1>1, <1>2, <1>3, NewSession

LEMMA LeaseByHost ==
    ASSUME TypeOK, TypeOK', LeaseInv, NEW n \in Node,
           \/ HostApplies(n) \/ ReplyLost(n) \/ GoesQuiet(n)
           \/ \E p \in procs[n] : ProcessExits(n, p)
           \/ \E max \in Budgets : Register(n, max)
    PROVE  LeaseStep
<1>1. UNCHANGED <<agents, disk, signer>> /\ strayed \subseteq strayed'
  BY DEF HostApplies, ReplyLost, GoesQuiet, ProcessExits, Register, sessions
<1>2. \A a \in Agent : /\ OnRecord(a)' \subseteq OnRecord(a)
                       /\ disk'.agents[a].known = agents'[a].known
  BY <1>1, SameSessions
<1>3. \A m \in Node : beats'[m] = beats[m] \/ beats'[m] = NoBeat
  BY DEF HostApplies, ReplyLost, GoesQuiet, ProcessExits, Register, PutBeat, TypeOK
<1>4. NoBeat.starts = {} /\ NoBeat.phase = "idle"
  BY DEF NoBeat
<1>5. \A m \in Node, a \in Agent :
          Answered(m, a)' => Answered(m, a) /\ beats'[m].got = beats[m].got
  BY <1>3, <1>4 DEF Answered
<1>6. \A m \in Node : procs'[m] \subseteq Tokens(m)
  <2>1. CASE HostApplies(n)
    <3>1. PICK new \in SUBSET beats[n].starts :
              procs' = [procs EXCEPT
                  ![n] = {p \in procs[n] \cup new : p.agent \notin beats[n].stops}]
      BY <2>1 DEF HostApplies
    <3> QED
      BY <3>1 DEF Tokens, TypeOK
  <2>2. CASE UNCHANGED procs
    BY <2>2 DEF Tokens
  <2>3. ASSUME NEW p \in procs[n], ProcessExits(n, p)
        PROVE  \A m \in Node : procs'[m] \subseteq Tokens(m)
    BY <2>3 DEF ProcessExits, Tokens, TypeOK
  <2>4. ASSUME NEW max \in Budgets, Register(n, max)
        PROVE  \A m \in Node : procs'[m] \subseteq Tokens(m)
    BY <2>4 DEF Register, Tokens, TypeOK
  <2> QED
    BY <2>1, <2>2, <2>3, <2>4 DEF ReplyLost, GoesQuiet, hosts
<1>7. \A m \in Node : Tokens(m)' \subseteq Tokens(m)
  BY <1>3, <1>4, <1>6 DEF Tokens
<1> QED
  BY <1>1, <1>2, <1>5, <1>7, NothingNew

LEMMA LeaseByRestart ==
    ASSUME TypeOK, TypeOK', LeaseInv, NEW silent \in SUBSET Node, Restart(silent)
    PROVE  LeaseStep
<1>1. agents' = disk.agents /\ UNCHANGED <<disk, procs, signer, strayed>>
  BY DEF Restart, hosts
<1>2. \A m \in Node :
          beats'[m] = IF beats[m].phase = "reply" THEN beats[m] ELSE NoBeat
  BY DEF Restart
<1>3. NoBeat.starts = {} /\ NoBeat.phase = "idle"
  BY DEF NoBeat
<1>4. \A m \in Node : Tokens(m)' \subseteq Tokens(m)
  BY <1>1, <1>2, <1>3 DEF Tokens
<1>5. \A m \in Node, a \in Agent : ~Answered(m, a)'
  BY <1>2, <1>3 DEF Answered
<1>6. \A a \in Agent : /\ OnRecord(a)' \subseteq OnRecord(a)
                       /\ disk'.agents[a].known = agents'[a].known
  BY <1>1 DEF OnRecord
<1> QED
  BY <1>1, <1>4, <1>5, <1>6, NothingNew

LEMMA LeaseByStep ==
    ASSUME TypeOK, TypeOK', Calling, LeaseInv, [Next]_vars
    PROVE  LeaseStep /\ strayed \subseteq strayed'
<1>1. LeaseStep
  <2>1. CASE UNCHANGED vars
    <3>1. UNCHANGED <<agents, disk, beats, procs, signer, strayed>>
      BY <2>1 DEF vars
    <3> QED
      BY <3>1, SameSessions, SameHandlers, NothingNew
  <2> QED
    BY <2>1, LeaseByStoreStep, LeaseByBeat, LeaseBySession, LeaseByLateOpen,
       LeaseByHost, LeaseByRestart DEF Next
<1>2. strayed \subseteq strayed'
  <2>1. ASSUME NEW a \in Agent, Start(a) \/ Stop(a) \/ Delete(a) \/ SignerOpensLate(a)
        PROVE  strayed \subseteq strayed'
    BY <2>1 DEF Start, Stop, Delete, SignerOpensLate
  <2>2. CASE SweepStep
    BY <2>2 DEF SweepStep, SweepBegins, SweepPlaces
  <2>3. ASSUME NEW n \in Node, BeatArrives(n) \/ LoopStep(n)
        PROVE  strayed \subseteq strayed'
    BY <2>3 DEF BeatArrives, LoopStep, Bounce, PushStart, AskSession, Confirm, Drain,
                Drained, BeatEnds, Stray
  <2>4. ASSUME NEW n \in Node, SignerOpens(n) \/ OpenReturns(n) \/ OpenFails(n)
        PROVE  strayed \subseteq strayed'
    BY <2>4 DEF SignerOpens, OpenReturns, OpenFails, Stray
  <2>5. ASSUME NEW n \in Node,
               \/ HostApplies(n) \/ ReplyLost(n) \/ GoesQuiet(n)
               \/ \E p \in procs[n] : ProcessExits(n, p)
               \/ \E max \in Budgets : Register(n, max)
        PROVE  strayed \subseteq strayed'
    BY <2>5 DEF HostApplies, ReplyLost, GoesQuiet, ProcessExits, Register
  <2>6. ASSUME NEW silent \in SUBSET Node, Restart(silent)
        PROVE  strayed \subseteq strayed'
    BY <2>6 DEF Restart
  <2>7. CASE UNCHANGED vars
    BY <2>7 DEF vars
  <2> QED
    BY <2>1, <2>2, <2>3, <2>4, <2>5, <2>6, <2>7 DEF Next
<1> QED
  BY <1>1, <1>2

LEMMA LeaseAlways == Spec => []LeaseInv
<1>1. Init => LeaseInv
  <2> SUFFICES ASSUME Init PROVE LeaseInv
    OBVIOUS
  <2>1. NoBeat.starts = {} /\ NoBeat.phase = "idle"
    BY DEF NoBeat
  <2>2. \A n \in Node : Tokens(n) = {} /\ \A a \in Agent : ~Answered(n, a)
    BY <2>1 DEF Init, Tokens, Answered
  <2>3. disk.agents = agents
    BY DEF Init, Image
  <2>4. \A a \in Agent : signer[a] = 0 /\ agents[a].session.epoch = 0
    BY DEF Init
  <2> QED
    BY <2>2, <2>3, <2>4 DEF LeaseInv, Bounded, InOnePlace, OnRecord
<1>2. TypeOK /\ TypeOK' /\ Calling /\ LeaseInv /\ [Next]_vars => LeaseInv'
  BY LeaseByStep DEF LeaseStep
<1> QED
  BY <1>1, <1>2, Types, PTL DEF Spec

LEMMA StepIsLeased ==
    ASSUME TypeOK, TypeOK', Calling, LeaseInv, [Next]_vars
    PROVE  [Fence!Next]_(Fence!vars)
<1>1. LeaseStep /\ strayed \subseteq strayed'
  BY LeaseByStep
<1> DEFINE holders == [a \in Agent |-> Traders(a)]
<1>2. holders' \in [Agent -> SUBSET Node]
  BY DEF Traders
<1>3. strayed' \in SUBSET Agent
  BY DEF TypeOK
<1>4. ASSUME NEW a \in Agent \ strayed'
      PROVE  Fence!Kept(a) \/ Fence!Revoked(a) \/ Fence!Granted(a)
  <2>1. Passed(a)
    BY <1>1 DEF LeaseStep
  <2>2. CASE Traders(a)' = {}
    BY <2>2 DEF Fence!Revoked
  <2>3. ASSUME NEW m \in Place, Traders(a) \subseteq {m}, Traders(a)' \subseteq {m}
        PROVE  Fence!Kept(a) \/ Fence!Revoked(a) \/ Fence!Granted(a)
    <3>1. CASE Traders(a)' = {}
      BY <2>2, <3>1
    <3>2. CASE Traders(a)' = {m} /\ Traders(a) = {m}
      BY <3>2 DEF Fence!Kept
    <3>3. CASE Traders(a)' = {m} /\ Traders(a) = {}
      <4>1. m \in Node
        BY <3>3 DEF Traders
      <4> QED
        BY <3>3, <4>1 DEF Fence!Granted
    <3> QED
      BY <2>3, <3>1, <3>2, <3>3
  <2> QED
    BY <2>1, <2>2, <2>3 DEF Passed
<1>5. Fence!Next
  BY <1>1, <1>2, <1>3, <1>4 DEF Fence!Next
<1> QED
  BY <1>5

-----------------------------------------------------------------------------
\* The store, the handlers and the hosts have the types stated, through every
\* restart.
THEOREM TypeCorrect == Spec => []TypeOK
<1> QED
  BY Types, PTL

\* PlacementSound holds for any agents, nodes and budgets: no agent that should
\* run is on a node that is down or may not run it, one that is scheduled has a
\* node, and a reply never asks a host for more than its budget holds.
THEOREM PlacementsAreSound == Spec => []PlacementSound
<1>1. Placed => \A a \in Agent : OnUpNode(a) /\ ScheduledHasNode(a)
  BY DEF Placed, Sound, Up, OnUpNode, ScheduledHasNode
<1>2. RoomOK => \A n \in Node : StartsFit(n)
  BY DEF RoomOK, Roomy, Replied, StartsFit
<1>3. Placed /\ RoomOK => PlacementSound
  BY <1>1, <1>2 DEF PlacementSound
<1> QED
  BY <1>3, PlacedAlways, RoomAlways, PTL

\* The sessions of each agent are a lease (Leased): the instance the signer serves
\* changes hands only through a moment at which there is none, whatever handlers
\* overlap, nodes fail, calls are served late or the control plane restarts, until
\* a session of the agent goes astray in one of the ways `strayed` records.
THEOREM SessionsAreLeased == Spec => Leased
<1>1. Init => Fence!Init
  BY DEF Init, Fence!Init, Traders
<1>2. TypeOK /\ TypeOK' /\ Calling /\ LeaseInv /\ [Next]_vars
      => [Fence!Next]_(Fence!vars)
  BY StepIsLeased
<1> QED
  BY <1>1, <1>2, Types, LeaseAlways, PTL DEF Spec, Leased, Fence!Spec

-----------------------------------------------------------------------------
(* What a lease promises. Nothing but the lease's own steps is used.          *)

\* "At most one instance may trade it" (README.md:55): every system whose sessions
\* are a lease keeps to it, for each agent until one of its sessions goes astray.
THEOREM LeaseHolds == Fence!Spec => []Fence!AtMostOne
<1>1. Fence!Init => Fence!AtMostOne
  BY DEF Fence!Init, Fence!AtMostOne
<1>2. Fence!AtMostOne /\ [Fence!Next]_(Fence!vars) => Fence!AtMostOne'
  <2> SUFFICES ASSUME Fence!AtMostOne, [Fence!Next]_(Fence!vars) PROVE Fence!AtMostOne'
    OBVIOUS
  <2> DEFINE holders == [a \in Agent |-> Traders(a)]
  <2>1. CASE Fence!Next
    <3> SUFFICES ASSUME NEW a \in Agent \ strayed', NEW n \in holders'[a], NEW m \in holders'[a]
                 PROVE  n = m
      BY DEF Fence!AtMostOne
    <3>1. a \notin strayed /\ \A k, l \in holders[a] : k = l
      BY <2>1 DEF Fence!Next, Fence!AtMostOne
    <3>2. CASE Fence!Kept(a)
      BY <3>1, <3>2 DEF Fence!Kept
    <3>3. CASE Fence!Revoked(a)
      BY <3>3 DEF Fence!Revoked
    <3>4. CASE Fence!Granted(a)
      BY <3>4 DEF Fence!Granted
    <3> QED
      BY <2>1, <3>2, <3>3, <3>4 DEF Fence!Next
  <2>2. CASE UNCHANGED Fence!vars
    BY <2>2 DEF Fence!vars, Fence!AtMostOne
  <2> QED
    BY <2>1, <2>2
<1> QED
  BY <1>1, <1>2, PTL DEF Fence!Spec

\* "Each agent has one wallet, so at most one instance may trade it" (README.md:55)
\* holds for every agent none of whose sessions went astray: the control plane's
\* sessions are a lease, and a lease promises it.
THEOREM OneTraderUnlessAstray == Spec => []Fence!AtMostOne
  BY SessionsAreLeased, LeaseHolds, PTL DEF Leased
=============================================================================
