--------------------------- MODULE NodeHostProofs ---------------------------
(* Theorems about a node host, for every set of agents, every budget and any  *)
(* number of overlapping heartbeats. While the host is Orderly, one heartbeat *)
(* pulls a bundle alone, and each agent has one process at most; the map and  *)
(* the budget are right because of these two facts.                           *)
EXTENDS NodeHost, Functions, FiniteSetTheorems, TLAPS

-----------------------------------------------------------------------------
(* Types.                                                                     *)

\* A beat at rest and a slot at rest.
LEMMA AtRest ==
    /\ NoBeat \in BeatRecord /\ NoBeat.phase = "idle" /\ NoBeat.current = None
    /\ FreeSlot \in Process /\ FreeSlot.status = "free" /\ FreeSlot.agent = None
  BY DEF NoBeat, BeatRecord, FreeSlot, Process

\* A beat that goes on.
LEMMA PutBeatType ==
    ASSUME TypeOK, NEW b \in Beat, NEW r \in BeatRecord, PutBeat(b, r),
           r.phase = "resolving" <=> r.current # None
    PROVE  /\ beats' \in [Beat -> BeatRecord]
           /\ \A c \in Beat : beats'[c].phase = "resolving" <=> beats'[c].current # None
           /\ beats'[b] = r /\ \A c \in Beat \ {b} : beats'[c] = beats[c]
  BY DEF TypeOK, PutBeat

\* A failure is counted.
LEMMA FaultType == ASSUME TypeOK, Fault PROVE faults' \in 0..MaxFaults
  BY NodeHostAssumption DEF NodeHostAssumption, TypeOK, Fault

\* A process for an agent, in a slot that was free.
LEMMA SpawnType ==
    ASSUME TypeOK, NEW a \in Agent, Spawn(a)
    PROVE  /\ procs' \in [Proc -> Process] /\ agents' \in [Agent -> Proc \cup {None}]
           /\ disturbed' \in BOOLEAN
           /\ \E p \in Proc :
                /\ procs[p].status = "free"
                /\ procs' = [procs EXCEPT ![p] =
                      [agent |-> a, child |-> TRUE, status |-> "up"]]
                /\ agents' = [agents EXCEPT ![a] = p]
<1> DEFINE free == WithStatus("free")
           p == CHOOSE q \in free : TRUE
<1>1. /\ free # {}
      /\ procs' = [procs EXCEPT ![p] = [agent |-> a, child |-> TRUE, status |-> "up"]]
      /\ agents' = [agents EXCEPT ![a] = p]
      /\ disturbed' \in BOOLEAN
  BY DEF Spawn, TypeOK
<1>2. p \in Proc /\ procs[p].status = "free"
  <2>1. p \in free
    BY <1>1
  <2> QED
    BY <2>1 DEF WithStatus
<1>3. [agent |-> a, child |-> TRUE, status |-> "up"] \in Process
  BY DEF Process
<1> HIDE DEF p
<1> QED
  BY <1>1, <1>2, <1>3 DEF TypeOK

\* Processes that are signalled.
LEMMA SignalledType ==
    ASSUME TypeOK, NEW ps \in SUBSET Proc
    PROVE  /\ Signalled(ps) \in [Proc -> Process]
           /\ \A p \in Proc :
                /\ Signalled(ps)[p].agent = procs[p].agent
                /\ Signalled(ps)[p].child = procs[p].child
                /\ Signalled(ps)[p].status =
                      IF p \in ps THEN "exiting" ELSE procs[p].status
<1>1. \A p \in Proc : procs[p] \in Process
  BY DEF TypeOK
<1>2. ASSUME NEW p \in Proc
      PROVE  /\ Signalled(ps)[p] \in Process
             /\ Signalled(ps)[p].agent = procs[p].agent
             /\ Signalled(ps)[p].child = procs[p].child
             /\ Signalled(ps)[p].status = IF p \in ps THEN "exiting" ELSE procs[p].status
  BY <1>1 DEF Signalled, Process
<1>3. Signalled(ps) \in [Proc -> Process]
  <2>1. Signalled(ps) = [p \in Proc |-> Signalled(ps)[p]]
    BY DEF Signalled
  <2> QED
    BY <1>2, <2>1
<1> QED
  BY <1>2, <1>3

\* Agents that are stopped.
LEMMA StopAgentsType ==
    ASSUME TypeOK, NEW as \in SUBSET Agent, StopAgents(as)
    PROVE  /\ procs' \in [Proc -> Process] /\ agents' \in [Agent -> Proc \cup {None}]
<1> DEFINE ps == {agents[a] : a \in as \cap Tracked} \cap WithStatus("up")
<1>1. ps \in SUBSET Proc
  BY DEF WithStatus
<1>2. procs' = Signalled(ps)
  BY DEF StopAgents
<1> HIDE DEF ps
<1>3. procs' \in [Proc -> Process]
  BY <1>1, <1>2, SignalledType
<1>4. agents' = [a \in Agent |-> IF a \in as THEN None ELSE agents[a]]
  BY DEF StopAgents
<1>5. agents' \in [Agent -> Proc \cup {None}]
  BY <1>4 DEF TypeOK
<1> QED
  BY <1>3, <1>5

\* They hold when the host starts.
LEMMA TypeInit == Init => TypeOK
<1> SUFFICES ASSUME Init PROVE TypeOK
  OBVIOUS
<1>0. faults \in 0..MaxFaults /\ moves \in 0..MaxMoves
  BY NodeHostAssumption DEF NodeHostAssumption, Init
<1>1. wanted \subseteq Agent /\ cache \subseteq Agent /\ disturbed \in BOOLEAN
  BY NodeHostAssumption DEF NodeHostAssumption, Init
<1>2. agents \in [Agent -> Proc \cup {None}]
  BY DEF Init
<1>3. procs \in [Proc -> Process] /\ beats \in [Beat -> BeatRecord]
  BY AtRest DEF Init
<1>4. \A b \in Beat : beats[b].phase = "resolving" <=> beats[b].current # None
  BY AtRest DEF Init
<1> QED
  BY <1>0, <1>1, <1>2, <1>3, <1>4 DEF TypeOK

\* The types are inductive.
LEMMA TypeStep == TypeOK /\ [Next]_vars => TypeOK'
<1> SUFFICES ASSUME TypeOK, [Next]_vars PROVE TypeOK'
  OBVIOUS
<1>1. ASSUME NEW a \in Agent, Assign(a) \/ Unassign(a) PROVE TypeOK'
  BY <1>1, NodeHostAssumption DEF NodeHostAssumption, Assign, Unassign, Move, TypeOK
<1>2. ASSUME NEW b \in Beat, Poll(b) PROVE TypeOK'
  <2> DEFINE r == [NoBeat EXCEPT !.phase = "polling", !.running = Tracked]
  <2>1. r \in BeatRecord /\ r.phase = "polling" /\ r.current = None
    BY DEF NoBeat, BeatRecord, Tracked
  <2> HIDE DEF r
  <2>2. /\ beats' \in [Beat -> BeatRecord]
        /\ \A c \in Beat : beats'[c].phase = "resolving" <=> beats'[c].current # None
    BY <1>2, <2>1, PutBeatType DEF Poll, r
  <2> QED
    BY <1>2, <2>2 DEF Poll, TypeOK
<1>3. ASSUME NEW b \in Beat, PollFails(b) \/ ReplyLost(b) PROVE TypeOK'
  <2>1. /\ beats' \in [Beat -> BeatRecord]
        /\ \A c \in Beat : beats'[c].phase = "resolving" <=> beats'[c].current # None
    BY <1>3, AtRest, PutBeatType DEF PollFails, ReplyLost
  <2> QED
    BY <1>3, <2>1, FaultType DEF PollFails, ReplyLost, TypeOK
<1>4. ASSUME NEW b \in Beat, NEW starts \in SUBSET Agent, Answer(b, starts) PROVE TypeOK'
  <2> DEFINE r == [beats[b] EXCEPT !.phase = "applying", !.running = {},
                                   !.starts = starts, !.stops = ToStop(beats[b])]
  <2>1. beats[b] \in BeatRecord /\ beats[b].phase = "polling" /\ beats[b].current = None
    BY <1>4 DEF Answer, TypeOK
  <2>2. ToStop(beats[b]) \in SUBSET Agent
    BY <2>1 DEF ToStop, BeatRecord
  <2>3. r \in BeatRecord /\ r.phase = "applying" /\ r.current = None
    BY <2>1, <2>2 DEF BeatRecord
  <2> HIDE DEF r
  <2>4. /\ beats' \in [Beat -> BeatRecord]
        /\ \A c \in Beat : beats'[c].phase = "resolving" <=> beats'[c].current # None
    BY <1>4, <2>3, PutBeatType DEF Answer, r
  <2>5. wanted' \subseteq Agent
    BY <1>4 DEF Answer, TypeOK
  <2> QED
    BY <1>4, <2>4, <2>5 DEF Answer, TypeOK
<1>5. ASSUME NEW b \in Beat, NEW a \in Agent, SkipStart(b, a) \/ StartNow(b, a)
      PROVE  TypeOK'
  <2>1. /\ PutBeat(b, Started(b, a)) /\ beats[b].phase = "applying"
        /\ beats[b] \in BeatRecord /\ beats[b].current = None
    BY <1>5 DEF SkipStart, StartNow, TypeOK
  <2>2. Started(b, a) \in BeatRecord /\ Started(b, a).phase = "applying"
        /\ Started(b, a).current = None
    BY <2>1 DEF Started, BeatRecord
  <2>3. /\ beats' \in [Beat -> BeatRecord]
        /\ \A c \in Beat : beats'[c].phase = "resolving" <=> beats'[c].current # None
    BY <2>1, <2>2, PutBeatType
  <2>4. CASE SkipStart(b, a)
    BY <2>3, <2>4 DEF SkipStart, TypeOK
  <2>5. CASE StartNow(b, a)
    BY <2>3, <2>5, SpawnType DEF StartNow, TypeOK
  <2> QED
    BY <1>5, <2>4, <2>5
<1>6. ASSUME NEW b \in Beat, NEW a \in Agent, StartPulls(b, a) PROVE TypeOK'
  <2> DEFINE r == [Started(b, a) EXCEPT !.phase = "resolving", !.current = a]
  <2>1. beats[b] \in BeatRecord /\ a # None
    BY NodeHostAssumption DEF NodeHostAssumption, TypeOK
  <2>2. r \in BeatRecord /\ r.phase = "resolving" /\ r.current = a
    BY <2>1 DEF Started, BeatRecord
  <2> HIDE DEF r
  <2>3. /\ beats' \in [Beat -> BeatRecord]
        /\ \A c \in Beat : beats'[c].phase = "resolving" <=> beats'[c].current # None
    BY <1>6, <2>1, <2>2, PutBeatType DEF StartPulls, r
  <2> QED
    BY <1>6, <2>3 DEF StartPulls, TypeOK
<1>7. ASSUME NEW b \in Beat, Pulled(b) \/ PullFails(b) PROVE TypeOK'
  <2> DEFINE r == [beats[b] EXCEPT !.phase = "applying", !.current = None]
  <2>1. /\ PutBeat(b, r) /\ beats[b].phase = "resolving"
        /\ beats[b] \in BeatRecord /\ beats[b].current \in Agent
    BY <1>7 DEF Pulled, PullFails, TypeOK, BeatRecord
  <2>2. r \in BeatRecord /\ r.phase = "applying" /\ r.current = None
    BY <2>1 DEF BeatRecord
  <2> HIDE DEF r
  <2>3. /\ beats' \in [Beat -> BeatRecord]
        /\ \A c \in Beat : beats'[c].phase = "resolving" <=> beats'[c].current # None
    BY <2>1, <2>2, PutBeatType
  <2>4. CASE Pulled(b)
    BY <2>1, <2>3, <2>4, SpawnType DEF Pulled, TypeOK
  <2>5. CASE PullFails(b)
    BY <2>3, <2>5, FaultType DEF PullFails, TypeOK
  <2> QED
    BY <1>7, <2>4, <2>5
<1>8. ASSUME NEW b \in Beat, NEW a \in Agent, StopOne(b, a) PROVE TypeOK'
  <2> DEFINE r == [beats[b] EXCEPT !.stops = @ \ {a}]
  <2>1. beats[b] \in BeatRecord /\ beats[b].current = None /\ beats[b].phase = "applying"
    BY <1>8 DEF StopOne, TypeOK
  <2>2. r \in BeatRecord /\ r.phase = "applying" /\ r.current = None
    BY <2>1 DEF BeatRecord
  <2> HIDE DEF r
  <2>3. /\ beats' \in [Beat -> BeatRecord]
        /\ \A c \in Beat : beats'[c].phase = "resolving" <=> beats'[c].current # None
    BY <1>8, <2>2, PutBeatType DEF StopOne, r
  <2> QED
    BY <1>8, <2>3, StopAgentsType DEF StopOne, TypeOK
<1>9. ASSUME NEW b \in Beat, NEW greedy \in SUBSET Agent, BeatEnds(b, greedy) PROVE TypeOK'
  <2>1. /\ beats' \in [Beat -> BeatRecord]
        /\ \A c \in Beat : beats'[c].phase = "resolving" <=> beats'[c].current # None
    BY <1>9, AtRest, PutBeatType DEF BeatEnds
  <2>2. faults' \in 0..MaxFaults
    BY <1>9, FaultType DEF BeatEnds, TypeOK
  <2> QED
    BY <1>9, <2>1, <2>2, StopAgentsType DEF BeatEnds, TypeOK
<1>10. ASSUME NEW p \in Proc, Exits(p) \/ Obeys(p) PROVE TypeOK'
  <2>1. procs' \in [Proc -> Process]
    BY <1>10 DEF Exits, Obeys, TypeOK, Process
  <2> QED
    BY <1>10, <2>1, FaultType DEF Exits, Obeys, TypeOK
<1>11. ASSUME NEW p \in Proc, ExitHandler(p) PROVE TypeOK'
  BY <1>11, AtRest DEF ExitHandler, Freed, TypeOK
<1>12. ASSUME NEW drained \in BOOLEAN, HostRestarts(drained) PROVE TypeOK'
  <2> DEFINE ps == IF drained THEN {agents[a] : a \in Tracked} \cap WithStatus("up") ELSE {}
             left == Signalled(ps)
  <2>1. ps \in SUBSET Proc
    BY DEF WithStatus
  <2>2. procs' = [p \in Proc |-> [left[p] EXCEPT !.child = FALSE]]
    BY <1>12 DEF HostRestarts
  <2>3. left \in [Proc -> Process]
    <3> HIDE DEF ps
    <3> QED
      BY <2>1, SignalledType
  <2>4. procs' \in [Proc -> Process]
    <3> HIDE DEF left
    <3> QED
      BY <2>2, <2>3 DEF Process
  <2> QED
    BY <1>12, <2>4, AtRest, FaultType DEF HostRestarts, TypeOK
<1>13. CASE UNCHANGED vars
  BY <1>13 DEF vars, TypeOK
<1> QED
  BY <1>1, <1>2, <1>3, <1>4, <1>5, <1>6, <1>7, <1>8, <1>9, <1>10, <1>11, <1>12, <1>13
     DEF Next, Applies

\* All the variables keep their types.
THEOREM TypeCorrect == Spec => []TypeOK
  BY TypeInit, TypeStep, PTL DEF Spec

-----------------------------------------------------------------------------
(* The map and the budget.                                                    *)

Resolving(b) == beats[b].phase = "resolving"
Taken(p)     == procs[p].status # "free"

\* A heartbeat that pulls a bundle is alone, and the place it found is there.
Alone ==
    \A b \in Beat : Resolving(b) =>
        /\ \A c \in Beat \ {b} : beats[c].phase = "idle"
        /\ beats[b].current \notin Tracked
        /\ Cardinality(Tracked) < MaxAgents

\* An agent has one process at most, a child of the host.
OneEach ==
    /\ \A p \in Proc : IF Taken(p) THEN procs[p].child /\ procs[p].agent \in Agent
                      ELSE procs[p].agent = None
    /\ \A p, q \in Proc : Taken(p) /\ procs[q].agent = procs[p].agent => p = q

Mapped ==
    /\ \A p \in Proc : procs[p].status = "up" => agents[procs[p].agent] = p
    /\ \A a \in Tracked : procs[agents[a]].agent = a

HostInv == Orderly => Alone /\ OneEach /\ Mapped /\ Cardinality(Tracked) <= MaxAgents

\* What is on the map is some of the agents.
LEMMA TrackedFinite ==
    /\ IsFiniteSet(Tracked) /\ Cardinality(Tracked) \in Nat
    /\ \A S \in SUBSET Tracked : Cardinality(S) <= Cardinality(Tracked)
<1>1. Tracked \subseteq Agent /\ IsFiniteSet(Agent)
  BY NodeHostAssumption DEF NodeHostAssumption, Tracked
<1>2. IsFiniteSet(Tracked)
  BY <1>1, FS_Subset
<1> QED
  BY <1>2, FS_Subset, FS_CardinalityType

\* When fewer agents are on the map, there is room still.
LEMMA FewerTracked ==
    ASSUME Tracked' \subseteq Tracked
    PROVE  /\ Cardinality(Tracked) <= MaxAgents => Cardinality(Tracked') <= MaxAgents
           /\ Cardinality(Tracked) < MaxAgents => Cardinality(Tracked') < MaxAgents
<1>1. /\ Cardinality(Tracked') <= Cardinality(Tracked) /\ Cardinality(Tracked) \in Nat
      /\ IsFiniteSet(Tracked')
  BY TrackedFinite, FS_Subset
<1>2. Cardinality(Tracked') \in Nat
  BY <1>1, FS_CardinalityType
<1> QED
  BY <1>1, <1>2, NodeHostAssumption DEF NodeHostAssumption

\* One more process for an agent that has none and for which there is room.
LEMMA SpawnInv ==
    ASSUME TypeOK, Orderly, Orderly', OneEach, Mapped, NEW a \in Agent, Spawn(a),
           a \notin Tracked, Cardinality(Tracked) < MaxAgents
    PROVE  OneEach' /\ Mapped' /\ Cardinality(Tracked') <= MaxAgents
<1>1. PICK p \in Proc :
        /\ procs[p].status = "free"
        /\ procs' = [procs EXCEPT ![p] = [agent |-> a, child |-> TRUE, status |-> "up"]]
        /\ agents' = [agents EXCEPT ![a] = p]
  BY SpawnType
<1>2. \A q \in Proc : procs[q].agent = a => procs[q].status = "up"
  BY DEF Spawn, Orderly
<1>3. \A q \in Proc : procs[q].agent # a
  BY <1>2, NodeHostAssumption DEF NodeHostAssumption, Mapped, Tracked
<1>4. /\ procs'[p].agent = a /\ procs'[p].child /\ procs'[p].status = "up"
      /\ \A q \in Proc \ {p} : procs'[q] = procs[q]
      /\ agents'[a] = p /\ \A x \in Agent \ {a} : agents'[x] = agents[x]
  BY <1>1 DEF TypeOK
<1>5. OneEach'
  BY <1>3, <1>4 DEF OneEach, Taken
<1>6. Mapped'
  <2>1. ASSUME NEW q \in Proc, procs'[q].status = "up"
        PROVE  agents'[procs'[q].agent] = q
    <3>1. CASE q = p
      BY <1>4, <3>1
    <3>2. CASE q # p
      BY <1>3, <1>4, <2>1, <3>2 DEF OneEach, Taken, Mapped
    <3> QED
      BY <3>1, <3>2
  <2>2. ASSUME NEW x \in Tracked' PROVE procs'[agents'[x]].agent = x
    <3>1. CASE x = a
      BY <1>4, <3>1
    <3>2. CASE x # a
      <4>1. x \in Tracked /\ agents'[x] = agents[x] /\ agents[x] \in Proc
            /\ procs[agents[x]].agent = x
        BY <1>4, <2>2, <3>2 DEF Tracked, TypeOK, Mapped
      <4>2. agents[x] # p
        BY <1>1, <4>1, NodeHostAssumption DEF NodeHostAssumption, OneEach, Taken, Tracked
      <4> QED
        BY <1>4, <4>1, <4>2
    <3> QED
      BY <3>1, <3>2
  <2> QED
    BY <2>1, <2>2 DEF Mapped
<1>7. Tracked' = Tracked \cup {a}
  BY <1>4, NodeHostAssumption DEF NodeHostAssumption, Tracked
<1>8. Cardinality(Tracked') = Cardinality(Tracked) + 1
  <2> HIDE DEF Tracked
  <2> QED
    BY <1>7, TrackedFinite, FS_AddElement
<1>9. Cardinality(Tracked') <= MaxAgents
  BY <1>8, TrackedFinite, NodeHostAssumption DEF NodeHostAssumption
<1> QED
  BY <1>5, <1>6, <1>9

\* Agents are taken off the map and their processes signalled.
LEMMA StopInv ==
    ASSUME TypeOK, OneEach, Mapped, NEW as \in SUBSET Agent, StopAgents(as)
    PROVE  OneEach' /\ Mapped' /\ Tracked' \subseteq Tracked
<1> DEFINE ps == {agents[a] : a \in as \cap Tracked} \cap WithStatus("up")
<1>1. ps \in SUBSET Proc /\ \A p \in ps : procs[p].status = "up"
  BY DEF WithStatus
<1>2. procs' = Signalled(ps) /\ agents' = [a \in Agent |-> IF a \in as THEN None ELSE agents[a]]
  BY DEF StopAgents
<1>3. \A p \in Proc : /\ procs'[p].agent = procs[p].agent
                      /\ procs'[p].child = procs[p].child
                      /\ procs'[p].status = IF p \in ps THEN "exiting" ELSE procs[p].status
  <2> HIDE DEF ps
  <2> QED
    BY <1>1, <1>2, SignalledType
<1>4. OneEach'
  <2>1. \A p \in Proc : Taken(p)' <=> Taken(p)
    <3> HIDE DEF ps
    <3> QED
      BY <1>1, <1>3 DEF Taken
  <2> QED
    BY <1>3, <2>1 DEF OneEach
<1>5. Tracked' \subseteq Tracked
  BY <1>2 DEF Tracked
<1>6. ASSUME NEW p \in Proc, procs'[p].status = "up" PROVE agents'[procs'[p].agent] = p
  <2>1. procs[p].status = "up" /\ p \notin ps
    <3> HIDE DEF ps
    <3> QED
      BY <1>3, <1>6
  <2>2. procs[p].agent \in Agent /\ agents[procs[p].agent] = p
    BY <2>1 DEF OneEach, Mapped, Taken
  <2>3. p \in WithStatus("up") /\ procs[p].agent \in Tracked
    BY <2>1, <2>2, NodeHostAssumption DEF NodeHostAssumption, WithStatus, Tracked
  <2>4. procs[p].agent \notin as
    BY <2>1, <2>2, <2>3
  <2> QED
    BY <1>2, <1>3, <2>2, <2>4
<1>7. ASSUME NEW a \in Tracked' PROVE procs'[agents'[a]].agent = a
  <2>1. a \in Tracked /\ agents'[a] = agents[a] /\ agents[a] \in Proc
    BY <1>2, <1>7 DEF Tracked, TypeOK
  <2> QED
    BY <1>3, <2>1 DEF Mapped
<1> QED
  BY <1>4, <1>5, <1>6, <1>7 DEF Mapped

\* An empty host is in order.
LEMMA HostInit == Init => HostInv
<1> SUFFICES ASSUME Init PROVE HostInv
  OBVIOUS
<1>1. Tracked = {} /\ Cardinality(Tracked) = 0
  BY FS_EmptySet DEF Init, Tracked
<1>2. \A b \in Beat : ~Resolving(b)
  BY AtRest DEF Init, Resolving
<1>3. \A p \in Proc : procs[p].status = "free" /\ procs[p].agent = None
  BY AtRest DEF Init
<1> QED
  BY <1>1, <1>2, <1>3, NodeHostAssumption
     DEF NodeHostAssumption, HostInv, Alone, OneEach, Mapped, Taken

\* It stays so.
LEMMA HostStep == TypeOK /\ HostInv /\ [Next]_vars => HostInv'
<1> SUFFICES ASSUME TypeOK, HostInv, [Next]_vars, Orderly'
             PROVE  Alone' /\ OneEach' /\ Mapped' /\ Cardinality(Tracked') <= MaxAgents
  BY DEF HostInv
<1>0. Orderly
  BY DEF Orderly, Next, Applies, Assign, Unassign, Poll, PollFails, ReplyLost, Answer,
         SkipStart, StartNow, StartPulls, Spawn, StopOne, BeatEnds, Pulled, PullFails,
         Exits, Obeys, ExitHandler, HostRestarts, vars
<1>1. Alone /\ OneEach /\ Mapped /\ Cardinality(Tracked) <= MaxAgents
  BY <1>0 DEF HostInv
<1>2. (\A b \in Beat : ~Resolving(b)') => Alone'
  BY DEF Alone
\* While a heartbeat is neither idle nor pulling, none is pulling.
<1>3. ASSUME NEW b \in Beat, beats[b].phase \notin {"idle", "resolving"}
      PROVE  \A c \in Beat : ~Resolving(c)
  BY <1>1, <1>3 DEF Alone, Resolving
<1>4. ASSUME NEW b \in Beat, NEW r, PutBeat(b, r), r.phase # "resolving",
             \A c \in Beat \ {b} : ~Resolving(c)
      PROVE  Alone'
  <2>1. \A c \in Beat : ~Resolving(c)'
    BY <1>4 DEF PutBeat, Resolving, TypeOK
  <2> QED
    BY <1>2, <2>1
<1>5. UNCHANGED <<agents, procs>> =>
          OneEach' /\ Mapped' /\ Cardinality(Tracked') <= MaxAgents
  BY <1>1 DEF OneEach, Mapped, Tracked, Taken
<1>6. UNCHANGED <<agents, beats>> => Alone'
  BY <1>1 DEF Alone, Resolving, Tracked
<1>7. CASE UNCHANGED <<agents, procs, beats>>
  BY <1>5, <1>6, <1>7
<1>8. ASSUME NEW a \in Agent, Assign(a) \/ Unassign(a)
      PROVE  UNCHANGED <<agents, procs, beats>>
  BY <1>8 DEF Assign, Unassign
<1>9. ASSUME NEW b \in Beat, Poll(b)
      PROVE  Alone' /\ OneEach' /\ Mapped' /\ Cardinality(Tracked') <= MaxAgents
  <2>1. \A c \in Beat : ~Resolving(c)
    BY <1>9 DEF Poll, Orderly, Resolving
  <2>2. PutBeat(b, [NoBeat EXCEPT !.phase = "polling", !.running = Tracked])
        /\ UNCHANGED <<agents, procs>>
    BY <1>9 DEF Poll
  <2>3. [NoBeat EXCEPT !.phase = "polling", !.running = Tracked].phase = "polling"
    BY DEF NoBeat
  <2> QED
    BY <1>4, <1>5, <2>1, <2>2, <2>3
<1>10. ASSUME NEW b \in Beat,
              \/ PollFails(b) \/ ReplyLost(b)
              \/ \E starts \in SUBSET Agent : Answer(b, starts)
              \/ \E a \in Agent : SkipStart(b, a)
       PROVE  Alone' /\ OneEach' /\ Mapped' /\ Cardinality(Tracked') <= MaxAgents
  <2>1. beats[b].phase \in {"polling", "applying"} /\ beats[b] \in BeatRecord
        /\ UNCHANGED <<agents, procs>>
    BY <1>10 DEF PollFails, ReplyLost, Answer, SkipStart, TypeOK
  <2>2. \A c \in Beat : ~Resolving(c)
    BY <1>3, <2>1
  <2>3. \E r : PutBeat(b, r) /\ r.phase # "resolving"
    <3>1. CASE PollFails(b) \/ ReplyLost(b)
      <4>1. PutBeat(b, NoBeat)
        BY <3>1 DEF PollFails, ReplyLost
      <4> QED
        BY <4>1, AtRest
    <3>2. ASSUME NEW starts \in SUBSET Agent, Answer(b, starts)
          PROVE  \E r : PutBeat(b, r) /\ r.phase # "resolving"
      <4> DEFINE r == [beats[b] EXCEPT !.phase = "applying", !.running = {},
                                       !.starts = starts, !.stops = ToStop(beats[b])]
      <4>1. PutBeat(b, r)
        BY <3>2 DEF Answer
      <4>2. r.phase = "applying"
        BY <2>1 DEF BeatRecord
      <4> HIDE DEF r
      <4> QED
        BY <4>1, <4>2
    <3>3. ASSUME NEW a \in Agent, SkipStart(b, a)
          PROVE  \E r : PutBeat(b, r) /\ r.phase # "resolving"
      <4>1. PutBeat(b, Started(b, a)) /\ beats[b].phase = "applying"
        BY <3>3 DEF SkipStart
      <4>2. Started(b, a).phase = "applying"
        BY <2>1, <4>1 DEF Started, BeatRecord
      <4> QED
        BY <4>1, <4>2
    <3> QED
      BY <1>10, <3>1, <3>2, <3>3
  <2> QED
    BY <1>4, <1>5, <2>1, <2>2, <2>3
<1>11. ASSUME NEW b \in Beat, NEW a \in Agent, StartNow(b, a)
       PROVE  Alone' /\ OneEach' /\ Mapped' /\ Cardinality(Tracked') <= MaxAgents
  <2>1. /\ beats[b].phase = "applying" /\ beats[b] \in BeatRecord
        /\ Spawn(a) /\ PutBeat(b, Started(b, a)) /\ ~Refused(a)
    BY <1>11 DEF StartNow, TypeOK
  <2>2. \A c \in Beat : ~Resolving(c)
    BY <1>3, <2>1
  <2>3. Started(b, a).phase = "applying"
    BY <2>1 DEF Started, BeatRecord
  <2>4. a \notin Tracked /\ Cardinality(Tracked) < MaxAgents
    BY <2>1, TrackedFinite, NodeHostAssumption DEF NodeHostAssumption, Refused
  <2> QED
    BY <1>0, <1>1, <1>4, <2>1, <2>2, <2>3, <2>4, SpawnInv
<1>12. ASSUME NEW b \in Beat, NEW a \in Agent, StartPulls(b, a)
       PROVE  Alone' /\ OneEach' /\ Mapped' /\ Cardinality(Tracked') <= MaxAgents
  <2> DEFINE r == [Started(b, a) EXCEPT !.phase = "resolving", !.current = a]
  <2>1. /\ PutBeat(b, r) /\ ~Refused(a) /\ UNCHANGED <<agents, procs>>
        /\ beats[b] \in BeatRecord /\ \A c \in Beat \ {b} : beats[c].phase = "idle"
    BY <1>12 DEF StartPulls, Orderly, TypeOK
  <2>2. r.current = a
    BY <2>1 DEF Started, BeatRecord
  <2>3. a \notin Tracked /\ Cardinality(Tracked) < MaxAgents
    BY <2>1, TrackedFinite, NodeHostAssumption DEF NodeHostAssumption, Refused
  <2> HIDE DEF r
  <2>4. beats'[b] = r /\ \A c \in Beat \ {b} : beats'[c].phase = "idle"
    BY <2>1 DEF PutBeat, TypeOK
  <2>5. Tracked' = Tracked
    BY <2>1 DEF Tracked
  <2>6. Alone'
    <3> SUFFICES ASSUME NEW c \in Beat, Resolving(c)'
                 PROVE  /\ \A d \in Beat \ {c} : beats'[d].phase = "idle"
                        /\ beats'[c].current \notin Tracked'
                        /\ Cardinality(Tracked') < MaxAgents
      BY DEF Alone
    <3>1. c = b
      BY <2>4 DEF Resolving
    <3> QED
      BY <2>2, <2>3, <2>4, <2>5, <3>1
  <2> QED
    BY <1>5, <2>1, <2>6
<1>13. ASSUME NEW b \in Beat, Pulled(b)
       PROVE  Alone' /\ OneEach' /\ Mapped' /\ Cardinality(Tracked') <= MaxAgents
  <2> DEFINE a == beats[b].current
             r == [beats[b] EXCEPT !.phase = "applying", !.current = None]
  <2>1. /\ Resolving(b) /\ beats[b] \in BeatRecord /\ Spawn(a) /\ PutBeat(b, r)
    BY <1>13 DEF Pulled, Resolving, TypeOK
  <2>2. a \in Agent /\ r.phase = "applying"
    BY <2>1 DEF Resolving, TypeOK, BeatRecord
  <2>3. /\ a \notin Tracked /\ Cardinality(Tracked) < MaxAgents
        /\ \A c \in Beat \ {b} : ~Resolving(c)
    BY <1>1, <2>1 DEF Alone, Resolving
  <2> HIDE DEF a, r
  <2> QED
    BY <1>0, <1>1, <1>4, <2>1, <2>2, <2>3, SpawnInv
<1>14. ASSUME NEW b \in Beat, PullFails(b)
       PROVE  Alone' /\ OneEach' /\ Mapped' /\ Cardinality(Tracked') <= MaxAgents
  <2> DEFINE r == [beats[b] EXCEPT !.phase = "applying", !.current = None]
  <2>1. /\ Resolving(b) /\ beats[b] \in BeatRecord /\ PutBeat(b, r)
        /\ UNCHANGED <<agents, procs>>
    BY <1>14 DEF PullFails, Resolving, TypeOK
  <2>2. r.phase = "applying"
    BY <2>1 DEF BeatRecord
  <2>3. \A c \in Beat \ {b} : ~Resolving(c)
    BY <1>1, <2>1 DEF Alone, Resolving
  <2> HIDE DEF r
  <2> QED
    BY <1>4, <1>5, <2>1, <2>2, <2>3
<1>15. ASSUME NEW b \in Beat, NEW as \in SUBSET Agent, StopAgents(as),
              beats[b].phase = "applying", NEW r, PutBeat(b, r), r.phase # "resolving"
       PROVE  Alone' /\ OneEach' /\ Mapped' /\ Cardinality(Tracked') <= MaxAgents
  <2>1. \A c \in Beat : ~Resolving(c)
    BY <1>3, <1>15
  <2> QED
    BY <1>1, <1>4, <1>15, <2>1, StopInv, FewerTracked
<1>16. ASSUME NEW b \in Beat, NEW a \in Agent, StopOne(b, a)
       PROVE  Alone' /\ OneEach' /\ Mapped' /\ Cardinality(Tracked') <= MaxAgents
  <2> DEFINE r == [beats[b] EXCEPT !.stops = @ \ {a}]
  <2>1. beats[b].phase = "applying" /\ beats[b] \in BeatRecord
        /\ StopAgents({a}) /\ PutBeat(b, r)
    BY <1>16 DEF StopOne, TypeOK
  <2>2. r.phase = "applying"
    BY <2>1 DEF BeatRecord
  <2> HIDE DEF r
  <2> QED
    BY <1>15, <2>1, <2>2
<1>17. ASSUME NEW b \in Beat, NEW greedy \in SUBSET Agent, BeatEnds(b, greedy)
       PROVE  Alone' /\ OneEach' /\ Mapped' /\ Cardinality(Tracked') <= MaxAgents
  BY <1>15, <1>17, AtRest DEF BeatEnds
<1>18. ASSUME NEW p \in Proc, Exits(p) \/ Obeys(p)
       PROVE  Alone' /\ OneEach' /\ Mapped' /\ Cardinality(Tracked') <= MaxAgents
  <2>1. /\ UNCHANGED <<agents, beats>> /\ Taken(p)
        /\ procs' = [procs EXCEPT ![p].status = "exited"]
    BY <1>18 DEF Exits, Obeys, Taken
  <2>2. /\ \A q \in Proc : procs[q] \in Process
        /\ \A q \in Proc : procs'[q].agent = procs[q].agent /\ procs'[q].child = procs[q].child
        /\ procs'[p].status = "exited"
        /\ \A q \in Proc \ {p} : procs'[q].status = procs[q].status
    BY <2>1 DEF TypeOK, Process
  <2>3. \A q \in Proc : Taken(q)' <=> Taken(q)
    BY <2>1, <2>2 DEF Taken
  <2>4. OneEach'
    BY <1>1, <2>2, <2>3 DEF OneEach
  <2>5. Tracked' = Tracked /\ \A a \in Tracked : agents[a] \in Proc
    BY <2>1 DEF Tracked, TypeOK
  <2>6. Mapped'
    BY <1>1, <2>1, <2>2, <2>5 DEF Mapped
  <2> QED
    BY <1>1, <1>6, <2>1, <2>4, <2>5, <2>6
<1>19. ASSUME NEW p \in Proc, ExitHandler(p)
       PROVE  Alone' /\ OneEach' /\ Mapped' /\ Cardinality(Tracked') <= MaxAgents
  <2> DEFINE x == procs[p].agent
  <2>1. Taken(p) /\ procs' = [procs EXCEPT ![p] = FreeSlot] /\ beats' = beats
    BY <1>19 DEF ExitHandler, Freed, Taken
  <2>2. procs[p].child /\ x \in Agent
    BY <1>1, <2>1 DEF OneEach
  <2>3. agents' = [agents EXCEPT ![x] = None]
    BY <1>19, <2>2 DEF ExitHandler
  <2>4. /\ procs'[p] = FreeSlot /\ \A q \in Proc \ {p} : procs'[q] = procs[q]
        /\ agents'[x] = None /\ \A a \in Agent \ {x} : agents'[a] = agents[a]
    BY <2>1, <2>2, <2>3 DEF TypeOK
  <2>5. Tracked' = Tracked \ {x}
    BY <2>2, <2>4 DEF Tracked
  <2>6. \A q \in Proc \ {p} : procs[q].agent # x
    BY <1>1, <2>1 DEF OneEach
  <2> HIDE DEF x
  <2>7. OneEach'
    BY <1>1, <2>4, AtRest, NodeHostAssumption DEF NodeHostAssumption, OneEach, Taken
  <2>8. Mapped'
    <3>1. ASSUME NEW q \in Proc, procs'[q].status = "up"
          PROVE  agents'[procs'[q].agent] = q
      <4>1. q # p
        BY <2>4, <3>1, AtRest
      <4>2. procs[q].agent \in Agent \ {x} /\ agents[procs[q].agent] = q
        BY <1>1, <2>4, <2>6, <3>1, <4>1 DEF OneEach, Mapped, Taken
      <4> QED
        BY <2>4, <4>1, <4>2
    <3>2. ASSUME NEW a \in Tracked' PROVE procs'[agents'[a]].agent = a
      <4>1. /\ a \in Tracked /\ a # x /\ a \in Agent /\ agents[a] \in Proc
            /\ procs[agents[a]].agent = a
        BY <1>1, <2>5, <3>2 DEF Mapped, Tracked, TypeOK
      <4>2. agents[a] # p
        BY <4>1 DEF x
      <4> QED
        BY <2>4, <4>1, <4>2
    <3> QED
      BY <3>1, <3>2 DEF Mapped
  <2>9. Alone'
    <3>1. Tracked' \subseteq Tracked
      BY <2>5
    <3> QED
      BY <1>1, <2>1, <3>1, FewerTracked DEF Alone, Resolving
  <2>10. Tracked' \subseteq Tracked
    BY <2>5
  <2> QED
    BY <1>1, <2>7, <2>8, <2>9, <2>10, FewerTracked
<1>20. ASSUME NEW drained \in BOOLEAN, HostRestarts(drained) PROVE FALSE
  BY <1>20 DEF HostRestarts, Orderly
<1>21. CASE UNCHANGED vars
  BY <1>7, <1>21 DEF vars
<1> QED
  BY <1>7, <1>8, <1>9, <1>10, <1>11, <1>12, <1>13, <1>14, <1>16, <1>17, <1>18, <1>19,
     <1>20, <1>21 DEF Next, Applies

\* What runs is on the map under its agent's name, and the reverse, while no
\* heartbeat overtakes a pull and no agent is started before its last process ended.
THEOREM MapRight == Spec => []MapIsRight
<1>1. HostInv => MapIsRight
  BY DEF HostInv, MapIsRight, Mapped, WithStatus
<1> QED
  BY <1>1, TypeInit, TypeStep, HostInit, HostStep, PTL DEF Spec

\* As long, the host runs no more agents than its operator allows.
THEOREM BudgetKept == Spec => []WithinBudget
<1>1. TypeOK /\ HostInv => WithinBudget
  <2> SUFFICES ASSUME TypeOK, HostInv, Orderly
               PROVE  Cardinality(WithStatus("up")) <= MaxAgents
    BY DEF WithinBudget
  <2>1. Mapped /\ OneEach /\ Cardinality(Tracked) <= MaxAgents
    BY DEF HostInv
  <2> DEFINE up == WithStatus("up")
             places == {procs[p].agent : p \in up}
             host == [a \in places |-> agents[a]]
  <2>2. \A p \in up : p \in Proc /\ procs[p].agent \in Tracked /\ agents[procs[p].agent] = p
    BY <2>1, NodeHostAssumption
       DEF NodeHostAssumption, Mapped, OneEach, Taken, WithStatus, Tracked
  <2>3. places \subseteq Tracked
    BY <2>2
  <2>4. host \in Surjection(places, up)
    BY <2>2 DEF Surjection
  <2>5. IsFiniteSet(places) /\ Cardinality(places) <= Cardinality(Tracked)
    <3> HIDE DEF places
    <3> QED
      BY <2>3, TrackedFinite, FS_Subset
  <2>6. IsFiniteSet(up) /\ Cardinality(up) <= Cardinality(places)
    <3> HIDE DEF places, up, host
    <3> QED
      BY <2>4, <2>5, FS_Surjection
  <2> HIDE DEF up, places
  <2>7. Cardinality(up) \in Nat /\ Cardinality(places) \in Nat /\ Cardinality(Tracked) \in Nat
    BY <2>5, <2>6, TrackedFinite, FS_CardinalityType
  <2>8. Cardinality(up) <= MaxAgents
    BY <2>1, <2>5, <2>6, <2>7, NodeHostAssumption DEF NodeHostAssumption
  <2> QED
    BY <2>8 DEF up
<1> QED
  BY <1>1, TypeInit, TypeStep, HostInit, HostStep, PTL DEF Spec
=============================================================================
