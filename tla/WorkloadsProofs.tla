-------------------------- MODULE WorkloadsProofs ---------------------------
(* Theorems about what agents run and where, for any agents, nodes, owners,   *)
(* bundles and requirements.                                                  *)
EXTENDS Workloads, TLAPS

LEMMA RankFacts ==
    /\ NodeRank \in Rank /\ OciRank \in Rank
    /\ \A n \in Node : Strength[n] \in Rank /\ Resolved(n) \in Rank
  BY WorkloadsAssumption DEF WorkloadsAssumption, Rank, NodeRank, OciRank, Resolved

-----------------------------------------------------------------------------
(* Types and bindings.                                                        *)

LEMMA InitType == Init => TypeOK
  BY WorkloadsAssumption
  DEF WorkloadsAssumption, Init, TypeOK, Rank

LEMMA PutType ==
    ASSUME TypeOK, NEW a \in Agent, NEW r \in Record, Binds(r.bundle, r.owner, a), Put(a, r)
    PROVE  /\ agents' \in [Agent -> Record \cup {None}]
           /\ \A c \in Agent : agents'[c] # None => Binds(agents'[c].bundle, agents'[c].owner, c)
  BY DEF TypeOK, Put, Binds

\* Scheduling changes nothing but the node.
LEMMA ScheduledKeeps ==
    ASSUME NEW a \in Agent, NEW r \in Record, NEW q \in Scheduled(a, r)
    PROVE  /\ q \in Record
           /\ q.owner = r.owner /\ q.bundle = r.bundle /\ q.wanted = r.wanted
           /\ q.node = r.node \/ NodeSatisfies(q.node, a, r.bundle)
<1>1. CASE q = r
  BY <1>1
<1>2. CASE \E n \in Node : NodeSatisfies(n, a, r.bundle) /\ q = [r EXCEPT !.node = n]
  BY <1>2 DEF Record
<1> QED
  BY <1>1, <1>2 DEF Scheduled

\* What each step of the control plane does to the records.
LEMMA PlaceType ==
    ASSUME TypeOK, NEW a \in Agent,
           Start(a) \/ Stop(a) \/ \E off \in BOOLEAN : Sweep(a, off)
    PROVE  \E r \in Record :
              /\ agents[a] # None /\ agents[a] \in Record /\ Put(a, r)
              /\ r.owner = agents[a].owner /\ r.bundle = agents[a].bundle
              /\ \/ r.node \in {agents[a].node, None}
                 \/ NodeSatisfies(r.node, a, r.bundle)
<1> DEFINE old == agents[a]
<1>1. old \in Record /\ old # None
  BY DEF TypeOK, Start, Stop, Sweep
<1>2. CASE Start(a)
  <2>1. [old EXCEPT !.wanted = TRUE] \in Record
    BY <1>1 DEF Record
  <2> QED
    BY <1>1, <1>2, <2>1, ScheduledKeeps DEF Start, Record
<1>3. CASE Stop(a)
  <2> DEFINE r == [old EXCEPT !.wanted = FALSE]
  <2>1. r \in Record /\ r.owner = old.owner /\ r.bundle = old.bundle /\ r.node = old.node
    BY <1>1 DEF Record
  <2> QED
    BY <1>1, <1>3, <2>1 DEF Stop
<1>4. ASSUME NEW off \in BOOLEAN, Sweep(a, off)
      PROVE  \E r \in Record :
                /\ Put(a, r) /\ r.owner = old.owner /\ r.bundle = old.bundle
                /\ r.node \in {old.node, None} \/ NodeSatisfies(r.node, a, r.bundle)
  <2> DEFINE from == [old EXCEPT !.node = IF off THEN None ELSE @]
  <2>1. /\ from \in Record /\ from.node \in {old.node, None}
        /\ from.owner = old.owner /\ from.bundle = old.bundle
    BY <1>1 DEF Record
  <2>2. PICK r \in Scheduled(a, from) : Put(a, r)
    BY <1>4 DEF Sweep
  <2>3. /\ r \in Record /\ r.owner = from.owner /\ r.bundle = from.bundle
        /\ r.node = from.node \/ NodeSatisfies(r.node, a, from.bundle)
    BY <2>1, <2>2, ScheduledKeeps
  <2> QED
    BY <2>1, <2>2, <2>3
<1> QED
  BY <1>1, <1>2, <1>3, <1>4

LEMMA CreationType ==
    ASSUME TypeOK
    PROVE  /\ \A c \in creating : c.agent \in Agent /\ c.owner \in Owner /\ c.bundle \in Workload
           /\ \A n \in Node : \A s \in starts[n] \cup pulls[n] :
                 /\ s \in Creation /\ s.agent \in Agent /\ s.owner \in Owner
                 /\ s.bundle \in Workload
  BY DEF TypeOK, Creation

ControlType ==
    /\ agents \in [Agent -> Record \cup {None}]
    /\ \A a \in Agent : agents[a] # None => Binds(agents[a].bundle, agents[a].owner, a)
    /\ creating \subseteq Creation
    /\ \A c \in creating : Binds(c.bundle, c.owner, c.agent)
    /\ nodes \in [Node -> [sandbox : Rank, trusted : BOOLEAN]]
    /\ overtaken \subseteq Agent /\ weakened \subseteq Node
    /\ lives \in 0..MaxLives /\ faults \in 0..MaxFaults /\ orders \in 0..MaxOrders

HostType ==
    /\ engine \in [Node -> BOOLEAN]
    /\ starts \in [Node -> SUBSET Creation] /\ pulls \in [Node -> SUBSET Creation]
    /\ \A n \in Node : \A s \in starts[n] \cup pulls[n] : Binds(s.bundle, s.owner, s.agent)
    /\ trees \in [Node -> [Sha -> {"none", "part", "whole"}]]
    /\ procs \in [Node -> SUBSET Process]

\* TypeOK, and that a creation that waits for the signer was bound to its owner.
Typed == ControlType /\ HostType

LEMMA TypedIsTypeOK == Typed => TypeOK
  BY DEF Typed, ControlType, HostType, TypeOK

LEMMA BoundsFacts ==
    ASSUME ControlType
    PROVE  /\ Order => orders' \in 0..MaxOrders
           /\ Fault => faults' \in 0..MaxFaults
           /\ lives < MaxLives /\ lives' = lives + 1 => lives' \in 0..MaxLives
  BY WorkloadsAssumption DEF WorkloadsAssumption, ControlType, Order, Fault

LEMMA ControlPlaneTyped == ASSUME Typed, ControlPlaneStep PROVE Typed'
<1> USE TypedIsTypeOK, BoundsFacts
<1>1. ASSUME UNCHANGED <<engine, host>> PROVE HostType'
  BY <1>1 DEF Typed, HostType, host
<1>2. ASSUME NEW a \in Agent,
             Start(a) \/ Stop(a) \/ \E off \in BOOLEAN : Sweep(a, off)
      PROVE  Typed'
  <2>1. PICK r \in Record :
            /\ agents[a] # None /\ agents[a] \in Record /\ Put(a, r)
            /\ r.owner = agents[a].owner /\ r.bundle = agents[a].bundle
    BY <1>2, PlaceType
  <2>2. Binds(r.bundle, r.owner, a)
    BY <2>1 DEF Typed, ControlType
  <2>3. /\ UNCHANGED <<creating, nodes, engine, host, overtaken, weakened, lives, faults>>
        /\ orders' \in 0..MaxOrders
    BY <1>2 DEF Start, Stop, Sweep, bounds, Typed, ControlType
  <2> QED
    BY <1>1, <2>1, <2>2, <2>3, PutType DEF Typed, ControlType
<1>3. ASSUME NEW a \in Agent, Delete(a) PROVE Typed'
  BY <1>1, <1>3 DEF Delete, Put, bounds, Typed, ControlType
<1>4. ASSUME NEW a \in Agent, NEW o \in Owner, HandOver(a, o) PROVE Typed'
  <2> DEFINE r == [agents[a] EXCEPT !.owner = o]
  <2>1. agents[a] \in Record /\ Put(a, r) /\ Order
        /\ UNCHANGED <<creating, nodes, engine, host, overtaken, weakened, lives, faults>>
    BY <1>4 DEF HandOver, Typed, ControlType
  <2>2. r \in Record /\ r.owner = o /\ r.bundle = agents[a].bundle
    BY <2>1 DEF Record
  <2>3. Binds(r.bundle, r.owner, a)
    BY <1>4, <2>2 DEF HandOver
  <2> QED
    BY <1>1, <2>1, <2>2, <2>3, PutType DEF Typed, ControlType
<1>5. ASSUME NEW a \in Agent, NEW o \in Owner, NEW b \in Workload, CreateAsks(a, o, b)
      PROVE  Typed'
  <2> DEFINE c == [agent |-> a, owner |-> o, bundle |-> b]
  <2>1. c \in Creation /\ Binds(c.bundle, c.owner, c.agent) /\ creating' = creating \cup {c}
    BY <1>5 DEF CreateAsks, Creation
  <2>2. /\ UNCHANGED <<agents, nodes, engine, host, weakened, faults, orders>>
        /\ lives' \in 0..MaxLives /\ overtaken' \subseteq Agent
    BY <1>5 DEF CreateAsks, Typed, ControlType
  <2> QED
    BY <1>1, <2>1, <2>2 DEF Typed, ControlType
<1>6. ASSUME NEW c \in creating, CreateReturns(c) PROVE Typed'
  <2> DEFINE r == [owner |-> c.owner, bundle |-> c.bundle, node |-> None, wanted |-> FALSE]
  <2>1. c.agent \in Agent /\ r \in Record /\ Binds(r.bundle, r.owner, c.agent)
    BY CreationType DEF Record, Typed, ControlType
  <2>2. /\ creating' \subseteq creating /\ Put(c.agent, r) /\ overtaken' \subseteq Agent
        /\ UNCHANGED <<nodes, engine, host, weakened, bounds>>
    BY <1>6, <2>1 DEF CreateReturns, Typed, ControlType
  <2> QED
    BY <1>1, <2>1, <2>2, PutType DEF Typed, ControlType, bounds
<1>7. ASSUME NEW c \in creating, CreateFails(c) PROVE Typed'
  BY <1>1, <1>7 DEF CreateFails, bounds, Typed, ControlType
<1>8. ASSUME NEW n \in Node, Trust(n) PROVE Typed'
  <2>1. nodes' \in [Node -> [sandbox : Rank, trusted : BOOLEAN]]
    BY <1>8 DEF Trust, Typed, ControlType
  <2>2. /\ UNCHANGED <<agents, creating, engine, host, overtaken, lives, faults>>
        /\ weakened' \subseteq Node /\ orders' \in 0..MaxOrders
    BY <1>8 DEF Trust, Typed, ControlType
  <2> QED
    BY <1>1, <2>1, <2>2 DEF Typed, ControlType
<1> QED
  BY <1>2, <1>3, <1>4, <1>5, <1>6, <1>7, <1>8 DEF ControlPlaneStep

\* Hosts leave the records alone.
LEMMA HostLeavesRecords ==
    ASSUME ControlType, NEW n \in Node, HostStep(n)
    PROVE  ControlType' /\ UNCHANGED <<agents, creating, overtaken>>
<1> USE BoundsFacts
<1>1. ASSUME NEW cut \in SUBSET Sha, HostRestarts(n, cut)
      PROVE  ControlType' /\ UNCHANGED <<agents, creating, overtaken>>
  <2>1. nodes' \in [Node -> [sandbox : Rank, trusted : BOOLEAN]]
    BY <1>1, RankFacts DEF HostRestarts, Registers, ControlType
  <2> QED
    BY <1>1, <2>1 DEF HostRestarts, ControlType
<1>2. ASSUME UNCHANGED <<agents, creating, nodes, overtaken, lives, orders>>,
             faults' \in 0..MaxFaults, weakened' \subseteq Node
      PROVE  ControlType' /\ UNCHANGED <<agents, creating, overtaken>>
  BY <1>2 DEF ControlType
<1>3. CASE EngineTurns(n)
  BY <1>2, <1>3 DEF EngineTurns, ControlType
<1>4. CASE Beat(n)
  BY <1>2, <1>4 DEF Beat, bounds, ControlType
<1>5. ASSUME NEW s \in starts[n], SkipStart(n, s) \/ StartNow(n, s) \/ StartPulls(n, s)
      PROVE  ControlType' /\ UNCHANGED <<agents, creating, overtaken>>
  BY <1>2, <1>5 DEF SkipStart, StartNow, StartPulls, Looks, bounds, ControlType
<1>6. ASSUME NEW s \in pulls[n], Pulled(n, s) \/ PullFails(n, s)
      PROVE  ControlType' /\ UNCHANGED <<agents, creating, overtaken>>
  BY <1>2, <1>6 DEF Pulled, PullFails, bounds, ControlType
<1>7. ASSUME NEW p \in procs[n], Exits(n, p)
      PROVE  ControlType' /\ UNCHANGED <<agents, creating, overtaken>>
  BY <1>2, <1>7 DEF Exits, ControlType
<1> QED
  BY <1>1, <1>3, <1>4, <1>5, <1>6, <1>7 DEF HostStep

LEMMA HostTyped == ASSUME Typed, NEW n \in Node, HostStep(n) PROVE Typed'
<1> USE TypedIsTypeOK DEF HostType
<1>0. ControlType /\ HostType
  BY DEF Typed
<1>1. ASSUME Beat(n) PROVE HostType'
  <2> DEFINE missing == {a \in Agent : Belongs(a, n) /\ \A p \in Tracked(n) : p.agent # a}
             sent == {[agent |-> a, owner |-> agents[a].owner, bundle |-> agents[a].bundle]
                        : a \in missing}
  <2>1. /\ starts' = [starts EXCEPT ![n] = @ \cup sent]
        /\ procs' = [procs EXCEPT ![n] = {p \in @ : p.child => Belongs(p.agent, n)}]
        /\ UNCHANGED <<engine, pulls, trees>>
    BY <1>1 DEF Beat
  <2>2. \A s \in sent : s \in Creation /\ Binds(s.bundle, s.owner, s.agent)
    <3>1. ASSUME NEW a \in missing
          PROVE  /\ agents[a].owner \in Owner /\ agents[a].bundle \in Workload
                 /\ Binds(agents[a].bundle, agents[a].owner, a) /\ a \in Agent
      BY <1>0 DEF Belongs, ControlType, Record
    <3> QED
      BY <3>1 DEF Creation
  <2>3. starts' \in [Node -> SUBSET Creation]
    BY <1>0, <2>1, <2>2
  <2>4. \A m \in Node : \A s \in starts'[m] \cup pulls'[m] : Binds(s.bundle, s.owner, s.agent)
    BY <1>0, <2>1, <2>2
  <2>5. procs' \in [Node -> SUBSET Process]
    BY <1>0, <2>1
  <2> QED
    BY <1>0, <2>1, <2>3, <2>4, <2>5
<1>2. ASSUME EngineTurns(n) PROVE HostType'
  BY <1>0, <1>2 DEF EngineTurns, host
<1>3. \A s \in Creation : Spawned(n, s) \in [Node -> SUBSET Process]
  <2> SUFFICES ASSUME NEW s \in Creation PROVE Spawned(n, s) \in [Node -> SUBSET Process]
    OBVIOUS
  <2>1. [agent |-> s.agent, bundle |-> s.bundle, child |-> TRUE] \in Process
    BY DEF Process, Creation
  <2> QED
    BY <1>0, <2>1 DEF Spawned
<1>4. ASSUME NEW s \in starts[n], SkipStart(n, s) \/ StartNow(n, s) \/ StartPulls(n, s)
      PROVE  HostType'
  <2>1. s \in Creation /\ Binds(s.bundle, s.owner, s.agent)
    BY <1>0
  <2>2. starts' = [starts EXCEPT ![n] = @ \ {s}] /\ UNCHANGED <<engine, trees>>
    BY <1>4 DEF SkipStart, StartNow, StartPulls, Looks
  <2>3. procs' \in [Node -> SUBSET Process] /\ pulls' \in [Node -> SUBSET Creation]
    BY <1>0, <1>3, <1>4, <2>1 DEF SkipStart, StartNow, StartPulls
  <2>4. \A m \in Node : \A q \in pulls'[m] : q \in pulls[m] \/ q = s
    BY <1>0, <1>4 DEF SkipStart, StartNow, StartPulls
  <2> QED
    BY <1>0, <2>1, <2>2, <2>3, <2>4
<1>5. ASSUME NEW s \in pulls[n], Pulled(n, s) \/ PullFails(n, s)
      PROVE  HostType'
  <2>1. s \in Creation
    BY <1>0
  <2>2. pulls' = [pulls EXCEPT ![n] = @ \ {s}] /\ UNCHANGED <<engine, starts>>
    BY <1>5 DEF Pulled, PullFails
  <2>3. procs' \in [Node -> SUBSET Process]
    BY <1>0, <1>3, <1>5, <2>1 DEF Pulled, PullFails
  <2>4. trees' \in [Node -> [Sha -> {"none", "part", "whole"}]]
    BY <1>0, <1>5 DEF Pulled, PullFails
  <2> QED
    BY <1>0, <2>2, <2>3, <2>4
<1>6. ASSUME NEW p \in procs[n], Exits(n, p) PROVE HostType'
  BY <1>0, <1>6 DEF Exits
<1>7. ASSUME NEW cut \in SUBSET Sha, HostRestarts(n, cut) PROVE HostType'
  <2>1. trees' \in [Node -> [Sha -> {"none", "part", "whole"}]]
    BY <1>0, <1>7 DEF HostRestarts
  <2>2. \A p \in Process : [p EXCEPT !.child = FALSE] \in Process
    BY DEF Process
  <2>3. procs' \in [Node -> SUBSET Process]
    BY <1>0, <1>7, <2>2 DEF HostRestarts
  <2> QED
    BY <1>0, <1>7, <2>1, <2>3 DEF HostRestarts
<1>8. HostType'
  BY <1>1, <1>2, <1>4, <1>5, <1>6, <1>7 DEF HostStep
<1> QED
  BY <1>0, <1>8, HostLeavesRecords DEF Typed

LEMMA TypedAlways == Spec => []Typed
<1>1. Init => Typed
  BY InitType DEF Typed, ControlType, HostType, TypeOK, Init
<1>2. Typed /\ [Next]_vars => Typed'
  <2> SUFFICES ASSUME Typed, [Next]_vars PROVE Typed'
    OBVIOUS
  <2>1. CASE UNCHANGED vars
    BY <2>1 DEF vars, bounds, host, Typed, ControlType, HostType
  <2> QED
    BY <2>1, ControlPlaneTyped, HostTyped DEF Next
<1> QED
  BY <1>1, <1>2, PTL DEF Spec

\* "Else the stored 'publisher == owner' invariant silently breaks"
\* (control-plane/server.js:476): it does not, whoever creates, hands over, destroys
\* and creates again what, and no host is sent a start that it would reject.
THEOREM WorkloadsTypeCorrect == Spec => []TypeOK
  BY TypedAlways, TypedIsTypeOK, PTL

-----------------------------------------------------------------------------
(* Whole trees.                                                               *)

\* No step of a host's undoes a whole tree, and none starts a process without one.
LEMMA TreesStayWhole ==
    ASSUME Typed, RunsWholeTree, NEW n \in Node, HostStep(n) PROVE RunsWholeTree'
<1>0. /\ trees \in [Node -> [Sha -> {"none", "part", "whole"}]]
      /\ procs \in [Node -> SUBSET Process]
      /\ \A s \in starts[n] \cup pulls[n] : s \in Creation
      /\ \A p \in Process : p.bundle \in Workload
      /\ \A b \in Workload : b # None => b.sha \in Sha
  BY WorkloadsAssumption
  DEF WorkloadsAssumption, Typed, HostType, Process, Workload, Manifest
<1>1. ASSUME UNCHANGED trees,
             \A p \in procs'[n] :
                 \/ \E q \in procs[n] : p.bundle = q.bundle
                 \/ p.bundle # None => trees[n][p.bundle.sha] = "whole",
             \A m \in Node \ {n} : procs'[m] = procs[m]
      PROVE  RunsWholeTree'
  BY <1>1 DEF RunsWholeTree
<1>2. CASE Beat(n)
  BY <1>0, <1>1, <1>2 DEF Beat
<1>3. CASE EngineTurns(n)
  BY <1>0, <1>1, <1>3 DEF EngineTurns, host
<1>4. ASSUME NEW s \in starts[n], SkipStart(n, s) \/ StartPulls(n, s) PROVE RunsWholeTree'
  BY <1>0, <1>1, <1>4 DEF SkipStart, StartPulls, Looks
<1>5. ASSUME NEW s \in starts[n], StartNow(n, s) PROVE RunsWholeTree'
  BY <1>0, <1>1, <1>5 DEF StartNow, Looks, AtHand, Spawned
<1>6. ASSUME NEW s \in pulls[n], PullFails(n, s) PROVE RunsWholeTree'
  BY <1>0, <1>1, <1>6 DEF PullFails
<1>7. ASSUME NEW p \in procs[n], Exits(n, p) PROVE RunsWholeTree'
  BY <1>0, <1>1, <1>7 DEF Exits
<1>8. ASSUME NEW s \in pulls[n], Pulled(n, s) PROVE RunsWholeTree'
  <2>1. \A m \in Node, sha \in Sha : trees[m][sha] = "whole" => trees'[m][sha] = "whole"
    BY <1>0, <1>8 DEF Pulled
  <2>2. CASE procs' = procs
    BY <1>0, <2>1, <2>2 DEF RunsWholeTree
  <2>3. CASE /\ procs' = Spawned(n, s) /\ s.bundle \in Workload
             /\ trees' = [trees EXCEPT ![n][s.bundle.sha] = "whole"]
    <3>1. s.bundle # None => trees'[n][s.bundle.sha] = "whole"
      BY <1>0, <2>3
    <3>2. \A m \in Node : \A p \in procs'[m] :
              p \in procs[m] \/ (m = n /\ p.bundle = s.bundle)
      BY <1>0, <2>3 DEF Spawned
    <3> QED
      BY <1>0, <2>1, <3>1, <3>2 DEF RunsWholeTree
  <2> QED
    BY <1>0, <1>8, <2>2, <2>3 DEF Pulled, Creation
<1>9. ASSUME NEW cut \in SUBSET Sha, HostRestarts(n, cut) PROVE RunsWholeTree'
  <2>1. \A m \in Node \ Root, sha \in Sha :
            trees[m][sha] = "whole" => trees'[m][sha] = "whole"
    BY <1>0, <1>9 DEF HostRestarts, Removable
  <2>2. \A m \in Node : \A p \in procs'[m] : \E q \in procs[m] : p.bundle = q.bundle
    <3>1. \A p \in Process : [p EXCEPT !.child = FALSE].bundle = p.bundle
      BY DEF Process
    <3>2. procs' = [procs EXCEPT ![n] = {[p EXCEPT !.child = FALSE] : p \in @}]
      BY <1>9 DEF HostRestarts
    <3>3. /\ procs'[n] = {[p EXCEPT !.child = FALSE] : p \in procs[n]}
          /\ \A m \in Node \ {n} : procs'[m] = procs[m]
          /\ procs[n] \subseteq Process
      BY <1>0, <3>2
    <3>4. \A p \in procs'[n] : \E q \in procs[n] : p = [q EXCEPT !.child = FALSE]
      BY <3>3
    <3>5. \A p \in procs'[n] : \E q \in procs[n] : p.bundle = q.bundle
      BY <3>1, <3>3, <3>4, Zenon
    <3> QED
      BY <3>3, <3>5
  <2> QED
    BY <1>0, <2>1, <2>2 DEF RunsWholeTree
<1> QED
  BY <1>2, <1>3, <1>4, <1>5, <1>6, <1>7, <1>8, <1>9 DEF HostStep

\* "No unverified bytes ever execute" (node-host/host.js:126): on a host that is not
\* root, no order of pulls, restarts and interrupted unpackings takes a file from
\* under a process.
THEOREM TreesAreWhole == Spec => []RunsWholeTree
<1>1. Init => RunsWholeTree
  BY DEF Init, RunsWholeTree
<1>2. ControlPlaneStep => UNCHANGED host
  BY DEF ControlPlaneStep, Start, Stop, Sweep, HandOver, CreateAsks, CreateReturns, CreateFails,
         Trust, Delete
<1>3. Typed /\ RunsWholeTree /\ [Next]_vars => RunsWholeTree'
  <2> SUFFICES ASSUME Typed, RunsWholeTree, [Next]_vars PROVE RunsWholeTree'
    OBVIOUS
  <2>1. CASE UNCHANGED host
    BY <2>1 DEF host, RunsWholeTree
  <2> QED
    BY <1>2, <2>1, TreesStayWhole DEF Next, vars, host
<1> QED
  BY <1>1, <1>3, TypedAlways, PTL DEF Spec

-----------------------------------------------------------------------------
(* What is left of agents on hosts, as a start, a pull or a process.          *)

Left(n) == starts[n] \cup pulls[n] \cup procs[n]

\* Nothing turns up on a host but what was there and what is on record for it.
LEMMA HostMoves ==
    ASSUME Typed, NEW n \in Node, HostStep(n)
    PROVE  /\ \A m \in Node \ {n} : Left(m)' = Left(m)
           /\ \A s \in Left(n)' :
                 \/ \E q \in Left(n) : q.agent = s.agent /\ q.bundle = s.bundle
                 \/ /\ s.agent \in Agent /\ agents[s.agent] # None
                    /\ agents[s.agent].node = n /\ s.bundle = agents[s.agent].bundle
<1> DEFINE Known(s) == \/ \E q \in Left(n) : q.agent = s.agent /\ q.bundle = s.bundle
                       \/ /\ s.agent \in Agent /\ agents[s.agent] # None
                          /\ agents[s.agent].node = n /\ s.bundle = agents[s.agent].bundle
           Moves == /\ \A m \in Node \ {n} : Left(m)' = Left(m)
                    /\ \A s \in Left(n)' : Known(s)
<1>0. /\ starts \in [Node -> SUBSET Creation] /\ pulls \in [Node -> SUBSET Creation]
      /\ procs \in [Node -> SUBSET Process]
  BY DEF Typed, HostType
<1>1. CASE Beat(n)
  <2> DEFINE missing == {a \in Agent : Belongs(a, n) /\ \A p \in Tracked(n) : p.agent # a}
             sent == {[agent |-> a, owner |-> agents[a].owner, bundle |-> agents[a].bundle]
                        : a \in missing}
  <2>1. /\ starts' = [starts EXCEPT ![n] = @ \cup sent]
        /\ procs' = [procs EXCEPT ![n] = {p \in @ : p.child => Belongs(p.agent, n)}]
        /\ UNCHANGED pulls
    BY <1>1 DEF Beat
  <2>2. \A s \in sent : Known(s)
    BY DEF Belongs
  <2>3. \A s \in Left(n)' : s \in Left(n) \/ s \in sent
    BY <1>0, <2>1 DEF Left
  <2>4. \A m \in Node \ {n} : Left(m)' = Left(m)
    BY <1>0, <2>1 DEF Left
  <2> QED
    BY <2>2, <2>3, <2>4
<1>2. CASE EngineTurns(n)
  BY <1>2 DEF EngineTurns, host, Left
<1>3. ASSUME NEW s \in Creation, s \in starts[n] \cup pulls[n],
             procs' \in {procs, Spawned(n, s)}
      PROVE  /\ \A m \in Node \ {n} : procs'[m] = procs[m]
             /\ \A p \in procs'[n] : Known(p)
  <2> DEFINE new == [agent |-> s.agent, bundle |-> s.bundle, child |-> TRUE]
  <2>1. Known(new)
    BY <1>3 DEF Left
  <2>2. \A p \in procs[n] : Known(p)
    BY DEF Left
  <2>3. /\ \A m \in Node \ {n} : procs'[m] = procs[m]
        /\ \A p \in procs'[n] : p \in procs[n] \/ p = new
    BY <1>0, <1>3 DEF Spawned
  <2> QED
    BY <2>1, <2>2, <2>3
<1>4. ASSUME NEW s \in starts[n], SkipStart(n, s) \/ StartNow(n, s) \/ StartPulls(n, s)
      PROVE  Moves
  <2>1. /\ starts' = [starts EXCEPT ![n] = @ \ {s}]
        /\ procs' \in {procs, Spawned(n, s)} /\ s \in Creation
        /\ pulls' \in {pulls, [pulls EXCEPT ![n] = @ \cup {s}]}
    BY <1>0, <1>4 DEF SkipStart, StartNow, StartPulls, Looks
  <2>2. /\ \A m \in Node \ {n} : starts'[m] = starts[m] /\ pulls'[m] = pulls[m]
        /\ \A q \in starts'[n] \cup pulls'[n] : q \in Left(n)
    BY <1>0, <2>1 DEF Left
  <2> QED
    BY <1>3, <2>1, <2>2 DEF Left
<1>5. ASSUME NEW s \in pulls[n], Pulled(n, s) \/ PullFails(n, s) PROVE Moves
  <2>1. /\ pulls' = [pulls EXCEPT ![n] = @ \ {s}] /\ UNCHANGED starts
        /\ procs' \in {procs, Spawned(n, s)} /\ s \in Creation
    BY <1>0, <1>5 DEF Pulled, PullFails
  <2>2. /\ \A m \in Node \ {n} : starts'[m] = starts[m] /\ pulls'[m] = pulls[m]
        /\ \A q \in starts'[n] \cup pulls'[n] : q \in Left(n)
    BY <1>0, <2>1 DEF Left
  <2> QED
    BY <1>3, <2>1, <2>2 DEF Left
<1>6. ASSUME NEW p \in procs[n], Exits(n, p) PROVE Moves
  BY <1>0, <1>6 DEF Exits, Left
<1>7. ASSUME NEW cut \in SUBSET Sha, HostRestarts(n, cut) PROVE Moves
  <2>1. /\ procs' = [procs EXCEPT ![n] = {[p EXCEPT !.child = FALSE] : p \in @}]
        /\ starts' = [starts EXCEPT ![n] = {}] /\ pulls' = [pulls EXCEPT ![n] = {}]
    BY <1>7 DEF HostRestarts
  <2>2. \A p \in Process : /\ [p EXCEPT !.child = FALSE].bundle = p.bundle
                           /\ [p EXCEPT !.child = FALSE].agent = p.agent
    BY DEF Process
  <2>3. /\ procs'[n] = {[p EXCEPT !.child = FALSE] : p \in procs[n]}
        /\ starts'[n] = {} /\ pulls'[n] = {} /\ procs[n] \subseteq Process
    BY <1>0, <2>1
  <2>4. \A s \in Left(n)' : \E q \in procs[n] : s = [q EXCEPT !.child = FALSE]
    BY <2>3 DEF Left
  <2>5. \A s \in Left(n)' : \E q \in procs[n] : s.agent = q.agent /\ s.bundle = q.bundle
    BY <2>2, <2>3, <2>4, Zenon
  <2>6. \A m \in Node \ {n} : Left(m)' = Left(m)
    BY <1>0, <2>1 DEF Left
  <2> QED
    BY <2>5, <2>6 DEF Left
<1> QED
  BY <1>1, <1>2, <1>4, <1>5, <1>6, <1>7 DEF HostStep

-----------------------------------------------------------------------------
(* Which code runs under an id.                                               *)

\* On all hosts, what is left of an agent that was not overtaken is of the bundle
\* on its record, and such an agent has at most one creation under way.
Same ==
    /\ \A n \in Node : \A s \in Left(n) :
          agents[s.agent] # None /\ s.agent \notin overtaken
              => s.bundle = agents[s.agent].bundle
    /\ \A c \in creating : agents[c.agent] # None => c.agent \in overtaken
    /\ \A c, d \in creating : c.agent = d.agent => c = d \/ c.agent \in overtaken

LEMMA LeftAgents ==
    ASSUME Typed
    PROVE  \A n \in Node : \A s \in Left(n) : s.agent \in Agent
  BY DEF Typed, HostType, Left, Creation, Process

LEMMA ControlPlaneSame == ASSUME Typed, Same, ControlPlaneStep PROVE Same'
<1> USE TypedIsTypeOK
<1>0. /\ agents \in [Agent -> Record \cup {None}]
      /\ \A c \in creating : c.agent \in Agent
      /\ \A c, d \in creating : c.agent = d.agent => c = d \/ c.agent \in overtaken
      /\ \A c \in creating : agents[c.agent] # None => c.agent \in overtaken
  BY CreationType DEF Typed, ControlType, Same
<1>1. ASSUME UNCHANGED host PROVE \A n \in Node : Left(n)' = Left(n)
  BY <1>1 DEF Left, host
<1>2. ASSUME UNCHANGED <<host, creating, overtaken>>, NEW a \in Agent, NEW r \in Record \cup {None},
             agents[a] # None, r = None \/ r.bundle = agents[a].bundle,
             Put(a, r)
      PROVE  Same'
  <2>1. agents'[a] = r /\ \A c \in Agent \ {a} : agents'[c] = agents[c]
    BY <1>0, <1>2 DEF Put
  <2> QED
    BY <1>0, <1>1, <1>2, <2>1, LeftAgents DEF Same
<1>3. ASSUME NEW a \in Agent,
             Start(a) \/ Stop(a) \/ \E off \in BOOLEAN : Sweep(a, off)
      PROVE  Same'
  <2>1. PICK r \in Record :
            agents[a] # None /\ Put(a, r) /\ r.bundle = agents[a].bundle
    BY <1>3, PlaceType
  <2>2. UNCHANGED <<host, creating, overtaken>>
    BY <1>3 DEF Start, Stop, Sweep
  <2> QED
    BY <1>2, <2>1, <2>2
<1>4. ASSUME NEW a \in Agent, Delete(a) PROVE Same'
  BY <1>2, <1>4 DEF Delete
<1>5. ASSUME NEW a \in Agent, NEW o \in Owner, HandOver(a, o) PROVE Same'
  <2> DEFINE r == [agents[a] EXCEPT !.owner = o]
  <2>1. agents[a] \in Record /\ agents[a] # None /\ Put(a, r)
        /\ UNCHANGED <<host, creating, overtaken>>
    BY <1>0, <1>5 DEF HandOver
  <2>2. r \in Record /\ r.bundle = agents[a].bundle
    BY <2>1 DEF Record
  <2> QED
    BY <1>2, <2>1, <2>2
<1>6. ASSUME NEW a \in Agent, NEW o \in Owner, NEW b \in Workload, CreateAsks(a, o, b)
      PROVE  Same'
  <2> DEFINE c == [agent |-> a, owner |-> o, bundle |-> b]
  <2>1. /\ agents[a] = None /\ creating' = creating \cup {c} /\ overtaken \subseteq overtaken'
        /\ (\E d \in creating : d.agent = a) => a \in overtaken'
        /\ UNCHANGED <<agents, host>>
    BY <1>6 DEF CreateAsks, Free
  <2> QED
    BY <1>0, <1>1, <2>1 DEF Same
<1>7. ASSUME NEW c \in creating, CreateReturns(c) PROVE Same'
  <2> DEFINE a == c.agent
             r == [owner |-> c.owner, bundle |-> c.bundle, node |-> None, wanted |-> FALSE]
  <2>1. /\ creating' = creating \ {c} /\ Put(a, r) /\ UNCHANGED host
        /\ overtaken \subseteq overtaken' /\ a \in Agent
        /\ agents[a] = None /\ Remains(a) => a \in overtaken'
    BY <1>0, <1>7 DEF CreateReturns
  <2>2. agents'[a] = r /\ \A d \in Agent \ {a} : agents'[d] = agents[d]
    BY <1>0, <2>1 DEF Put
  <2>3. \A n \in Node : \A s \in Left(n) : s.agent = a => a \in overtaken'
    BY <1>0, <2>1 DEF Remains, Left
  <2>4. \A n \in Node : \A s \in Left(n)' :
          agents'[s.agent] # None /\ s.agent \notin overtaken'
              => s.bundle = agents'[s.agent].bundle
    BY <1>1, <2>1, <2>2, <2>3, LeftAgents DEF Same
  <2>5. \A d \in creating' : agents'[d.agent] # None => d.agent \in overtaken'
    BY <1>0, <2>1, <2>2
  <2> QED
    BY <1>0, <2>1, <2>4, <2>5 DEF Same
<1>8. ASSUME NEW c \in creating, CreateFails(c) PROVE Same'
  BY <1>0, <1>1, <1>8 DEF CreateFails, Same
<1>9. ASSUME NEW n \in Node, Trust(n) PROVE Same'
  BY <1>0, <1>1, <1>9 DEF Trust, Same
<1> QED
  BY <1>3, <1>4, <1>5, <1>6, <1>7, <1>8, <1>9 DEF ControlPlaneStep

\* A destroyed agent's id may be created again with other code
\* (docs/AGENT_REDEPLOY.md): unless the hosts were not done with the former life,
\* or two requests created it at once, what runs under the id is what is on record.
THEOREM AgentsRunTheirBundles == Spec => []RunsItsBundle
<1>1. Init => Same
  BY DEF Init, Same, Left
<1>2. Typed /\ Same /\ [Next]_vars => Same'
  <2> SUFFICES ASSUME Typed, Same, [Next]_vars PROVE Same'
    OBVIOUS
  <2>1. ASSUME NEW n \in Node, HostStep(n) PROVE Same'
    <3>1. UNCHANGED <<agents, creating, overtaken>>
      BY <2>1, HostLeavesRecords DEF Typed
    <3> QED
      BY <2>1, <3>1, HostMoves DEF Same
  <2>2. CASE UNCHANGED vars
    BY <2>2 DEF vars, host, Same, Left
  <2> QED
    BY <2>1, <2>2, ControlPlaneSame DEF Next
<1>3. Same => RunsItsBundle
  BY DEF Same, RunsItsBundle, Left
<1> QED
  BY <1>1, <1>2, <1>3, TypedAlways, PTL DEF Spec

-----------------------------------------------------------------------------
(* Containment.                                                               *)

\* Node n is isolated enough for bundle b of agent a, and trusted if it has to be.
Fits(n, a, b) ==
    /\ Oci(b) => nodes[n].trusted
    /\ b # None => Strength[n] >= Need(a, b)

\* On a node that was never weakened the record of it is right, and what is placed
\* there, and what is left there, fits.
Fitting ==
    \A n \in Node \ weakened :
        /\ engine[n] /\ nodes[n].sandbox = Strength[n]
        /\ \A a \in Agent : agents[a] # None /\ agents[a].node = n
              => Fits(n, a, agents[a].bundle)
        /\ \A s \in Left(n) : Fits(n, s.agent, s.bundle)

LEMMA ControlPlaneFitting == ASSUME Typed, Fitting, ControlPlaneStep PROVE Fitting'
<1> USE TypedIsTypeOK
<1>0. /\ agents \in [Agent -> Record \cup {None}]
      /\ nodes \in [Node -> [sandbox : Rank, trusted : BOOLEAN]]
      /\ None \notin Node
  BY WorkloadsAssumption DEF WorkloadsAssumption, Typed, ControlType
<1>1. ASSUME UNCHANGED <<host, engine, nodes, weakened>>,
             NEW a \in Agent, NEW r \in Record \cup {None}, Put(a, r),
             r = None \/ r.node = None \/ NodeSatisfies(r.node, a, r.bundle)
               \/ (agents[a] # None /\ r.node = agents[a].node /\ r.bundle = agents[a].bundle)
      PROVE  Fitting'
  <2>1. agents'[a] = r /\ \A c \in Agent \ {a} : agents'[c] = agents[c]
    BY <1>0, <1>1 DEF Put
  <2>2. ASSUME NEW n \in Node \ weakened, r # None, r.node = n
        PROVE  Fits(n, a, r.bundle)
    <3>1. nodes[n].sandbox = Strength[n]
      BY DEF Fitting
    <3> QED
      BY <1>0, <1>1, <2>2, <3>1 DEF NodeSatisfies, Fitting, Fits, Oci
  <2>3. ASSUME NEW n \in Node \ weakened
        PROVE  /\ engine'[n] /\ nodes'[n].sandbox = Strength[n]
               /\ \A c \in Agent : agents'[c] # None /\ agents'[c].node = n
                    => Fits(n, c, agents'[c].bundle)
               /\ \A s \in Left(n)' : Fits(n, s.agent, s.bundle)
    BY <1>1, <2>1, <2>2 DEF Fitting, Left, host
  <2> QED
    BY <1>1, <2>3 DEF Fitting, Fits
<1>2. ASSUME NEW a \in Agent,
             Start(a) \/ Stop(a) \/ \E off \in BOOLEAN : Sweep(a, off)
      PROVE  Fitting'
  <2>1. PICK r \in Record :
            /\ agents[a] # None /\ Put(a, r) /\ r.bundle = agents[a].bundle
            /\ r.node \in {agents[a].node, None} \/ NodeSatisfies(r.node, a, r.bundle)
    BY <1>2, PlaceType
  <2>2. UNCHANGED <<host, engine, nodes, weakened>>
    BY <1>2 DEF Start, Stop, Sweep
  <2> QED
    BY <1>1, <2>1, <2>2
<1>3. ASSUME NEW a \in Agent, Delete(a) PROVE Fitting'
  BY <1>1, <1>3 DEF Delete
<1>4. ASSUME NEW a \in Agent, NEW o \in Owner, HandOver(a, o) PROVE Fitting'
  <2> DEFINE r == [agents[a] EXCEPT !.owner = o]
  <2>1. agents[a] \in Record /\ agents[a] # None /\ Put(a, r)
        /\ UNCHANGED <<host, engine, nodes, weakened>>
    BY <1>0, <1>4 DEF HandOver
  <2>2. r \in Record /\ r.bundle = agents[a].bundle /\ r.node = agents[a].node
    BY <2>1 DEF Record
  <2> QED
    BY <1>1, <2>1, <2>2
<1>5. ASSUME UNCHANGED <<host, engine, nodes, weakened, agents>> PROVE Fitting'
  BY <1>5 DEF Fitting, Fits, Left, host
<1>6. ASSUME NEW a \in Agent, NEW o \in Owner, NEW b \in Workload, CreateAsks(a, o, b)
      PROVE  Fitting'
  BY <1>5, <1>6 DEF CreateAsks
<1>7. ASSUME NEW c \in creating, CreateReturns(c) PROVE Fitting'
  <2> DEFINE r == [owner |-> c.owner, bundle |-> c.bundle, node |-> None, wanted |-> FALSE]
  <2>1. c.agent \in Agent /\ r \in Record
    BY CreationType DEF Record
  <2>2. Put(c.agent, r) /\ UNCHANGED <<host, engine, nodes, weakened>>
    BY <1>7 DEF CreateReturns
  <2> QED
    BY <1>1, <2>1, <2>2
<1>8. ASSUME NEW c \in creating, CreateFails(c) PROVE Fitting'
  BY <1>5, <1>8 DEF CreateFails
<1>9. ASSUME NEW n \in Node, Trust(n) PROVE Fitting'
  <2>1. /\ nodes' = [nodes EXCEPT ![n].trusted = ~@]
        /\ weakened' = IF nodes[n].trusted THEN weakened \cup {n} ELSE weakened
        /\ UNCHANGED <<agents, engine, host>>
    BY <1>9 DEF Trust
  <2>2. \A m \in Node \ weakened' :
            /\ m \notin weakened /\ nodes'[m].sandbox = nodes[m].sandbox
            /\ nodes[m].trusted => nodes'[m].trusted
    BY <1>0, <2>1
  <2>3. ASSUME NEW m \in Node \ weakened', NEW a, NEW b, Fits(m, a, b) PROVE Fits(m, a, b)'
    BY <2>2, <2>3 DEF Fits
  <2> QED
    BY <2>1, <2>2, <2>3 DEF Fitting, Left, host
<1> QED
  BY <1>2, <1>3, <1>4, <1>6, <1>7, <1>8, <1>9 DEF ControlPlaneStep

LEMMA HostFitting == ASSUME Typed, Fitting, NEW n \in Node, HostStep(n) PROVE Fitting'
<1>0. /\ nodes \in [Node -> [sandbox : Rank, trusted : BOOLEAN]]
      /\ engine \in [Node -> BOOLEAN] /\ weakened \subseteq Node
      /\ agents' = agents
  BY HostLeavesRecords DEF Typed, ControlType, HostType
<1>1. /\ weakened \subseteq weakened'
      /\ \A m \in Node \ weakened' :
            /\ engine'[m] = engine[m] /\ nodes'[m].trusted = nodes[m].trusted
            /\ \/ nodes'[m].sandbox = nodes[m].sandbox
               \/ nodes'[m].sandbox = Resolved(m)
  <2> DEFINE Kept == /\ weakened \subseteq weakened'
                     /\ \A m \in Node \ weakened' :
                           /\ engine'[m] = engine[m] /\ nodes'[m].trusted = nodes[m].trusted
                           /\ \/ nodes'[m].sandbox = nodes[m].sandbox
                              \/ nodes'[m].sandbox = Resolved(m)
  <2>1. ASSUME UNCHANGED <<nodes, engine, weakened>> PROVE Kept
    BY <2>1
  <2>2. CASE EngineTurns(n)
    BY <1>0, <2>2 DEF EngineTurns
  <2>3. CASE Beat(n)
    BY <2>1, <2>3 DEF Beat
  <2>4. ASSUME NEW s \in starts[n], SkipStart(n, s) \/ StartNow(n, s) \/ StartPulls(n, s)
        PROVE  Kept
    BY <2>1, <2>4 DEF SkipStart, StartNow, StartPulls, Looks
  <2>5. ASSUME NEW s \in pulls[n], Pulled(n, s) \/ PullFails(n, s) PROVE Kept
    BY <2>1, <2>5 DEF Pulled, PullFails
  <2>6. ASSUME NEW p \in procs[n], Exits(n, p) PROVE Kept
    BY <2>1, <2>6 DEF Exits
  <2>7. ASSUME NEW cut \in SUBSET Sha, HostRestarts(n, cut) PROVE Kept
    BY <1>0, <2>7 DEF HostRestarts, Registers
  <2> QED
    BY <2>2, <2>3, <2>4, <2>5, <2>6, <2>7 DEF HostStep
<1>2. ASSUME NEW m \in Node \ weakened'
      PROVE  /\ engine'[m] /\ nodes'[m].sandbox = Strength[m]
             /\ \A a, b : Fits(m, a, b) => Fits(m, a, b)'
  <2>1. engine[m] /\ nodes[m].sandbox = Strength[m]
    BY <1>1 DEF Fitting
  <2> QED
    BY <1>1, <2>1 DEF Resolved, Fits
<1>3. ASSUME NEW m \in Node \ weakened', NEW s \in Left(m)'
      PROVE  Fits(m, s.agent, s.bundle)
  <2>1. m \in Node \ weakened
    BY <1>1
  <2> QED
    BY <2>1, HostMoves DEF Fitting
<1> QED
  BY <1>0, <1>1, <1>2, <1>3 DEF Fitting

\* "The scheduler never hands us a bundle we can't contain" (node-host/host.js:321):
\* wherever agents are placed, moved and started, and however late a start is
\* worked off, untrusted code only runs on a node that is trusted and isolates it
\* as its owner asked, as long as the node keeps its trust and its engine.
THEOREM CodeIsContained == Spec => []Contained
<1>1. Init => Fitting
  BY DEF Init, Fitting, Left
<1>2. Typed /\ Fitting /\ [Next]_vars => Fitting'
  <2> SUFFICES ASSUME Typed, Fitting, [Next]_vars PROVE Fitting'
    OBVIOUS
  <2>1. CASE UNCHANGED vars
    BY <2>1 DEF vars, host, Fitting, Fits, Left
  <2> QED
    BY <2>1, ControlPlaneFitting, HostFitting DEF Next
<1>3. Fitting => Contained
  BY DEF Fitting, Fits, Contained, Left
<1> QED
  BY <1>1, <1>2, <1>3, TypedAlways, PTL DEF Spec
=============================================================================
