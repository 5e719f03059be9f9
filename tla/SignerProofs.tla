---------------------------- MODULE SignerProofs ----------------------------
(* Theorems about the signer, for every set of agents, every policy and every *)
(* bound. The inductive invariant is SignerInv of module Signer.              *)
EXTENDS Signer, TLAPS

\* Normalizing any policy a request carries yields a policy whose amounts are
\* non-negative and whose trade cap is within its day cap.
LEMMA NormalizePolicyType ==
    ASSUME NEW raw \in RawPolicy
    PROVE  NormalizePolicy(raw) \in PolicyType
  BY DEF NormalizePolicy, PolicyType, RawPolicy, AtLeast, Kind

\* So is the default.
LEMMA DefaultPolicyType == DefaultPolicy \in PolicyType
  BY DEF DefaultPolicy, PolicyType, Kind

\* The record of no agent is a record.
LEMMA NoRecordType == NoRecord \in Record
  BY DefaultPolicyType DEF NoRecord, Record, NoSession

\* An optional policy, when given, replaces one policy by another.
LEMMA IfGivenPolicy ==
    ASSUME NEW raw \in RawPolicies \cup {NotGiven}, NEW old \in PolicyType
    PROVE  IfGiven(raw, NormalizePolicy(raw), old) \in PolicyType
  BY SignerAssumption, NormalizePolicyType DEF IfGiven, SignerAssumption

\* An optional rule, when given, replaces one rule by another.
LEMMA IfGivenRule ==
    ASSUME NEW rule \in Rule \cup {NoRule, NotGiven},
           NEW old \in Rule \cup {NoRule}
    PROVE  IfGiven(rule, rule, old) \in Rule \cup {NoRule}
  BY SignerAssumption DEF IfGiven, SignerAssumption

\* The current day is one of the days of the clock.
LEMMA TodayType ==
    ASSUME now \in StartTime..MaxTime
    PROVE  Today \in Day /\ Today \in Nat
  BY SignerAssumption DEF SignerAssumption, Today, Day

\* The part of the invariant that failed writes do not disturb.
Typing == TypeOK /\ ReplyPending /\ OwnWallet

\* It holds when the signer starts.
LEMMA TypingInit == Init => Typing
<1> SUFFICES ASSUME Init PROVE Typing
  OBVIOUS
<1>0. /\ now \in StartTime..MaxTime
      /\ NoReply \in Reply
  BY SignerAssumption DEF Init, SignerAssumption, NoReply, Reply
<1>1. TypeOK
  <2>1. [a \in Agent |-> NoRecord] \in [Agent -> Record]
    BY NoRecordType
  <2>2. torn \in BOOLEAN
    BY DEF Init
  <2>3. [x \in Address |-> 0] \in [Address -> Nat]
    OBVIOUS
  <2>4. [p \in Address \X Day |-> 0] \in [Address \X Day -> Nat]
    OBVIOUS
  <2> QED
    BY <1>0, <2>1, <2>2, <2>3, <2>4, SignerAssumption
    DEF Init, TypeOK, SignerAssumption
<1>2. ReplyPending
  BY DEF Init, ReplyPending, NoReply
<1>3. OwnWallet
  BY DEF Init, OwnWallet, HasWallet, NoRecord, Address
<1> QED
  BY <1>1, <1>2, <1>3 DEF Typing

\* Replacing one record by another keeps the map's type.
LEMMA PutType ==
    ASSUME NEW a \in Agent, NEW r \in Record,
           agents \in [Agent -> Record], Put(a, r)
    PROVE  agents' \in [Agent -> Record]
  BY DEF Put

\* A handler that keeps the wallet's address keeps the wallets apart.
LEMMA PutSameWallet ==
    ASSUME NEW a \in Agent, NEW r, agents \in [Agent -> Record],
           r.address = agents[a].address, Put(a, r), OwnWallet,
           UNCHANGED <<agentsFile, minted>>
    PROVE  OwnWallet'
<1>1. \A b \in Agent : agents'[b].address = agents[b].address
  BY DEF Put
<1> QED
  BY <1>1 DEF OwnWallet, HasWallet

\* Every step of the signer preserves it.
LEMMA TypingStep == Typing /\ [Next]_vars => Typing'
<1> SUFFICES ASSUME Typing, [Next]_vars PROVE Typing'
  OBVIOUS
<1> USE DEF Typing
<1>0. agents \in [Agent -> Record] /\ \A b \in Agent : agents[b] \in Record
  BY DEF TypeOK
<1>1. ASSUME NEW a \in Agent, NEW raw \in RawPolicies \cup {NotGiven},
             NEW rule \in Rule \cup {NoRule, NotGiven},
             NEW o \in Owner \cup {NoOwner}, Provision(a, raw, rule, o)
      PROVE  Typing'
  <2> USE <1>1 DEF Provision, Serving, Exists, disk, told, SaveAndReply
  <2>1. reply' \in Reply
    BY DEF Reply
  <2>2. CASE ~Exists(a)
    <3> DEFINE r == NewRecord(minted + 1, raw, rule, o)
    <3>1. /\ minted < MaxAddress /\ minted' = minted + 1
          /\ Put(a, r) /\ keys' = [keys EXCEPT ![a] = minted + 1]
      BY <2>2
    <3>2. r \in Record
      BY TodayType, IfGivenPolicy, IfGivenRule, DefaultPolicyType
      DEF NewRecord, Record, NoSession, TypeOK
    <3>3. r.address = minted + 1
      BY DEF NewRecord
    <3>4. agents' \in [Agent -> Record]
      BY <1>0, <3>1, <3>2, PutType
    <3>5. TypeOK'
      <4>1. minted' \in 0..MaxAddress /\ minted + 1 \in Nat
        BY <3>1, SignerAssumption DEF TypeOK, SignerAssumption
      <4>2. keys' \in [Agent -> Nat]
        BY <3>1, <4>1 DEF TypeOK
      <4> QED
        BY <2>1, <3>4, <4>1, <4>2 DEF TypeOK
    <3>6. \A b \in Agent : agents'[b].address =
                            IF b = a THEN minted + 1 ELSE agents[b].address
      BY <1>0, <3>1, <3>3 DEF Put
    <3>7. ReplyPending'
      <4>1. agents'[a].address # 0
        BY <3>6, SignerAssumption DEF TypeOK, SignerAssumption
      <4> QED
        BY <4>1 DEF ReplyPending
    <3>8. \A b \in Agent : \A x : HasWallet(b, x)' =>
              \/ HasWallet(b, x)
              \/ b = a /\ x = minted + 1
      BY <3>6 DEF HasWallet
    <3>9. minted \in Nat /\ \A b \in Agent : ~HasWallet(b, minted + 1)
      BY <1>0, SignerAssumption
      DEF OwnWallet, HasWallet, TypeOK, Record, SignerAssumption
    <3>10. OwnWallet'
      <4>1. \A b \in Agent : /\ agents'[b].address <= minted'
                              /\ agentsFile'[b].address <= minted'
        <5>1. \A b \in Agent : /\ agents[b].address \in Nat
                                /\ agentsFile[b].address \in Nat
          BY DEF TypeOK, Record
        <5>2. \A b \in Agent : /\ agents[b].address <= minted
                                /\ agentsFile[b].address <= minted
          BY DEF OwnWallet
        <5>3. agentsFile' = agentsFile /\ minted' = minted + 1
          BY <3>1
        <5> QED
          BY <3>6, <3>9, <5>1, <5>2, <5>3
      <4>2. \A b, c \in Agent, x \in Address :
                HasWallet(b, x)' /\ HasWallet(c, x)' => b = c
        BY <3>8, <3>9 DEF OwnWallet
      <4> QED
        BY <4>1, <4>2 DEF OwnWallet
    <3> QED
      BY <3>5, <3>7, <3>10
  <2>3. CASE Exists(a)
    <3> DEFINE r == [agents[a] EXCEPT
                        !.policy = IfGiven(raw, NormalizePolicy(raw), @),
                        !.rule = IfGiven(rule, rule, @),
                        !.owner = IF o = NoOwner THEN @ ELSE o]
    <3>1. Put(a, r) /\ UNCHANGED <<keys, minted>>
      BY <2>3
    <3>2. /\ IfGiven(raw, NormalizePolicy(raw), agents[a].policy) \in PolicyType
          /\ IfGiven(rule, rule, agents[a].rule) \in Rule \cup {NoRule}
      BY <1>0, IfGivenPolicy, IfGivenRule DEF Record
    <3>3. r \in Record /\ r.address = agents[a].address
      BY <1>0, <3>2 DEF Record
    <3>4. agents' \in [Agent -> Record]
      BY <1>0, <3>1, <3>3, PutType
    <3>5. TypeOK'
      BY <2>1, <3>1, <3>4 DEF TypeOK
    <3>6. ReplyPending'
      <4>1. agents'[a].address # 0
        BY <1>0, <2>3, <3>1, <3>3 DEF Put
      <4> QED
        BY <4>1 DEF ReplyPending
    <3>7. OwnWallet'
      BY <1>0, <3>1, <3>3, PutSameWallet
    <3> QED
      BY <3>5, <3>6, <3>7
  <2> QED
    BY <2>2, <2>3
<1>2. ASSUME NEW a \in Agent, NEW raw \in RawPolicies \cup {NotGiven},
             NEW rule \in Rule \cup {NoRule, NotGiven}, SetPolicy(a, raw, rule)
      PROVE  Typing'
  <2> USE <1>2 DEF SetPolicy, Serving, disk, told, counted, SaveAndReply
  <2> DEFINE r == [agents[a] EXCEPT
                      !.policy = IfGiven(raw, NormalizePolicy(raw), DefaultPolicy),
                      !.rule = IfGiven(rule, rule, @)]
  <2>1. /\ IfGiven(raw, NormalizePolicy(raw), DefaultPolicy) \in PolicyType
        /\ IfGiven(rule, rule, agents[a].rule) \in Rule \cup {NoRule}
    BY <1>0, IfGivenPolicy, IfGivenRule, DefaultPolicyType DEF Record
  <2>2. r \in Record /\ r.address = agents[a].address
    BY <1>0, <2>1 DEF Record
  <2>3. Put(a, r)
    OBVIOUS
  <2>4. agents' \in [Agent -> Record]
    BY <1>0, <2>2, <2>3, PutType
  <2>5. TypeOK'
    BY <2>4 DEF TypeOK, Reply
  <2>6. ReplyPending'
    BY DEF ReplyPending
  <2>7. OwnWallet'
    BY <1>0, <2>2, <2>3, PutSameWallet
  <2> QED
    BY <2>5, <2>6, <2>7
<1>3. ASSUME NEW a \in Agent, NEW o \in Owner, SetOwner(a, o)
      PROVE  Typing'
  <2> USE <1>3 DEF SetOwner, Serving, disk, told, counted, SaveAndReply
  <2> DEFINE r == [agents[a] EXCEPT !.owner = o]
  <2>1. r \in Record /\ r.address = agents[a].address
    BY <1>0 DEF Record
  <2>2. Put(a, r)
    OBVIOUS
  <2>3. agents' \in [Agent -> Record]
    BY <1>0, <2>1, <2>2, PutType
  <2>4. TypeOK'
    BY <2>3 DEF TypeOK, Reply
  <2>5. ReplyPending'
    BY DEF ReplyPending
  <2>6. OwnWallet'
    BY <1>0, <2>1, <2>2, PutSameWallet
  <2> QED
    BY <2>4, <2>5, <2>6
<1>4. ASSUME NEW a \in Agent, OpenSession(a)
      PROVE  Typing'
  <2> USE <1>4 DEF OpenSession, Serving, disk, told, SaveAndReply
  <2> DEFINE r == [agents[a] EXCEPT !.session = NextSession(agents[a])]
  <2>1. issued \in Nat /\ issued + 1 \in 0..MaxToken
    BY SignerAssumption DEF TypeOK, SignerAssumption
  <2>2. NextSession(agents[a]) \in [epoch : Nat, token : Nat]
    BY <1>0, <2>1 DEF NextSession, Record
  <2>3. /\ r \in Record /\ r.address = agents[a].address
        /\ r.session.token = issued + 1
    BY <1>0, <2>2 DEF Record, NextSession
  <2>4. Put(a, r)
    OBVIOUS
  <2>5. agents' \in [Agent -> Record] /\ agents'[a] = r
    BY <1>0, <2>3, <2>4, PutType DEF Put
  <2>6. TypeOK'
    BY <2>1, <2>5 DEF TypeOK, Reply
  <2>7. ReplyPending'
    <3>1. /\ saving' = "agents" /\ reply'.what = "session"
          /\ reply'.agent = a /\ reply'.token = issued + 1
      OBVIOUS
    <3>2. /\ agents'[reply'.agent].session.token = reply'.token
          /\ agents'[reply'.agent].address # 0
      BY <2>3, <2>5, <3>1 DEF Exists
    <3> HIDE <1>4
    <3> QED
      BY <2>1, <3>1, <3>2 DEF ReplyPending, Exists
  <2>8. OwnWallet'
    BY <1>0, <2>3, <2>4, PutSameWallet
  <2> QED
    BY <2>6, <2>7, <2>8
<1>5. ASSUME NEW a \in Agent, Destroy(a)
      PROVE  Typing'
  <2> USE <1>5 DEF Destroy, Serving, disk, counted, SaveAndReply
  <2>1. agents' \in [Agent -> Record]
    BY <1>0, NoRecordType, PutType
  <2>2. TypeOK'
    BY <2>1 DEF TypeOK, Reply
  <2>3. ReplyPending'
    BY DEF ReplyPending
  <2>4. \A b \in Agent : agents'[b].address =
                          IF b = a THEN 0 ELSE agents[b].address
    BY <1>0 DEF Put, NoRecord
  <2>5. \A b \in Agent, x \in Address : HasWallet(b, x)' => HasWallet(b, x)
    BY <2>4 DEF HasWallet, Address
  <2>6. OwnWallet'
    BY <2>4, <2>5 DEF OwnWallet, TypeOK
  <2> QED
    BY <2>2, <2>3, <2>6
<1>6. ASSUME NEW g \in granted, NEW i \in Intents, PaperTrade(g.agent, g, i)
      PROVE  Typing'
  <2> DEFINE a == g.agent
             r == [agents[a] EXCEPT !.day = Today,
                                    !.spent = SpentToday(agents[a]) + i.size,
                                    !.lastTrade = now]
  <2> USE <1>6 DEF PaperTrade, Serving, Exists, disk, told, counted, SaveAndReply
  <2>1. a \in Agent /\ g.token \in Nat /\ g.epoch \in Nat
    BY DEF TypeOK
  <2>2. i.size \in Nat
    BY SignerAssumption DEF WithinCaps, SignerAssumption, Intent
  <2>3. SpentToday(agents[a]) \in Nat
    BY <1>0, <2>1 DEF SpentToday, Record
  <2>4. now \in Nat /\ Today \in Nat
    BY TodayType, SignerAssumption DEF TypeOK, SignerAssumption
  <2>5. /\ r \in Record /\ r.address = agents[a].address
        /\ r.session = agents[a].session
    <3>1. SpentToday(agents[a]) + i.size \in Nat
      BY <2>2, <2>3
    <3>2. agents[a] \in Record
      BY <1>0, <2>1
    <3> HIDE <1>6
    <3> QED
      BY <2>4, <3>1, <3>2 DEF Record
  <2>6. Put(a, r)
    OBVIOUS
  <2>7. agents' \in [Agent -> Record] /\ agents'[a] = r
    BY <1>0, <2>1, <2>5, <2>6, PutType DEF Put
  <2>8. TypeOK'
    BY <2>1, <2>2, <2>7 DEF TypeOK, Reply
  <2>9. g.token > 0
    BY <2>1 DEF TypeOK
  <2>10. ReplyPending'
    BY <2>1, <2>5, <2>7, <2>9 DEF ReplyPending, Admitted, HoldsSession
  <2>11. OwnWallet'
    BY <1>0, <2>1, <2>5, <2>6, PutSameWallet
  <2> QED
    BY <2>8, <2>10, <2>11
<1>7. ASSUME NEW g \in granted, NEW i \in Intents, RefusedTrade(g.agent, g, i)
      PROVE  Typing'
  <2> DEFINE a == g.agent
             r == [agents[a] EXCEPT !.day = Today, !.spent = 0]
  <2> USE <1>7 DEF RefusedTrade, Serving, disk, told, counted
  <2>1. a \in Agent /\ Today \in Nat
    BY TodayType DEF TypeOK
  <2>2. r \in Record /\ r.address = agents[a].address
    BY <1>0, <2>1 DEF Record
  <2>3. Put(a, r)
    OBVIOUS
  <2>4. agents' \in [Agent -> Record]
    BY <1>0, <2>1, <2>2, <2>3, PutType
  <2>5. TypeOK'
    BY <2>4 DEF TypeOK
  <2>6. ReplyPending'
    BY DEF ReplyPending
  <2>7. OwnWallet'
    BY <1>0, <2>1, <2>2, <2>3, PutSameWallet
  <2> QED
    BY <2>5, <2>6, <2>7
<1>8. CASE WriteAgents
  BY <1>8
  DEF WriteAgents, memory, told, counted, TypeOK, ReplyPending, Exists, OwnWallet,
      HasWallet
<1>9. ASSUME Answer, UNCHANGED <<now, agents, keys, agentsFile, minted, issued, crashes, torn>>,
             saving # "idle", saving' = "idle",
             keysFile' = keys \/ keysFile' = keysFile,
             diskErrors' \in 0..MaxDiskError
      PROVE  Typing'
  <2> USE <1>9 DEF Answer
  <2>1. reply.agent \in Agent
    BY DEF ReplyPending
  <2>2. NoReply \in Reply
    BY DEF NoReply, Reply
  <2>3. wallets' \subseteq [agent : Agent, address : Nat]
    BY <2>1 DEF TypeOK, Record
  <2>4. granted' \subseteq
            [agent : Agent, address : Nat, epoch : Nat, token : Nat \ {0}]
    <3>1. agents[reply.agent] \in Record
      BY <1>0, <2>1
    <3>2. reply.what = "session" => agents[reply.agent].session.token \in Nat \ {0}
      BY <3>1 DEF ReplyPending, Record
    <3> QED
      BY <2>1, <3>1, <3>2 DEF TypeOK, Record
  <2>5. signed' \in [Address \X Day -> Nat]
    <3> DEFINE k == <<agents[reply.agent].address, agents[reply.agent].day>>
    <3>1. CASE reply.what = "trade"
      <4>1. signed' = [signed EXCEPT ![k] = signed[k] + reply.value]
        BY <3>1
      <4>2. signed \in [Address \X Day -> Nat] /\ reply.value \in Nat
        BY DEF TypeOK, Reply
      <4>3. k \in Address \X Day => signed[k] + reply.value \in Nat
        BY <4>2
      <4> HIDE DEF k
      <4> QED
        BY <4>1, <4>2, <4>3
    <3>2. CASE reply.what # "trade"
      BY <3>2 DEF TypeOK
    <3> QED
      BY <3>1, <3>2
  <2>6. lastSigned' \in [Address -> Nat]
    BY <2>1 DEF TypeOK, Record
  <2>7. TypeOK'
    BY <2>2, <2>3, <2>4, <2>5, <2>6 DEF TypeOK
  <2>8. ReplyPending'
    BY DEF ReplyPending, NoReply
  <2>9. OwnWallet'
    BY DEF OwnWallet, HasWallet
  <2> QED
    BY <2>7, <2>8, <2>9
<1>10. CASE WriteKeys
  BY <1>9, <1>10 DEF WriteKeys, memory, counted, TypeOK
<1>11. CASE PersistFails
  <2>1. diskErrors' \in 0..MaxDiskError
    BY <1>11, SignerAssumption DEF PersistFails, TypeOK, SignerAssumption
  <2> QED
    BY <1>9, <1>11, <2>1 DEF PersistFails, memory, disk
<1>12. CASE Crash
  <2> USE <1>12 DEF Crash, disk, told
  <2>1. TypeOK'
    BY SignerAssumption DEF TypeOK, NoReply, Reply, SignerAssumption
  <2>2. ReplyPending'
    BY DEF ReplyPending, NoReply
  <2>3. OwnWallet'
    BY DEF OwnWallet, HasWallet
  <2> QED
    BY <2>1, <2>2, <2>3
<1>13. CASE Tick
  BY <1>13, SignerAssumption
  DEF Tick, memory, disk, told, counted, TypeOK, ReplyPending, Exists, OwnWallet,
      HasWallet, SignerAssumption
<1>14. CASE UNCHANGED vars
  BY <1>14 DEF vars, TypeOK, ReplyPending, Exists, OwnWallet,
      HasWallet
<1> QED
  BY <1>1, <1>2, <1>3, <1>4, <1>5, <1>6, <1>7, <1>8, <1>10, <1>11, <1>12,
     <1>13, <1>14 DEF Next

\* The signer's state always has its declared shape, whatever crashes and
\* whichever writes fail.
THEOREM TypeCorrect == Spec => []TypeOK
<1>1. Init => Typing
  BY TypingInit
<1>2. Typing /\ [Next]_vars => Typing'
  BY TypingStep
<1>3. Typing => TypeOK
  BY DEF Typing
<1> QED
  BY <1>1, <1>2, <1>3, PTL DEF Spec

-----------------------------------------------------------------------------
\* A handler that leaves an agent's session alone, or resets it to none,
\* supersedes nobody.
LEMMA PutFence ==
    ASSUME NEW a \in Agent, NEW r, agents \in [Agent -> Record],
           r.session.token = 0 \/ r.session.token = agents[a].session.token,
           Put(a, r), FenceInv, issued \in Nat,
           \A g \in granted : g.agent \in Agent,
           UNCHANGED <<agentsFile, issued, granted, crashes, diskErrors>>
    PROVE  FenceInv'
<1>1. \A b \in Agent : \/ agents'[b].session.token = 0
                        \/ agents'[b].session.token = agents[b].session.token
  BY DEF Put
<1> QED
  BY <1>1 DEF FenceInv, NotSuperseded, SavesHeld

\* The session a pending reply hands out, if that is what it does.
Handed ==
    [agent |-> reply.agent, address |-> agents[reply.agent].address,
     epoch |-> agents[reply.agent].session.epoch,
     token |-> agents[reply.agent].session.token]

\* It is the one on record.
LEMMA HandedFits ==
    ASSUME Typing, FenceInv, saving # "idle"
    PROVE  Handed.token <= issued /\ NotSuperseded(agents[Handed.agent], Handed)
<1>1. reply.agent \in Agent
  BY DEF Typing, ReplyPending
<1>2. agents[reply.agent].session.token \in Nat
  BY <1>1 DEF Typing, TypeOK, Record
<1> QED
  BY <1>1, <1>2 DEF Handed, FenceInv, NotSuperseded

\* No step leaves a superseded session in a record, in memory as long as no
\* restart meets a failed save, in agents.json as long as no save failed.
LEMMA FenceStep ==
    ASSUME Typing, FenceInv, [Next]_vars
    PROVE  FenceInv'
<1> USE DEF Typing
<1>0. /\ agents \in [Agent -> Record] /\ \A b \in Agent : agents[b] \in Record
      /\ issued \in Nat /\ \A g \in granted : g.agent \in Agent /\ g.token \in Nat
  BY SignerAssumption DEF TypeOK, SignerAssumption
<1>1. ASSUME NEW a \in Agent, NEW raw \in RawPolicies \cup {NotGiven},
             NEW rule \in Rule \cup {NoRule, NotGiven},
             NEW o \in Owner \cup {NoOwner}, Provision(a, raw, rule, o)
      PROVE  FenceInv'
  <2>1. UNCHANGED <<agentsFile, issued, granted, crashes, diskErrors>>
    BY <1>1 DEF Provision, disk, told
  <2>2. CASE ~Exists(a)
    <3>1. Put(a, NewRecord(minted + 1, raw, rule, o))
      BY <1>1, <2>2 DEF Provision
    <3>2. NewRecord(minted + 1, raw, rule, o).session.token = 0
      BY DEF NewRecord, NoSession
    <3> QED
      BY <1>0, <2>1, <3>1, <3>2, PutFence
  <2>3. CASE Exists(a)
    <3> DEFINE r == [agents[a] EXCEPT
                        !.policy = IfGiven(raw, NormalizePolicy(raw), @),
                        !.rule = IfGiven(rule, rule, @),
                        !.owner = IF o = NoOwner THEN @ ELSE o]
    <3>1. Put(a, r)
      BY <1>1, <2>3 DEF Provision
    <3>2. r.session = agents[a].session
      BY <1>0 DEF Record
    <3> HIDE DEF r
    <3> QED
      BY <1>0, <2>1, <3>1, <3>2, PutFence
  <2> QED
    BY <2>2, <2>3
<1>2. ASSUME NEW a \in Agent, NEW raw \in RawPolicies \cup {NotGiven},
             NEW rule \in Rule \cup {NoRule, NotGiven}, SetPolicy(a, raw, rule)
      PROVE  FenceInv'
  <2> DEFINE r == [agents[a] EXCEPT
                      !.policy = IfGiven(raw, NormalizePolicy(raw), DefaultPolicy),
                      !.rule = IfGiven(rule, rule, @)]
  <2>1. Put(a, r) /\ UNCHANGED <<agentsFile, issued, granted, crashes, diskErrors>>
    BY <1>2 DEF SetPolicy, disk, told, counted
  <2>2. r.session = agents[a].session
    BY <1>0 DEF Record
  <2> HIDE DEF r
  <2> QED
    BY <1>0, <2>1, <2>2, PutFence
<1>3. ASSUME NEW a \in Agent, NEW o \in Owner, SetOwner(a, o)
      PROVE  FenceInv'
  <2>1. /\ Put(a, [agents[a] EXCEPT !.owner = o])
        /\ UNCHANGED <<agentsFile, issued, granted, crashes, diskErrors>>
    BY <1>3 DEF SetOwner, disk, told, counted
  <2>2. [agents[a] EXCEPT !.owner = o].session = agents[a].session
    BY <1>0 DEF Record
  <2> QED
    BY <1>0, <2>1, <2>2, PutFence
<1>4. ASSUME NEW a \in Agent, OpenSession(a)
      PROVE  FenceInv'
  <2> DEFINE r == [agents[a] EXCEPT !.session = NextSession(agents[a])]
  <2>1. Put(a, r) /\ issued' = issued + 1 /\ UNCHANGED <<agentsFile, granted, crashes, diskErrors>>
    BY <1>4 DEF OpenSession, disk, told
  <2>2. r.session.token = issued + 1
    BY <1>0 DEF Record, NextSession
  <2> HIDE DEF r
  <2>3. \A b \in Agent : agents'[b].session.token =
                          IF b = a THEN issued + 1 ELSE agents[b].session.token
    BY <1>0, <2>1, <2>2 DEF Put
  <2>4. \A b \in Agent : /\ agents[b].session.token \in Nat
                          /\ agentsFile[b].session.token \in Nat
    BY DEF TypeOK, Record
  <2> QED
    BY <1>0, <2>1, <2>3, <2>4 DEF FenceInv, NotSuperseded, SavesHeld
<1>5. ASSUME NEW a \in Agent, Destroy(a)
      PROVE  FenceInv'
  <2>1. Put(a, NoRecord) /\ UNCHANGED <<agentsFile, issued, granted, crashes, diskErrors>>
    BY <1>5 DEF Destroy, disk, counted
  <2> QED
    BY <1>0, <2>1, PutFence DEF NoRecord, NoSession
<1>6. ASSUME NEW g \in granted, NEW i \in Intents, PaperTrade(g.agent, g, i)
      PROVE  FenceInv'
  <2> DEFINE r == [agents[g.agent] EXCEPT
                      !.day = Today,
                      !.spent = SpentToday(agents[g.agent]) + i.size,
                      !.lastTrade = now]
  <2>1. Put(g.agent, r) /\ UNCHANGED <<agentsFile, issued, granted, crashes, diskErrors>>
    BY <1>6 DEF PaperTrade, disk, told, counted
  <2>2. r.session = agents[g.agent].session
    BY <1>0 DEF Record
  <2> HIDE DEF r
  <2> QED
    BY <1>0, <2>1, <2>2, PutFence
<1>7. ASSUME NEW g \in granted, NEW i \in Intents, RefusedTrade(g.agent, g, i)
      PROVE  FenceInv'
  <2> DEFINE r == [agents[g.agent] EXCEPT !.day = Today, !.spent = 0]
  <2>1. Put(g.agent, r) /\ UNCHANGED <<agentsFile, issued, granted, crashes, diskErrors>>
    BY <1>7 DEF RefusedTrade, disk, told, counted
  <2>2. r.session = agents[g.agent].session
    BY <1>0 DEF Record
  <2> HIDE DEF r
  <2> QED
    BY <1>0, <2>1, <2>2, PutFence
<1>8. CASE WriteAgents
  BY <1>8 DEF WriteAgents, memory, told, counted, FenceInv, NotSuperseded, SavesHeld
<1>9. CASE WriteKeys
  <2>1. /\ agentsFile = agents
        /\ UNCHANGED <<agents, agentsFile, issued, crashes, diskErrors>>
    BY <1>9 DEF WriteKeys, memory, counted, ReplyPending
  <2>2. granted' \subseteq granted \cup {Handed}
    BY <1>9 DEF WriteKeys, Answer, Handed
  <2>3. Handed.token <= issued /\ NotSuperseded(agents[Handed.agent], Handed)
    BY <1>9, HandedFits DEF WriteKeys
  <2> QED
    BY <2>1, <2>2, <2>3 DEF FenceInv, NotSuperseded, SavesHeld
<1>10. CASE PersistFails
  <2>1. /\ UNCHANGED <<agents, agentsFile, issued, crashes>>
        /\ diskErrors' = diskErrors + 1
    BY <1>10 DEF PersistFails, memory, disk
  <2>2. granted' \subseteq granted \cup {Handed}
    BY <1>10 DEF PersistFails, Answer, Handed
  <2>3. Handed.token <= issued /\ NotSuperseded(agents[Handed.agent], Handed)
    BY <1>10, HandedFits DEF PersistFails
  <2>4. diskErrors' # 0 /\ (SavesHeld' => SavesHeld)
    BY <2>1 DEF TypeOK, SavesHeld
  <2> QED
    BY <2>1, <2>2, <2>3, <2>4 DEF FenceInv, NotSuperseded
<1>11. CASE Crash
  <2>1. /\ agents' = agentsFile /\ crashes' = crashes + 1
        /\ UNCHANGED <<agentsFile, issued, granted, diskErrors>>
    BY <1>11 DEF Crash, disk, told
  <2>2. SavesHeld' => diskErrors = 0
    BY <2>1 DEF TypeOK, SavesHeld
  <2> QED
    BY <2>1, <2>2 DEF FenceInv, NotSuperseded
<1>12. CASE Tick
  BY <1>12 DEF Tick, memory, disk, told, counted, FenceInv, NotSuperseded, SavesHeld
<1>13. CASE UNCHANGED vars
  BY <1>13 DEF vars, FenceInv, NotSuperseded, SavesHeld
<1> QED
  BY <1>1, <1>2, <1>3, <1>4, <1>5, <1>6, <1>7, <1>8, <1>9, <1>10, <1>11,
     <1>12, <1>13 DEF Next

\* A signature leaves with a reply, whether the save succeeded or not.
LEMMA SignedWhenAnswered ==
    ASSUME [Next]_vars, signed' # signed
    PROVE  saving # "idle" /\ Answer
<1>1. WriteKeys \/ PersistFails
  BY DEF Next, vars, Provision, SetPolicy, SetOwner, OpenSession, Destroy,
     PaperTrade, RefusedTrade, WriteAgents, Crash, Tick, told
<1> QED
  BY <1>1 DEF WriteKeys, PersistFails

\* It leaves for the newest session: if the pending trade's session were
\* superseded, the record in memory would hold a newer one.
LEMMA FenceAction ==
    ASSUME Typing, FenceInv, [Next]_vars, SavesHeld, signed' # signed
    PROVE  \A g \in granted : g.agent = reply.agent => g.token <= reply.token
<1> USE DEF Typing
<1>1. reply.what = "trade"
  BY SignedWhenAnswered DEF Answer
<1>2. /\ agents[reply.agent].session.token = reply.token
      /\ reply.token > 0
  BY <1>1 DEF ReplyPending
<1> QED
  BY <1>2 DEF FenceInv, NotSuperseded, TypeOK

\* The fence holds for every set of agents and any number of sessions, crashes,
\* failed saves and re-provisioned wallets, as long as no restart meets a
\* failed save.
THEOREM FenceHolds == Spec => NewestHolderTrades
<1>1. Init => FenceInv
  BY SignerAssumption
  DEF Init, FenceInv, NoRecord, NoSession, SignerAssumption
<1>2. Typing /\ FenceInv /\ [Next]_vars => FenceInv'
  BY FenceStep
<1>3. Typing /\ FenceInv /\ [Next]_vars =>
        [SavesHeld /\ signed' # signed =>
            \A g \in granted : g.agent = reply.agent => g.token <= reply.token]_vars
  BY FenceAction
<1> QED
  BY <1>1, <1>2, <1>3, TypingInit, TypingStep, PTL DEF Spec, NewestHolderTrades

-----------------------------------------------------------------------------
\* A handler that leaves a wallet's day account alone keeps the budget.
LEMMA PutBudget ==
    ASSUME NEW a \in Agent, NEW r, agents \in [Agent -> Record],
           r.address = agents[a].address, r.day = agents[a].day,
           r.spent = agents[a].spent,
           Put(a, r), BudgetInv, reply'.what # "trade",
           UNCHANGED <<now, agentsFile, signed, minted, crashes, diskErrors>>
    PROVE  BudgetInv'
<1>1. \A b \in Agent : /\ agents'[b].address = agents[b].address
                        /\ agents'[b].day = agents[b].day
                        /\ agents'[b].spent = agents[b].spent
  BY DEF Put
<1> QED
  BY <1>1 DEF BudgetInv, UnusedWallets, Accounts, Today, SavesHeld

\* An existing agent's wallet is one of those generated.
LEMMA WalletAddress ==
    ASSUME NEW a \in Agent, TypeOK, OwnWallet, agents[a].address # 0
    PROVE  agents[a].address \in Address /\ agents[a].address <= minted
<1>1. agents[a].address \in Nat /\ agents[a].address <= minted
  BY DEF TypeOK, Record, OwnWallet
<1> QED
  BY <1>1, SignerAssumption DEF TypeOK, Address, SignerAssumption

\* Replacing a record by one that accounts for its wallet keeps all accounts.
LEMMA AccountsKept ==
    ASSUME BudgetInv, NEW a \in Agent, NEW r, SavesHeld => Accounts(r),
           UNCHANGED <<now, agentsFile, signed, crashes, diskErrors>>,
           \A b \in Agent : agents'[b] = IF b = a THEN r ELSE agents[b]
    PROVE  /\ SavesHeld' => \A b \in Agent : Accounts(agents[b])'
           /\ diskErrors' = 0 => \A b \in Agent : Accounts(agentsFile[b])'
<1>0. Today' = Today /\ SavesHeld' = SavesHeld
  BY DEF Today, SavesHeld
<1>1. ASSUME NEW b \in Agent, SavesHeld
      PROVE  Accounts(agents[b])'
  <2>1. Accounts(agents[b])
    BY <1>1 DEF BudgetInv
  <2>2. agents'[b] = r \/ agents'[b] = agents[b]
    OBVIOUS
  <2> QED
    BY <1>0, <1>1, <2>1, <2>2 DEF Accounts
<1>2. ASSUME NEW b \in Agent, diskErrors = 0
      PROVE  Accounts(agentsFile[b])'
  BY <1>0, <1>2 DEF BudgetInv, Accounts
<1> QED
  BY <1>0, <1>1, <1>2

\* A wallet none of whose signatures is on the current day or later starts the
\* day with nothing signed.
LEMMA SpentTodayCovers ==
    ASSUME NEW a \in Agent, TypeOK, Accounts(agents[a]), Exists(a)
    PROVE  /\ SpentToday(agents[a]) \in Nat
           /\ signed[<<agents[a].address, Today>>] <= SpentToday(agents[a])
           /\ \A d \in Day : d > Today => signed[<<agents[a].address, d>>] = 0
<1>1. Today \in Day /\ Today \in Nat /\ agents[a] \in Record
  BY TodayType DEF TypeOK
<1>2. agents[a].day \in Nat /\ agents[a].spent \in Nat
  BY <1>1 DEF Record
<1>3. CASE agents[a].day = Today
  BY <1>1, <1>2, <1>3 DEF SpentToday, Accounts, Exists
<1>4. CASE agents[a].day # Today
  <2>1. agents[a].day < Today
    BY <1>1, <1>2, <1>4 DEF Accounts, Exists
  <2>2. \A d \in Day : d \in Nat
    BY SignerAssumption DEF Day, SignerAssumption
  <2> QED
    BY <1>1, <1>2, <1>4, <2>1, <2>2 DEF SpentToday, Accounts, Exists
<1> QED
  BY <1>3, <1>4

\* Once a restart has met a failed save, nothing is promised any more.
LEMMA SavesHeldBefore ==
    ASSUME TypeOK, [Next]_vars, SavesHeld'
    PROVE  SavesHeld
<1>1. \/ UNCHANGED <<crashes, diskErrors>>
      \/ diskErrors' = diskErrors + 1 /\ crashes' = crashes
      \/ crashes' = crashes + 1 /\ diskErrors' = diskErrors
  BY DEF Next, vars, Provision, SetPolicy, SetOwner, OpenSession, Destroy,
     PaperTrade, RefusedTrade, WriteAgents, WriteKeys, PersistFails, Crash, Tick,
     counted
<1> QED
  BY <1>1 DEF TypeOK, SavesHeld

\* A wallet that is signed for has been generated.
LEMMA UnusedStep ==
    ASSUME Typing, UnusedWallets, [Next]_vars
    PROVE  UnusedWallets'
<1> USE DEF Typing
<1>1. minted \in Nat /\ (minted' = minted \/ minted' = minted + 1)
  <2>1. minted' = minted \/ minted' = minted + 1
    BY DEF Next, vars, Provision, SetPolicy, SetOwner, OpenSession, Destroy,
       PaperTrade, RefusedTrade, WriteAgents, WriteKeys, PersistFails, Crash,
       Tick, counted
  <2> QED
    BY <2>1, SignerAssumption DEF TypeOK, SignerAssumption
<1>2. CASE signed' = signed
  BY <1>1, <1>2 DEF UnusedWallets, Address
<1>3. CASE signed' # signed
  <2> DEFINE x == agents[reply.agent].address
  <2>1. /\ reply.what = "trade" /\ reply.agent \in Agent
        /\ signed' = [signed EXCEPT ![<<x, agents[reply.agent].day>>] =
                                        @ + reply.value]
    BY <1>3, SignedWhenAnswered DEF Answer, ReplyPending
  <2>2. x <= minted /\ x \in Nat
    BY <2>1 DEF OwnWallet, TypeOK, Record
  <2> HIDE DEF x
  <2>3. \A y \in Address, d \in Day : y # x => signed'[<<y, d>>] = signed[<<y, d>>]
    BY <2>1 DEF TypeOK
  <2> QED
    BY <1>1, <2>2, <2>3 DEF UnusedWallets, Address
<1> QED
  BY <1>2, <1>3

\* A reply that leaves keeps the accounts: a signature's value was charged to
\* its wallet's record, and no other record is of that wallet.
LEMMA AnswerAccounts ==
    ASSUME Typing, BudgetInv, SavesHeld, saving # "idle", Answer,
           UNCHANGED <<now, agents>>
    PROVE  \A b \in Agent : Accounts(agents[b])'
<1> USE DEF Typing
<1>0. /\ \A d \in Day : d \in Nat
      /\ \A b \in Agent : agents[b] \in Record /\ Accounts(agents[b])
  BY SignerAssumption DEF TypeOK, SignerAssumption, Day, BudgetInv
<1>a. CASE reply.what # "trade"
  <2>1. signed' = signed
    BY <1>a DEF Answer
  <2> QED
    BY <1>0, <2>1 DEF Accounts, Today
<1>b. CASE reply.what = "trade"
  <2> DEFINE r == agents[reply.agent]
             k == <<r.address, r.day>>
  <2>1. /\ reply.agent \in Agent /\ r \in Record /\ r.address # 0
        /\ reply.value \in Nat
    BY <1>0, <1>b DEF ReplyPending, Exists, TypeOK, Reply
  <2>2. /\ signed' = [signed EXCEPT ![k] = signed[k] + reply.value]
        /\ signed \in [Address \X Day -> Nat]
    BY <1>b DEF Answer, TypeOK
  <2>3. /\ r.address \in Address /\ r.day \in Day
        /\ Accounts(r)
    BY <1>0, <2>1, WalletAddress DEF Accounts
  <2>4. signed[k] + reply.value <= r.spent
    BY <1>b DEF BudgetInv
  <2>5. \A x \in Address, d \in Day :
            signed'[<<x, d>>] = IF x = r.address /\ d = r.day
                                THEN signed[<<x, d>>] + reply.value
                                ELSE signed[<<x, d>>]
    BY <2>2, <2>3
  <2> HIDE DEF r, k
  <2> SUFFICES ASSUME NEW b \in Agent, agents[b].address # 0
               PROVE  Accounts(agents[b])'
    BY DEF Accounts
  <2>6. /\ agents[b].address \in Address /\ agents[b].day \in Day
        /\ Accounts(agents[b])
    BY <1>0, WalletAddress DEF Accounts
  <2>7. CASE b = reply.agent
    <3>1. agents[b] = r
      BY <2>7 DEF r
    <3>2. signed'[<<r.address, r.day>>] <= r.spent
      BY <2>3, <2>4, <2>5 DEF k
    <3>3. \A d \in Day : d > r.day => signed'[<<r.address, d>>] = 0
      <4> SUFFICES ASSUME NEW d \in Day, d > r.day
                   PROVE  signed'[<<r.address, d>>] = 0
        OBVIOUS
      <4>1. r.day \in Nat /\ d \in Nat
        BY <1>0, <2>3
      <4>2. d # r.day
        BY <4>1
      <4> QED
        BY <2>1, <2>3, <2>5, <4>2 DEF Accounts
    <3> QED
      BY <2>6, <3>1, <3>2, <3>3 DEF Accounts, Today
  <2>8. CASE b # reply.agent
    <3>1. agents[b].address # r.address
      BY <2>1, <2>3, <2>6, <2>8 DEF OwnWallet, HasWallet, r
    <3>2. \A d \in Day : signed'[<<agents[b].address, d>>] =
                         signed[<<agents[b].address, d>>]
      BY <2>5, <2>6, <3>1
    <3> QED
      BY <2>6, <3>2 DEF Accounts, Today
  <2> QED
    BY <2>7, <2>8
<1> QED
  BY <1>a, <1>b

\* Every record keeps accounting for all that was signed for its wallet, in
\* memory as long as no restart meets a failed save, in agents.json as long as
\* no save failed.
LEMMA BudgetStep ==
    ASSUME Typing, BudgetInv, [Next]_vars
    PROVE  BudgetInv'
<1> USE DEF Typing
<1> SUFFICES ASSUME SavesHeld'
             PROVE  BudgetInv'
  BY UnusedStep DEF BudgetInv, SavesHeld
<1>a. SavesHeld /\ UnusedWallets'
  BY UnusedStep, SavesHeldBefore DEF BudgetInv
<1>0. /\ agents \in [Agent -> Record]
      /\ \A b \in Agent : agents[b] \in Record /\ agentsFile[b] \in Record
      /\ Today \in Day /\ Today \in Nat /\ minted \in Nat
      /\ \A d \in Day : d \in Nat
      /\ \A g \in granted : g.agent \in Agent
  BY TodayType, SignerAssumption DEF TypeOK, SignerAssumption, Day
<1>1. ASSUME NEW a \in Agent, NEW raw \in RawPolicies \cup {NotGiven},
             NEW rule \in Rule \cup {NoRule, NotGiven},
             NEW o \in Owner \cup {NoOwner}, Provision(a, raw, rule, o)
      PROVE  BudgetInv'
  <2>1. UNCHANGED <<now, agentsFile, signed, crashes, diskErrors>> /\ reply'.what # "trade"
    BY <1>1 DEF Provision, disk, told, SaveAndReply
  <2>2. CASE ~Exists(a)
    <3> DEFINE r == NewRecord(minted + 1, raw, rule, o)
    <3>1. Put(a, r) /\ minted' = minted + 1 /\ minted + 1 \in Address
      BY <1>0, <1>1, <2>2, SignerAssumption DEF Provision, Address, SignerAssumption
    <3>2. /\ r.address = minted + 1 /\ r.day = Today /\ r.spent = 0
      BY DEF NewRecord
    <3>3. \A d \in Day : signed[<<minted + 1, d>>] = 0
      BY <1>0, <3>1 DEF BudgetInv, UnusedWallets
    <3> HIDE DEF r
    <3>4. Accounts(r)
      <4>1. r.day \in Day /\ r.day <= Today
        BY <1>0, <3>2
      <4>2. \A d \in Day : signed[<<r.address, d>>] = 0
        BY <3>2, <3>3
      <4>3. signed[<<r.address, r.day>>] <= r.spent
        BY <3>2, <4>1, <4>2
      <4> QED
        BY <4>1, <4>2, <4>3 DEF Accounts
    <3>5. \A b \in Agent : agents'[b] = IF b = a THEN r ELSE agents[b]
      BY <1>0, <3>1 DEF Put
    <3>6. /\ SavesHeld' => \A b \in Agent : Accounts(agents[b])'
          /\ diskErrors' = 0 => \A b \in Agent : Accounts(agentsFile[b])'
      BY <2>1, <3>4, <3>5, AccountsKept
    <3> QED
      BY <1>a, <2>1, <3>6 DEF BudgetInv
  <2>3. CASE Exists(a)
    <3> DEFINE r == [agents[a] EXCEPT
                        !.policy = IfGiven(raw, NormalizePolicy(raw), @),
                        !.rule = IfGiven(rule, rule, @),
                        !.owner = IF o = NoOwner THEN @ ELSE o]
    <3>1. Put(a, r) /\ UNCHANGED minted
      BY <1>1, <2>3 DEF Provision
    <3>2. /\ r.address = agents[a].address /\ r.day = agents[a].day
          /\ r.spent = agents[a].spent
      BY <1>0 DEF Record
    <3> HIDE DEF r
    <3> QED
      BY <1>0, <2>1, <3>1, <3>2, PutBudget
  <2> QED
    BY <2>2, <2>3
<1>2. ASSUME NEW a \in Agent, NEW raw \in RawPolicies \cup {NotGiven},
             NEW rule \in Rule \cup {NoRule, NotGiven}, SetPolicy(a, raw, rule)
      PROVE  BudgetInv'
  <2> DEFINE r == [agents[a] EXCEPT
                      !.policy = IfGiven(raw, NormalizePolicy(raw), DefaultPolicy),
                      !.rule = IfGiven(rule, rule, @)]
  <2>1. /\ Put(a, r) /\ UNCHANGED <<now, agentsFile, signed, minted, crashes, diskErrors>>
        /\ reply'.what # "trade"
    BY <1>2 DEF SetPolicy, disk, told, counted, SaveAndReply
  <2>2. /\ r.address = agents[a].address /\ r.day = agents[a].day
        /\ r.spent = agents[a].spent
    BY <1>0 DEF Record
  <2> HIDE DEF r
  <2> QED
    BY <1>0, <2>1, <2>2, PutBudget
<1>3. ASSUME NEW a \in Agent, NEW o \in Owner, SetOwner(a, o)
      PROVE  BudgetInv'
  <2> DEFINE r == [agents[a] EXCEPT !.owner = o]
  <2>1. /\ Put(a, r) /\ UNCHANGED <<now, agentsFile, signed, minted, crashes, diskErrors>>
        /\ reply'.what # "trade"
    BY <1>3 DEF SetOwner, disk, told, counted, SaveAndReply
  <2>2. /\ r.address = agents[a].address /\ r.day = agents[a].day
        /\ r.spent = agents[a].spent
    BY <1>0 DEF Record
  <2> HIDE DEF r
  <2> QED
    BY <1>0, <2>1, <2>2, PutBudget
<1>4. ASSUME NEW a \in Agent, OpenSession(a)
      PROVE  BudgetInv'
  <2> DEFINE r == [agents[a] EXCEPT !.session = NextSession(agents[a])]
  <2>1. /\ Put(a, r) /\ UNCHANGED <<now, agentsFile, signed, minted, crashes, diskErrors>>
        /\ reply'.what # "trade"
    BY <1>4 DEF OpenSession, disk, told, SaveAndReply
  <2>2. /\ r.address = agents[a].address /\ r.day = agents[a].day
        /\ r.spent = agents[a].spent
    BY <1>0 DEF Record
  <2> HIDE DEF r
  <2> QED
    BY <1>0, <2>1, <2>2, PutBudget
<1>5. ASSUME NEW a \in Agent, Destroy(a)
      PROVE  BudgetInv'
  <2>1. /\ Put(a, NoRecord) /\ UNCHANGED <<now, agentsFile, signed, minted, crashes, diskErrors>>
        /\ reply'.what # "trade"
    BY <1>5 DEF Destroy, disk, counted, SaveAndReply
  <2>2. \A b \in Agent : agents'[b] = IF b = a THEN NoRecord ELSE agents[b]
    BY <1>0, <2>1 DEF Put
  <2>3. Accounts(NoRecord)
    BY DEF Accounts, NoRecord
  <2>4. /\ SavesHeld' => \A b \in Agent : Accounts(agents[b])'
        /\ diskErrors' = 0 => \A b \in Agent : Accounts(agentsFile[b])'
    BY <2>1, <2>2, <2>3, AccountsKept
  <2> QED
    BY <1>a, <2>1, <2>4 DEF BudgetInv
<1>6. ASSUME NEW g \in granted, NEW i \in Intents, PaperTrade(g.agent, g, i)
      PROVE  BudgetInv'
  <2> DEFINE a == g.agent
             r == [agents[a] EXCEPT !.day = Today,
                                    !.spent = SpentToday(agents[a]) + i.size,
                                    !.lastTrade = now]
  <2>1. a \in Agent
    BY <1>0
  <2>2. /\ Put(a, r) /\ UNCHANGED <<now, agentsFile, signed, minted, crashes, diskErrors>>
        /\ reply'.what = "trade" /\ reply'.agent = a /\ reply'.value = i.size
        /\ Exists(a)
        /\ SpentToday(agents[a]) + i.size <= agents[a].policy.maxDaily
    BY <1>6 DEF PaperTrade, disk, told, counted, SaveAndReply, WithinCaps
  <2>3. i.size \in Nat
    BY <1>6, SignerAssumption DEF PaperTrade, WithinCaps, SignerAssumption, Intent
  <2>4. /\ SpentToday(agents[a]) \in Nat
        /\ signed[<<agents[a].address, Today>>] <= SpentToday(agents[a])
        /\ \A d \in Day : d > Today => signed[<<agents[a].address, d>>] = 0
    <3>1. Accounts(agents[a])
      BY <1>a, <2>1 DEF BudgetInv
    <3> QED
      BY <2>1, <2>2, <3>1, SpentTodayCovers
  <2>5. /\ r.address = agents[a].address /\ r.day = Today
        /\ r.spent = SpentToday(agents[a]) + i.size
        /\ r.policy = agents[a].policy
    BY <1>0, <2>1 DEF Record
  <2>6. agents[a].address \in Address
    BY <2>1, <2>2, WalletAddress DEF Exists
  <2>7. signed[<<agents[a].address, Today>>] \in Nat
    BY <1>0, <2>6 DEF TypeOK
  <2> HIDE DEF r
  <2>8. Accounts(r)
    BY <1>0, <2>3, <2>4, <2>5, <2>7 DEF Accounts
  <2>9. \A b \in Agent : agents'[b] = IF b = a THEN r ELSE agents[b]
    BY <1>0, <2>1, <2>2 DEF Put
  <2>10. /\ SavesHeld' => \A b \in Agent : Accounts(agents[b])'
         /\ diskErrors' = 0 => \A b \in Agent : Accounts(agentsFile[b])'
    BY <2>1, <2>2, <2>8, <2>9, AccountsKept
  <2>11. /\ signed[<<r.address, r.day>>] + i.size <= r.spent
         /\ r.spent <= r.policy.maxDaily
    BY <2>2, <2>3, <2>4, <2>5, <2>7
  <2>12. agents'[reply'.agent] = r
    BY <2>1, <2>2, <2>9
  <2> QED
    BY <1>a, <2>2, <2>10, <2>11, <2>12 DEF BudgetInv
<1>7. ASSUME NEW g \in granted, NEW i \in Intents, RefusedTrade(g.agent, g, i)
      PROVE  BudgetInv'
  <2> DEFINE a == g.agent
             r == [agents[a] EXCEPT !.day = Today, !.spent = 0]
  <2>1. a \in Agent
    BY <1>0
  <2>2. /\ Put(a, r) /\ UNCHANGED <<now, agentsFile, signed, minted, reply, crashes, diskErrors>>
        /\ Exists(a) /\ agents[a].day # Today /\ saving = "idle"
    BY <1>7 DEF RefusedTrade, disk, told, counted, Serving
  <2>3. reply.what # "trade"
    BY <2>2 DEF ReplyPending
  <2>4. /\ signed[<<agents[a].address, Today>>] <= 0
        /\ \A d \in Day : d > Today => signed[<<agents[a].address, d>>] = 0
    <3>1. Accounts(agents[a])
      BY <1>a, <2>1 DEF BudgetInv
    <3>2. SpentToday(agents[a]) = 0
      BY <2>2 DEF SpentToday
    <3>3. Exists(a)
      BY <2>2
    <3> HIDE DEF a, r
    <3>4. /\ signed[<<agents[a].address, Today>>] <= SpentToday(agents[a])
          /\ \A d \in Day : d > Today => signed[<<agents[a].address, d>>] = 0
      BY <2>1, <3>1, <3>3, SpentTodayCovers
    <3> QED
      BY <3>2, <3>4
  <2>5. r.address = agents[a].address /\ r.day = Today /\ r.spent = 0
    BY <1>0, <2>1 DEF Record
  <2> HIDE DEF r
  <2>6. Accounts(r)
    BY <1>0, <2>4, <2>5 DEF Accounts
  <2>7. \A b \in Agent : agents'[b] = IF b = a THEN r ELSE agents[b]
    BY <1>0, <2>1, <2>2 DEF Put
  <2>8. /\ SavesHeld' => \A b \in Agent : Accounts(agents[b])'
        /\ diskErrors' = 0 => \A b \in Agent : Accounts(agentsFile[b])'
    BY <2>1, <2>2, <2>6, <2>7, AccountsKept
  <2> QED
    BY <1>a, <2>2, <2>3, <2>8 DEF BudgetInv
<1>8. CASE WriteAgents
  <2>1. /\ agentsFile' = agents
        /\ UNCHANGED <<now, agents, reply, signed, minted, crashes, diskErrors>>
    BY <1>8 DEF WriteAgents, memory, told, counted
  <2> QED
    BY <1>a, <2>1 DEF BudgetInv, Accounts, Today, SavesHeld
<1>9. CASE WriteKeys
  <2>1. /\ UNCHANGED <<now, agents, agentsFile, minted>> /\ reply'.what # "trade"
        /\ agentsFile = agents
    BY <1>9 DEF WriteKeys, memory, counted, Answer, NoReply, ReplyPending
  <2>2. \A b \in Agent : Accounts(agents[b])'
    BY <1>a, <1>9, <2>1, AnswerAccounts DEF WriteKeys
  <2> QED
    BY <1>a, <2>1, <2>2 DEF BudgetInv
<1>10. CASE PersistFails
  <2>1. /\ UNCHANGED <<now, agents, minted>> /\ reply'.what # "trade"
        /\ diskErrors' # 0
    BY <1>10 DEF PersistFails, memory, Answer, NoReply, TypeOK
  <2>2. \A b \in Agent : Accounts(agents[b])'
    BY <1>a, <1>10, <2>1, AnswerAccounts DEF PersistFails
  <2> QED
    BY <1>a, <2>1, <2>2 DEF BudgetInv
<1>11. CASE Crash
  <2>1. /\ agents' = agentsFile /\ crashes' = crashes + 1 /\ reply'.what # "trade"
        /\ UNCHANGED <<now, agentsFile, signed, diskErrors>>
    BY <1>11 DEF Crash, disk, told, NoReply
  <2>2. diskErrors = 0
    BY <2>1 DEF TypeOK, SavesHeld
  <2> QED
    BY <1>a, <2>1, <2>2 DEF BudgetInv, Accounts, Today
<1>12. CASE Tick
  <2>1. /\ now' = now + 1 /\ now < MaxTime
        /\ UNCHANGED <<agents, agentsFile, reply, signed, minted, crashes, diskErrors>>
    BY <1>12 DEF Tick, memory, disk, told, counted
  <2>2. Today <= Today' /\ Today' \in Nat
    BY <2>1, SignerAssumption DEF TypeOK, SignerAssumption, Today
  <2>3. \A r : r.day \in Nat /\ Accounts(r) => Accounts(r)'
    BY <1>0, <2>1, <2>2 DEF Accounts
  <2>4. \A b \in Agent : agents[b].day \in Nat /\ agentsFile[b].day \in Nat
    BY <1>0 DEF Record
  <2>5. /\ SavesHeld' => \A b \in Agent : Accounts(agents[b])'
        /\ diskErrors' = 0 => \A b \in Agent : Accounts(agentsFile[b])'
    BY <1>a, <2>1, <2>3, <2>4 DEF BudgetInv, Accounts
  <2> QED
    BY <1>a, <2>1, <2>5 DEF BudgetInv
<1>13. CASE UNCHANGED vars
  BY <1>13 DEF vars, BudgetInv, UnusedWallets, Accounts, Today, SavesHeld
<1> QED
  BY <1>1, <1>2, <1>3, <1>4, <1>5, <1>6, <1>7, <1>8, <1>9, <1>10, <1>11,
     <1>12, <1>13 DEF Next

\* A signature adds the pending value to what its wallet signed that day, and
\* the record it was charged to is within the policy's day cap.
LEMMA BudgetAction ==
    ASSUME Typing, BudgetInv, [Next]_vars, SavesHeld,
           NEW x \in Address, NEW d \in Day, signed'[<<x, d>>] > signed[<<x, d>>]
    PROVE  \E a \in Agent : /\ agents[a].address = x
                            /\ signed'[<<x, d>>] <= agents[a].policy.maxDaily
<1> USE DEF Typing
<1>1. signed' # signed
  <2>1. signed[<<x, d>>] \in Nat
    BY DEF TypeOK
  <2> QED
    BY <2>1
<1>2. Answer /\ reply.what = "trade"
  BY <1>1, SignedWhenAnswered DEF Answer
<1> DEFINE r == agents[reply.agent]
           k == <<r.address, r.day>>
<1>3. /\ signed' = [signed EXCEPT ![k] = signed[k] + reply.value]
      /\ signed \in [Address \X Day -> Nat] /\ reply.agent \in Agent
      /\ reply.value \in Nat /\ r \in Record
  BY <1>2 DEF Answer, TypeOK, ReplyPending, Reply
<1>4. /\ signed[k] + reply.value <= r.spent
      /\ r.spent <= r.policy.maxDaily
      /\ r.spent \in Nat /\ r.policy.maxDaily \in Nat
  BY <1>2, <1>3 DEF BudgetInv, Record, PolicyType
<1>5. signed[<<x, d>>] \in Nat
  BY <1>3
<1> HIDE DEF r
<1>6. k = <<x, d>>
  BY <1>1, <1>3, <1>5
<1>7. r.address = x /\ signed'[<<x, d>>] = signed[k] + reply.value
  BY <1>3, <1>6
<1>8. signed'[<<x, d>>] <= r.policy.maxDaily
  BY <1>3, <1>4, <1>5, <1>6, <1>7
<1> QED
  BY <1>3, <1>7, <1>8 DEF r

\* The day budget holds for every policy, clock, number of crashes and failed
\* saves, as long as no restart meets a failed save.
THEOREM BudgetHolds == Spec => DailyCapKept
<1>1. Init => BudgetInv
  BY DEF Init, BudgetInv, UnusedWallets, Accounts, NoRecord, NoReply
<1>2. Typing /\ BudgetInv /\ [Next]_vars => BudgetInv'
  BY BudgetStep
<1>3. Typing /\ BudgetInv /\ [Next]_vars =>
        [\A x \in Address, d \in Day :
            SavesHeld /\ signed'[<<x, d>>] > signed[<<x, d>>] =>
                \E a \in Agent :
                    /\ agents[a].address = x
                    /\ signed'[<<x, d>>] <= agents[a].policy.maxDaily]_vars
  BY BudgetAction
<1> QED
  BY <1>1, <1>2, <1>3, TypingInit, TypingStep, PTL DEF Spec, DailyCapKept

-----------------------------------------------------------------------------
\* A record that knows of all that was handed out and signed takes the place of one.
LEMMA PutRecall ==
    ASSUME RecallInv, NEW a \in Agent, NEW r, agents \in [Agent -> Record], Put(a, r),
           SavesHeld => Recalls(r),
           SavesHeld /\ reply'.what = "trade" => reply'.agent = a /\ Cooled(r),
           minted \in Nat, minted' \in Nat, minted <= minted',
           UNCHANGED <<agentsFile, granted, lastSigned, crashes, diskErrors>>
    PROVE  RecallInv'
<1>1. SavesHeld' <=> SavesHeld
  BY DEF SavesHeld
<1>2. /\ \A g \in granted' : g.address \in 1..minted'
      /\ \A x \in Address : x > minted' => lastSigned'[x] = 0
  BY DEF RecallInv, Address
<1>3. \A b \in Agent : agents'[b] = IF b = a THEN r ELSE agents[b]
  BY DEF Put
<1>4. SavesHeld' => \A b \in Agent : Recalls(agents[b])'
  <2> SUFFICES ASSUME SavesHeld, NEW b \in Agent PROVE Recalls(agents[b])'
    BY <1>1
  <2>1. Recalls(IF b = a THEN r ELSE agents[b])
    BY DEF RecallInv
  <2> QED
    BY <1>3, <2>1 DEF Recalls
<1>5. diskErrors' = 0 => \A b \in Agent : Recalls(agentsFile[b])'
  BY DEF RecallInv, Recalls
<1>6. SavesHeld' /\ reply'.what = "trade" => Cooled(agents[reply.agent])'
  BY <1>1, <1>3 DEF Cooled
<1>7. EpochsNameHolders'
  BY <1>1 DEF RecallInv, EpochsNameHolders
<1> QED
  BY <1>2, <1>4, <1>5, <1>6, <1>7 DEF RecallInv

\* A reply that hands out a session or a signature tells of the record in memory.
LEMMA AnswerRecall ==
    ASSUME Typing, RecallInv, saving # "idle", Answer, UNCHANGED <<agents, minted>>
    PROVE  /\ \A g \in granted' : g.address \in 1..minted
           /\ \A x \in Address : x > minted => lastSigned'[x] = 0
           /\ SavesHeld => /\ \A b \in Agent : Recalls(agents[b])'
                           /\ \A g, h \in granted' :
                                 g.address = h.address /\ g.token < h.token => g.epoch < h.epoch
<1> USE DEF Typing
<1>0. /\ reply.agent \in Agent /\ minted \in Nat
      /\ agents \in [Agent -> Record] /\ \A b \in Agent : agents[b] \in Record
      /\ lastSigned \in [Address -> Nat]
      /\ \A g \in granted : g.token \in Nat /\ g.epoch \in Nat
  BY SignerAssumption DEF ReplyPending, TypeOK, SignerAssumption
<1> DEFINE r == agents[reply.agent]
<1>r. /\ r \in Record /\ r.address \in Nat /\ r.lastTrade \in Nat
      /\ r.session.token \in Nat /\ r.session.epoch \in Nat
  BY <1>0 DEF Record
<1>w. r.address # 0 => r.address \in 1..minted /\ r.address \in Address
  BY <1>0, <1>r, WalletAddress
<1>o. \A b \in Agent : b # reply.agent /\ agents[b].address # 0 =>
          agents[b].address # r.address
  BY <1>0, WalletAddress DEF OwnWallet, HasWallet
<1>1. CASE reply.what = "session"
  <2>1. granted' = granted \cup {Handed} /\ lastSigned' = lastSigned
    BY <1>1 DEF Answer, Handed
  <2>2. /\ Handed.address = r.address /\ Handed.token = r.session.token
        /\ Handed.epoch = r.session.epoch /\ r.address # 0
    BY <1>1 DEF Handed, ReplyPending, Exists
  <2> HIDE DEF r
  <2>3. \A g \in granted' : g.address \in 1..minted
    BY <1>w, <2>1, <2>2 DEF RecallInv
  <2>4. ASSUME SavesHeld, NEW b \in Agent PROVE Recalls(agents[b])'
    <3>1. Recalls(agents[b])
      BY <2>4 DEF RecallInv
    <3>2. CASE b = reply.agent
      BY <2>1, <2>2, <3>1, <3>2 DEF Recalls, r
    <3>3. CASE b # reply.agent
      BY <1>o, <2>1, <2>2, <3>1, <3>3 DEF Recalls
    <3> QED
      BY <3>2, <3>3
  <2>5. ASSUME SavesHeld, NEW g \in granted', NEW h \in granted',
               g.address = h.address, g.token < h.token
        PROVE  g.epoch < h.epoch
    <3>1. Recalls(r)
      BY <1>0, <2>5 DEF RecallInv, r
    <3>2. \A k \in granted : k.address = r.address =>
              \/ k.token = r.session.token /\ k.epoch = r.session.epoch
              \/ k.token < r.session.token /\ k.epoch < r.session.epoch
      BY <2>2, <3>1 DEF Recalls
    <3>3. CASE g \in granted /\ h \in granted
      BY <2>5, <3>3 DEF RecallInv, EpochsNameHolders
    <3>4. CASE g \in granted /\ h = Handed
      BY <1>0, <1>r, <2>2, <2>5, <3>2, <3>4
    <3>5. CASE g = Handed /\ h \in granted
      BY <1>0, <1>r, <2>2, <2>5, <3>2, <3>5
    <3>6. CASE g = Handed /\ h = Handed
      BY <1>r, <2>2, <2>5, <3>6
    <3> QED
      BY <2>1, <3>3, <3>4, <3>5, <3>6
  <2> QED
    BY <2>1, <2>3, <2>4, <2>5 DEF RecallInv
<1>2. CASE reply.what = "trade"
  <2>1. granted' = granted /\ lastSigned' = [lastSigned EXCEPT ![r.address] = r.lastTrade]
    BY <1>2 DEF Answer
  <2>2. r.address # 0
    BY <1>2 DEF ReplyPending, Exists
  <2> HIDE DEF r
  <2>3. \A x \in Address : lastSigned'[x] =
            IF x = r.address THEN r.lastTrade ELSE lastSigned[x]
    BY <1>0, <2>1
  <2>4. \A x \in Address : x > minted => lastSigned'[x] = 0
    BY <1>0, <1>r, <1>w, <2>2, <2>3 DEF RecallInv, Address
  <2>5. ASSUME SavesHeld, NEW b \in Agent PROVE Recalls(agents[b])'
    <3> SUFFICES ASSUME agents[b].address # 0 PROVE Recalls(agents[b])'
      BY DEF Recalls
    <3>1. Recalls(agents[b]) /\ agents[b].address \in Address
      BY <2>5, WalletAddress DEF RecallInv
    <3>2. CASE b = reply.agent
      BY <1>r, <2>1, <2>3, <3>1, <3>2 DEF Recalls, r
    <3>3. CASE b # reply.agent
      BY <1>o, <2>1, <2>3, <3>1, <3>3 DEF Recalls
    <3> QED
      BY <3>2, <3>3
  <2> QED
    BY <2>1, <2>4, <2>5 DEF RecallInv, EpochsNameHolders
<1>3. CASE reply.what \notin {"session", "trade"}
  BY <1>3 DEF Answer, RecallInv, Recalls, EpochsNameHolders
<1> QED
  BY <1>1, <1>2, <1>3

\* What a record knows of its wallet is kept, in memory as long as no restart meets a
\* failed save, in agents.json as long as no save failed.
LEMMA RecallStep ==
    ASSUME Typing, FenceInv, RecallInv, [Next]_vars
    PROVE  RecallInv'
<1> USE DEF Typing
<1>0. /\ agents \in [Agent -> Record] /\ \A b \in Agent : agents[b] \in Record
      /\ minted \in Nat /\ issued \in Nat
      /\ \A g \in granted : /\ g.agent \in Agent /\ g.token \in Nat /\ g.epoch \in Nat
                            /\ g.address \in 1..minted
  BY SignerAssumption DEF TypeOK, SignerAssumption, RecallInv
<1>p. ASSUME NEW a \in Agent, NEW r, Put(a, r), r.address = agents[a].address,
             r.session = agents[a].session, r.lastTrade = agents[a].lastTrade,
             reply'.what # "trade",
             UNCHANGED <<agentsFile, granted, lastSigned, minted, crashes, diskErrors>>
      PROVE  RecallInv'
  <2>1. SavesHeld => Recalls(r)
    BY <1>p DEF RecallInv, Recalls
  <2> QED
    BY <1>0, <1>p, <2>1, PutRecall
<1>1. ASSUME NEW a \in Agent, NEW raw \in RawPolicies \cup {NotGiven},
             NEW rule \in Rule \cup {NoRule, NotGiven},
             NEW o \in Owner \cup {NoOwner}, Provision(a, raw, rule, o)
      PROVE  RecallInv'
  <2>1. /\ UNCHANGED <<agentsFile, granted, lastSigned, crashes, diskErrors>>
        /\ reply'.what # "trade"
    BY <1>1 DEF Provision, disk, told, SaveAndReply
  <2>2. CASE ~Exists(a)
    <3> DEFINE r == NewRecord(minted + 1, raw, rule, o)
    <3>1. Put(a, r) /\ minted' = minted + 1 /\ minted + 1 \in Address
      BY <1>0, <1>1, <2>2, SignerAssumption DEF Provision, Address, SignerAssumption
    <3>2. r.address = minted + 1 /\ r.lastTrade = 0
      BY DEF NewRecord
    <3> HIDE DEF r
    <3>3. Recalls(r)
      BY <1>0, <3>1, <3>2 DEF Recalls, RecallInv
    <3> QED
      BY <1>0, <2>1, <3>1, <3>3, PutRecall
  <2>3. CASE Exists(a)
    <3> DEFINE r == [agents[a] EXCEPT
                        !.policy = IfGiven(raw, NormalizePolicy(raw), @),
                        !.rule = IfGiven(rule, rule, @),
                        !.owner = IF o = NoOwner THEN @ ELSE o]
    <3>1. Put(a, r) /\ UNCHANGED minted
      BY <1>1, <2>3 DEF Provision
    <3>2. /\ r.address = agents[a].address /\ r.session = agents[a].session
          /\ r.lastTrade = agents[a].lastTrade
      BY <1>0 DEF Record
    <3> HIDE DEF r
    <3> QED
      BY <1>p, <2>1, <3>1, <3>2
  <2> QED
    BY <2>2, <2>3
<1>2. ASSUME NEW a \in Agent, NEW raw \in RawPolicies \cup {NotGiven},
             NEW rule \in Rule \cup {NoRule, NotGiven}, SetPolicy(a, raw, rule)
      PROVE  RecallInv'
  <2> DEFINE r == [agents[a] EXCEPT
                      !.policy = IfGiven(raw, NormalizePolicy(raw), DefaultPolicy),
                      !.rule = IfGiven(rule, rule, @)]
  <2>1. /\ Put(a, r) /\ reply'.what # "trade"
        /\ UNCHANGED <<agentsFile, granted, lastSigned, minted, crashes, diskErrors>>
    BY <1>2 DEF SetPolicy, disk, told, counted, SaveAndReply
  <2>2. /\ r.address = agents[a].address /\ r.session = agents[a].session
        /\ r.lastTrade = agents[a].lastTrade
    BY <1>0 DEF Record
  <2> HIDE DEF r
  <2> QED
    BY <1>p, <2>1, <2>2
<1>3. ASSUME NEW a \in Agent, NEW o \in Owner, SetOwner(a, o)
      PROVE  RecallInv'
  <2> DEFINE r == [agents[a] EXCEPT !.owner = o]
  <2>1. /\ Put(a, r) /\ reply'.what # "trade"
        /\ UNCHANGED <<agentsFile, granted, lastSigned, minted, crashes, diskErrors>>
    BY <1>3 DEF SetOwner, disk, told, counted, SaveAndReply
  <2>2. /\ r.address = agents[a].address /\ r.session = agents[a].session
        /\ r.lastTrade = agents[a].lastTrade
    BY <1>0 DEF Record
  <2> HIDE DEF r
  <2> QED
    BY <1>p, <2>1, <2>2
<1>4. ASSUME NEW a \in Agent, OpenSession(a)
      PROVE  RecallInv'
  <2> DEFINE r == [agents[a] EXCEPT !.session = NextSession(agents[a])]
  <2>1. /\ Put(a, r) /\ reply'.what # "trade"
        /\ UNCHANGED <<agentsFile, granted, lastSigned, minted, crashes, diskErrors>>
    BY <1>4 DEF OpenSession, disk, told, SaveAndReply
  <2>2. /\ r.address = agents[a].address /\ r.lastTrade = agents[a].lastTrade
        /\ r.session.token = issued + 1
        /\ r.session.epoch = agents[a].session.epoch + 1
        /\ agents[a].session.epoch \in Nat
    BY <1>0 DEF Record, NextSession
  <2> HIDE DEF r
  <2>3. SavesHeld => Recalls(r)
    <3> SUFFICES ASSUME SavesHeld, r.address # 0 PROVE Recalls(r)
      BY DEF Recalls
    <3>1. Recalls(agents[a])
      BY DEF RecallInv
    <3>2. lastSigned[r.address] <= r.lastTrade
      BY <2>2, <3>1 DEF Recalls
    <3>3. ASSUME NEW g \in granted, g.address = r.address
          PROVE  g.token < r.session.token /\ g.epoch < r.session.epoch
      <4>1. g.token <= issued
        BY DEF FenceInv
      <4>2. g.epoch <= agents[a].session.epoch
        BY <1>0, <2>2, <3>1, <3>3 DEF Recalls
      <4> QED
        BY <1>0, <2>2, <4>1, <4>2
    <3> QED
      BY <3>2, <3>3 DEF Recalls
  <2> QED
    BY <1>0, <2>1, <2>3, PutRecall
<1>5. ASSUME NEW a \in Agent, Destroy(a)
      PROVE  RecallInv'
  <2>1. /\ Put(a, NoRecord) /\ reply'.what # "trade"
        /\ UNCHANGED <<agentsFile, granted, lastSigned, minted, crashes, diskErrors>>
    BY <1>5 DEF Destroy, disk, counted, SaveAndReply
  <2>2. Recalls(NoRecord)
    BY DEF Recalls, NoRecord
  <2> QED
    BY <1>0, <2>1, <2>2, PutRecall
<1>6. ASSUME NEW g \in granted, NEW i \in Intents, PaperTrade(g.agent, g, i)
      PROVE  RecallInv'
  <2> DEFINE a == g.agent
             r == [agents[a] EXCEPT !.day = Today,
                                    !.spent = SpentToday(agents[a]) + i.size,
                                    !.lastTrade = now]
  <2>1. a \in Agent
    BY <1>0
  <2>2. /\ Put(a, r) /\ reply'.agent = a /\ Exists(a)
        /\ now - agents[a].lastTrade >= agents[a].policy.cooldown
        /\ UNCHANGED <<agentsFile, granted, lastSigned, minted, crashes, diskErrors>>
    BY <1>6
    DEF PaperTrade, disk, told, counted, SaveAndReply, Admitted, CooledDown
  <2>3. /\ r.address = agents[a].address /\ r.session = agents[a].session
        /\ r.lastTrade = now /\ r.policy = agents[a].policy
        /\ agents[a].lastTrade \in Nat /\ agents[a].policy.cooldown \in Nat
        /\ now \in Nat
    BY <1>0, <2>1, SignerAssumption DEF Record, PolicyType, TypeOK, SignerAssumption
  <2>4. agents[a].address \in Address /\ lastSigned[agents[a].address] \in Nat
    BY <2>1, <2>2, WalletAddress DEF Exists, TypeOK
  <2> HIDE DEF r
  <2>5. SavesHeld => Recalls(r) /\ Cooled(r)
    <3> SUFFICES ASSUME SavesHeld PROVE Recalls(r) /\ Cooled(r)
      OBVIOUS
    <3>1. Recalls(agents[a])
      BY <2>1 DEF RecallInv
    <3>2. /\ lastSigned[agents[a].address] <= agents[a].lastTrade
          /\ agents[a].address # 0
      BY <2>2, <3>1 DEF Recalls, Exists
    <3>3. Cooled(r)
      BY <2>2, <2>3, <2>4, <3>2 DEF Cooled
    <3>4. lastSigned[r.address] <= r.lastTrade
      BY <2>2, <2>3, <2>4, <3>2
    <3> QED
      BY <2>3, <3>1, <3>2, <3>3, <3>4 DEF Recalls
  <2> QED
    BY <1>0, <2>1, <2>2, <2>5, PutRecall
<1>7. ASSUME NEW g \in granted, NEW i \in Intents, RefusedTrade(g.agent, g, i)
      PROVE  RecallInv'
  <2> DEFINE r == [agents[g.agent] EXCEPT !.day = Today, !.spent = 0]
  <2>1. /\ Put(g.agent, r) /\ saving = "idle" /\ reply' = reply
        /\ UNCHANGED <<agentsFile, granted, lastSigned, minted, crashes, diskErrors>>
    BY <1>7 DEF RefusedTrade, disk, told, counted, Serving
  <2>2. reply'.what # "trade"
    BY <2>1 DEF ReplyPending
  <2>3. /\ r.address = agents[g.agent].address /\ r.session = agents[g.agent].session
        /\ r.lastTrade = agents[g.agent].lastTrade
    BY <1>0 DEF Record
  <2> HIDE DEF r
  <2> QED
    BY <1>0, <1>p, <2>1, <2>2, <2>3
<1>8. CASE WriteAgents
  <2>1. agentsFile' = agents
        /\ UNCHANGED <<agents, reply, granted, lastSigned, minted, crashes, diskErrors>>
    BY <1>8 DEF WriteAgents, memory, told, counted
  <2> QED
    BY <2>1 DEF RecallInv, Recalls, Cooled, EpochsNameHolders, SavesHeld
<1>9. CASE WriteKeys
  <2>1. /\ agentsFile = agents /\ reply'.what # "trade" /\ Answer /\ saving # "idle"
        /\ UNCHANGED <<agents, agentsFile, minted, crashes, diskErrors>>
    BY <1>9 DEF WriteKeys, memory, counted, ReplyPending, Answer, NoReply
  <2> QED
    BY <2>1, AnswerRecall DEF RecallInv, EpochsNameHolders, SavesHeld
<1>10. CASE PersistFails
  <2>1. /\ reply'.what # "trade" /\ Answer /\ saving # "idle"
        /\ UNCHANGED <<agents, agentsFile, minted, crashes>>
        /\ diskErrors' = diskErrors + 1
    BY <1>10 DEF PersistFails, memory, disk, Answer, NoReply
  <2>2. diskErrors' # 0 /\ (SavesHeld' => SavesHeld)
    BY <2>1 DEF TypeOK, SavesHeld
  <2> QED
    BY <2>1, <2>2, AnswerRecall DEF RecallInv, EpochsNameHolders
<1>11. CASE Crash
  <2>1. /\ agents' = agentsFile /\ crashes' = crashes + 1 /\ reply'.what # "trade"
        /\ UNCHANGED <<agentsFile, granted, lastSigned, minted, diskErrors>>
    BY <1>11 DEF Crash, disk, told, NoReply
  <2>2. SavesHeld' => SavesHeld /\ diskErrors = 0
    BY <2>1 DEF TypeOK, SavesHeld
  <2> QED
    BY <2>1, <2>2 DEF RecallInv, Recalls, EpochsNameHolders
<1>12. CASE Tick \/ UNCHANGED vars
  <2>1. UNCHANGED <<agents, agentsFile, reply, granted, lastSigned, minted, crashes, diskErrors>>
    BY <1>12 DEF Tick, vars, memory, disk, told, counted
  <2> QED
    BY <2>1 DEF RecallInv, Recalls, Cooled, EpochsNameHolders, SavesHeld
<1> QED
  BY <1>1, <1>2, <1>3, <1>4, <1>5, <1>6, <1>7, <1>8, <1>9, <1>10, <1>11, <1>12 DEF Next

\* The record a signature leaves for waited for the cooldown.
LEMMA CooldownAction ==
    ASSUME RecallInv, [Next]_vars, SavesHeld, signed' # signed
    PROVE  LET a == reply.agent
               x == agents[a].address
           IN  lastSigned[x] # 0 =>
                   agents[a].lastTrade - lastSigned[x] >= agents[a].policy.cooldown
<1>1. reply.what = "trade"
  BY SignedWhenAnswered DEF Answer
<1> QED
  BY <1>1 DEF RecallInv, Cooled

LEMMA InitRecall == Init => RecallInv
  BY SignerAssumption
  DEF Init, RecallInv, Recalls, NoRecord, NoReply, EpochsNameHolders, SignerAssumption

LEMMA RecallAlways == Spec => [](Typing /\ FenceInv /\ RecallInv)
<1>1. Init => FenceInv
  BY SignerAssumption
  DEF Init, FenceInv, NoRecord, NoSession, SignerAssumption
<1>2. Typing /\ FenceInv /\ RecallInv /\ [Next]_vars => FenceInv' /\ RecallInv'
  BY FenceStep, RecallStep
<1> QED
  BY <1>1, <1>2, InitRecall, TypingInit, TypingStep, PTL DEF Spec

\* The cooldown holds for every policy and clock, through restarts and new sessions, as
\* long as no restart meets a failed save.
THEOREM CooldownHolds == Spec => CooldownKept
<1>1. RecallInv /\ [Next]_vars =>
        [SavesHeld /\ signed' # signed =>
            LET a == reply.agent
                x == agents[a].address
            IN  lastSigned[x] # 0 =>
                    agents[a].lastTrade - lastSigned[x] >= agents[a].policy.cooldown]_vars
  BY CooldownAction
<1> QED
  BY <1>1, RecallAlways, PTL DEF Spec, CooldownKept

\* An epoch names one holder of a wallet, for any number of sessions and crashes.
THEOREM EpochsAreOrdered == Spec => []EpochsNameHolders
<1>1. RecallInv => EpochsNameHolders
  BY DEF RecallInv
<1> QED
  BY <1>1, RecallAlways, PTL

-----------------------------------------------------------------------------
\* A handler that keeps the wallet and its key keeps what was promised.
LEMMA PutPromise ==
    ASSUME PromiseInv, NEW a \in Agent, NEW r, agents \in [Agent -> Record],
           wallets \subseteq [agent : Agent, address : Nat],
           r.address = agents[a].address, Put(a, r), saving = "idle",
           UNCHANGED <<keys, agentsFile, keysFile, wallets, torn, crashes, diskErrors>>
    PROVE  PromiseInv'
<1>1. \A b \in Agent : agents'[b].address = agents[b].address
  BY DEF Put
<1> QED
  BY <1>1 DEF PromiseInv, SavesHeld

\* The wallet a reply promises is the one on record.
LEMMA AnswerPromise ==
    ASSUME Typing, PromiseInv, saving # "idle", Answer
    PROVE  /\ \A w \in wallets' : w.address # 0
           /\ SavesHeld => \A w \in wallets' : agents[w.agent].address = w.address
<1>1. \/ wallets' = wallets
      \/ /\ agents[reply.agent].address # 0
         /\ wallets' = wallets \cup
               {[agent |-> reply.agent, address |-> agents[reply.agent].address]}
  BY DEF Answer, Typing, ReplyPending, Exists
<1> QED
  BY <1>1 DEF PromiseInv

\* An agent keeps the wallet it was promised, and the key follows the record, unless a
\* crash falls between the two files.
LEMMA PromiseStep ==
    ASSUME Typing, PromiseInv, [Next]_vars
    PROVE  PromiseInv'
<1> USE DEF Typing
<1>0. /\ agents \in [Agent -> Record] /\ keys \in [Agent -> Nat] /\ minted \in Nat
      /\ wallets \subseteq [agent : Agent, address : Nat]
      /\ \A g \in granted : g.agent \in Agent
  BY SignerAssumption DEF TypeOK, SignerAssumption
<1>1. ASSUME NEW a \in Agent, NEW raw \in RawPolicies \cup {NotGiven},
             NEW rule \in Rule \cup {NoRule, NotGiven},
             NEW o \in Owner \cup {NoOwner}, Provision(a, raw, rule, o)
      PROVE  PromiseInv'
  <2>1. /\ UNCHANGED <<agentsFile, keysFile, wallets, torn, crashes, diskErrors>>
        /\ saving = "idle"
    BY <1>1 DEF Provision, disk, told, Serving
  <2>2. CASE ~Exists(a)
    <3> DEFINE r == NewRecord(minted + 1, raw, rule, o)
    <3>1. Put(a, r) /\ keys' = [keys EXCEPT ![a] = minted + 1]
      BY <1>1, <2>2 DEF Provision
    <3>2. r.address = minted + 1
      BY DEF NewRecord
    <3> HIDE DEF r
    <3>3. \A b \in Agent : /\ agents'[b] = IF b = a THEN r ELSE agents[b]
                           /\ keys'[b] = IF b = a THEN minted + 1 ELSE keys[b]
      BY <1>0, <3>1 DEF Put
    <3>4. SavesHeld => \A w \in wallets : w.agent # a
      BY <2>2 DEF PromiseInv, Exists
    <3> QED
      BY <1>0, <2>1, <3>2, <3>3, <3>4 DEF PromiseInv, SavesHeld
  <2>3. CASE Exists(a)
    <3> DEFINE r == [agents[a] EXCEPT
                        !.policy = IfGiven(raw, NormalizePolicy(raw), @),
                        !.rule = IfGiven(rule, rule, @),
                        !.owner = IF o = NoOwner THEN @ ELSE o]
    <3>1. Put(a, r) /\ UNCHANGED keys
      BY <1>1, <2>3 DEF Provision
    <3>2. r.address = agents[a].address
      BY <1>0 DEF Record
    <3> HIDE DEF r
    <3> QED
      BY <1>0, <2>1, <3>1, <3>2, PutPromise
  <2> QED
    BY <2>2, <2>3
<1>2. ASSUME NEW a \in Agent, NEW raw \in RawPolicies \cup {NotGiven},
             NEW rule \in Rule \cup {NoRule, NotGiven}, SetPolicy(a, raw, rule)
      PROVE  PromiseInv'
  <2> DEFINE r == [agents[a] EXCEPT
                      !.policy = IfGiven(raw, NormalizePolicy(raw), DefaultPolicy),
                      !.rule = IfGiven(rule, rule, @)]
  <2>1. /\ Put(a, r) /\ saving = "idle"
        /\ UNCHANGED <<keys, agentsFile, keysFile, wallets, torn, crashes, diskErrors>>
    BY <1>2 DEF SetPolicy, disk, told, counted, Serving
  <2>2. r.address = agents[a].address
    BY <1>0 DEF Record
  <2> HIDE DEF r
  <2> QED
    BY <1>0, <2>1, <2>2, PutPromise
<1>3. ASSUME NEW a \in Agent, NEW o \in Owner, SetOwner(a, o)
      PROVE  PromiseInv'
  <2> DEFINE r == [agents[a] EXCEPT !.owner = o]
  <2>1. /\ Put(a, r) /\ saving = "idle"
        /\ UNCHANGED <<keys, agentsFile, keysFile, wallets, torn, crashes, diskErrors>>
    BY <1>3 DEF SetOwner, disk, told, counted, Serving
  <2>2. r.address = agents[a].address
    BY <1>0 DEF Record
  <2> HIDE DEF r
  <2> QED
    BY <1>0, <2>1, <2>2, PutPromise
<1>4. ASSUME NEW a \in Agent, OpenSession(a)
      PROVE  PromiseInv'
  <2> DEFINE r == [agents[a] EXCEPT !.session = NextSession(agents[a])]
  <2>1. /\ Put(a, r) /\ saving = "idle"
        /\ UNCHANGED <<keys, agentsFile, keysFile, wallets, torn, crashes, diskErrors>>
    BY <1>4 DEF OpenSession, disk, told, Serving
  <2>2. r.address = agents[a].address
    BY <1>0 DEF Record
  <2> HIDE DEF r
  <2> QED
    BY <1>0, <2>1, <2>2, PutPromise
<1>5. ASSUME NEW a \in Agent, Destroy(a)
      PROVE  PromiseInv'
  <2>1. /\ Put(a, NoRecord) /\ keys' = [keys EXCEPT ![a] = 0] /\ saving = "idle"
        /\ wallets' = {w \in wallets : w.agent # a}
        /\ UNCHANGED <<agentsFile, keysFile, torn, crashes, diskErrors>>
    BY <1>5 DEF Destroy, disk, counted, Serving
  <2>2. \A b \in Agent : /\ agents'[b].address = IF b = a THEN 0 ELSE agents[b].address
                         /\ keys'[b] = IF b = a THEN 0 ELSE keys[b]
    BY <1>0, <2>1 DEF Put, NoRecord
  <2> QED
    BY <1>0, <2>1, <2>2 DEF PromiseInv, SavesHeld
<1>6. ASSUME NEW g \in granted, NEW i \in Intents, PaperTrade(g.agent, g, i)
      PROVE  PromiseInv'
  <2> DEFINE r == [agents[g.agent] EXCEPT
                      !.day = Today,
                      !.spent = SpentToday(agents[g.agent]) + i.size,
                      !.lastTrade = now]
  <2>1. /\ Put(g.agent, r) /\ saving = "idle"
        /\ UNCHANGED <<keys, agentsFile, keysFile, wallets, torn, crashes, diskErrors>>
    BY <1>6 DEF PaperTrade, disk, told, counted, Serving
  <2>2. r.address = agents[g.agent].address
    BY <1>0 DEF Record
  <2> HIDE DEF r
  <2> QED
    BY <1>0, <2>1, <2>2, PutPromise
<1>7. ASSUME NEW g \in granted, NEW i \in Intents, RefusedTrade(g.agent, g, i)
      PROVE  PromiseInv'
  <2> DEFINE r == [agents[g.agent] EXCEPT !.day = Today, !.spent = 0]
  <2>1. /\ Put(g.agent, r) /\ saving = "idle"
        /\ UNCHANGED <<keys, agentsFile, keysFile, wallets, torn, crashes, diskErrors>>
    BY <1>7 DEF RefusedTrade, disk, told, counted, Serving
  <2>2. r.address = agents[g.agent].address
    BY <1>0 DEF Record
  <2> HIDE DEF r
  <2> QED
    BY <1>0, <2>1, <2>2, PutPromise
<1>8. CASE WriteAgents
  <2>1. /\ agentsFile' = agents /\ saving' = "keys"
        /\ UNCHANGED <<agents, keys, keysFile, wallets, torn, crashes, diskErrors>>
    BY <1>8 DEF WriteAgents, memory, told, counted
  <2> QED
    BY <2>1 DEF PromiseInv, SavesHeld
<1>9. CASE WriteKeys
  <2>1. /\ keysFile' = keys /\ agentsFile = agents /\ Answer /\ saving # "idle"
        /\ UNCHANGED <<agents, keys, agentsFile, torn, crashes, diskErrors>>
    BY <1>9 DEF WriteKeys, memory, counted, ReplyPending
  <2> QED
    BY <2>1, AnswerPromise DEF PromiseInv, SavesHeld
<1>10. CASE PersistFails
  <2>1. /\ Answer /\ saving # "idle" /\ diskErrors' = diskErrors + 1
        /\ UNCHANGED <<agents, keys, agentsFile, keysFile, torn, crashes>>
    BY <1>10 DEF PersistFails, memory, disk
  <2>2. diskErrors' # 0 /\ (SavesHeld' => SavesHeld)
    BY <2>1 DEF TypeOK, SavesHeld
  <2> QED
    BY <2>1, <2>2, AnswerPromise DEF PromiseInv
<1>11. CASE Crash
  <2>1. /\ agents' = agentsFile /\ keys' = keysFile /\ crashes' = crashes + 1
        /\ torn' = (torn \/ saving = "keys")
        /\ UNCHANGED <<agentsFile, keysFile, wallets, diskErrors>>
    BY <1>11 DEF Crash, disk, told
  <2>2. SavesHeld' => diskErrors = 0
    BY <2>1 DEF TypeOK, SavesHeld
  <2>3. torn \in BOOLEAN /\ (~torn' => ~torn /\ saving # "keys")
    BY <2>1 DEF TypeOK
  <2> QED
    BY <2>1, <2>2, <2>3 DEF PromiseInv
<1>12. CASE Tick \/ UNCHANGED vars
  <2>1. /\ UNCHANGED <<agents, keys, agentsFile, keysFile, saving, wallets>>
        /\ UNCHANGED <<torn, crashes, diskErrors>>
    BY <1>12 DEF Tick, vars, memory, disk, told, counted
  <2> QED
    BY <2>1 DEF PromiseInv, SavesHeld
<1> QED
  BY <1>1, <1>2, <1>3, <1>4, <1>5, <1>6, <1>7, <1>8, <1>9, <1>10, <1>11, <1>12 DEF Next

LEMMA InitPromise == Init => PromiseInv
  BY DEF Init, PromiseInv, NoRecord

\* "The wallet is generated once and never regenerated" (signer/server.js): no agent that
\* was told its wallet loses the wallet or its key before it is destroyed, whatever
\* requests and crashes there are, as long as no restart meets a failed save and no
\* crash falls between the two files.
THEOREM WalletsAreKept == Spec => []PromisedWalletKept
<1>1. Typing /\ PromiseInv => PromisedWalletKept
  BY DEF Typing, TypeOK, PromiseInv, PromisedWalletKept
<1>2. Typing /\ PromiseInv /\ [Next]_vars => PromiseInv'
  BY PromiseStep
<1> QED
  BY <1>1, <1>2, InitPromise, TypingInit, TypingStep, PTL DEF Spec

-----------------------------------------------------------------------------
\* The invariant behind them all holds in every reachable state: the record of an
\* agent, in memory and in agents.json, is never behind what its clients were
\* told, as far as the saves held.
THEOREM SignerInvariant == Spec => []SignerInv
<1>1. Init => FenceInv /\ BudgetInv
  BY SignerAssumption
  DEF Init, FenceInv, BudgetInv, UnusedWallets, Accounts, NoRecord, NoSession,
      NoReply, SignerAssumption
<1>2. Typing /\ FenceInv /\ BudgetInv /\ PromiseInv /\ [Next]_vars =>
          FenceInv' /\ BudgetInv' /\ PromiseInv'
  BY FenceStep, BudgetStep, PromiseStep
<1>3. Typing /\ FenceInv /\ BudgetInv /\ RecallInv /\ PromiseInv => SignerInv
  BY DEF Typing, SignerInv
<1> QED
  BY <1>1, <1>2, <1>3, InitPromise, RecallAlways, TypingInit, TypingStep, PTL DEF Spec
=============================================================================
