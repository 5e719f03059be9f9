------------------------------- MODULE Signer -------------------------------
(* The custody signer (signer/server.js): one wallet per agent, its policy    *)
(* and day budget, the session that fences its holder, and the two files      *)
(* they are kept in.                                                          *)
(*                                                                            *)
(* A synchronous handler mutates the maps `agents` and `keys`, persist()      *)
(* queues a microtask that replaces agents.json and then keys.json, and the   *)
(* reply leaves after it. No other handler runs in between, but the process   *)
(* may crash at any point. `saving` is the next file to be replaced.          *)
(*                                                                            *)
(* Live swaps, withdrawals and the balance check of a destroy await network   *)
(* replies in the middle of the handler: they are in LiveTrades.              *)
EXTENDS Policy

CONSTANTS
    Agent,          \* agent ids the control plane uses
    NoAgent,        \* the agent of no reply
    Owner, NoOwner, \* committed withdraw addresses
    NotGiven,       \* an optional field left out of a request
    RawPolicies,    \* the policies requests carry
    Intents,        \* the intents agents send
    StartTime,      \* the clock at the start: later than any cooldown
    MaxTime,        \* bound on the clock
    DayOf,          \* the UTC day of each tick
    MaxAddress,     \* bound on the wallets generated
    MaxToken,       \* bound on the sessions opened
    MaxCrash,       \* bound on crashes of the process
    MaxDiskError    \* bound on failed writes

ASSUME SignerAssumption ==
    /\ NoAgent \notin Agent
    /\ NoOwner \notin Owner
    /\ NotGiven \notin RawPolicy /\ NotGiven \notin Rule \cup {NoRule}
    /\ RawPolicies \subseteq RawPolicy
    /\ Intents \subseteq Intent
    /\ StartTime \in Nat /\ MaxTime \in Nat /\ StartTime <= MaxTime
    /\ \A t \in 0..MaxTime : DayOf[t] \in Nat
    /\ \A t, u \in 0..MaxTime : t <= u => DayOf[t] <= DayOf[u]
    /\ MaxAddress \in Nat /\ MaxToken \in Nat
    /\ MaxCrash \in Nat /\ MaxDiskError \in Nat

Address == 1..MaxAddress
Day     == {DayOf[t] : t \in 0..MaxTime}

\* token 0 is "no session": a record's session is null until the first open.
NoSession == [epoch |-> 0, token |-> 0]

\* address 0 is "no such agent".
Record ==
    [address : Nat, owner : Owner \cup {NoOwner}, policy : PolicyType,
     rule : Rule \cup {NoRule}, day : Nat, spent : Nat, lastTrade : Nat,
     session : [epoch : Nat, token : Nat]]

NoRecord ==
    [address |-> 0, owner |-> NoOwner, policy |-> DefaultPolicy,
     rule |-> NoRule, day |-> 0, spent |-> 0, lastTrade |-> 0,
     session |-> NoSession]

\* What the reply under way tells its client.
Reply ==
    [what : {"none", "ok", "wallet", "session", "trade"},
     agent : Agent \cup {NoAgent}, value : Nat, token : Nat]

NoReply == [what |-> "none", agent |-> NoAgent, value |-> 0, token |-> 0]

VARIABLES
    now,
    agents, keys,           \* the maps in memory
    agentsFile, keysFile,   \* agents.json and keys.json
    saving,                 \* "idle", or the file persist() replaces next
    reply,                  \* the reply that leaves when it is done
    minted, issued,         \* keys and tokens generated so far
    crashes, diskErrors,
    torn,                   \* history: a crash fell between the two files
    \* What clients have been told (history):
    wallets,                \* wallets promised and not destroyed since
    granted,                \* sessions handed out
    signed,                 \* value signed per wallet and day
    lastSigned              \* time of the last trade signed per wallet

memory  == <<agents, keys>>
disk    == <<agentsFile, keysFile>>
told    == <<wallets, granted, signed, lastSigned>>
counted == <<minted, issued, crashes, torn, diskErrors>>
vars    == <<now, agents, keys, agentsFile, keysFile, saving, reply,
             minted, issued, crashes, torn, diskErrors,
             wallets, granted, signed, lastSigned>>

TypeOK ==
    /\ now \in StartTime..MaxTime
    /\ agents \in [Agent -> Record]
    /\ keys \in [Agent -> Nat]
    /\ agentsFile \in [Agent -> Record]
    /\ keysFile \in [Agent -> Nat]
    /\ saving \in {"idle", "agents", "keys"}
    /\ reply \in Reply
    /\ minted \in 0..MaxAddress /\ issued \in 0..MaxToken
    /\ crashes \in 0..MaxCrash /\ diskErrors \in 0..MaxDiskError
    /\ torn \in BOOLEAN
    /\ wallets \subseteq [agent : Agent, address : Nat]
    /\ granted \subseteq
          [agent : Agent, address : Nat, epoch : Nat, token : Nat \ {0}]
    /\ signed \in [Address \X Day -> Nat]
    /\ lastSigned \in [Address -> Nat]

Init ==
    /\ now = StartTime
    /\ agents = [a \in Agent |-> NoRecord] /\ agentsFile = agents
    /\ keys = [a \in Agent |-> 0] /\ keysFile = keys
    /\ saving = "idle" /\ reply = NoReply
    /\ minted = 0 /\ issued = 0 /\ crashes = 0 /\ diskErrors = 0
    /\ torn = FALSE
    /\ wallets = {} /\ granted = {}
    /\ signed = [p \in Address \X Day |-> 0]
    /\ lastSigned = [x \in Address |-> 0]

-----------------------------------------------------------------------------
\* The event loop runs the next handler only once the last one has replied.
Serving == saving = "idle"
Exists(a) == agents[a].address # 0
Today == DayOf[now]

\* A plausible bug: persist() replaces keys.json only.
SaveKeysAndReply(what, a, value, token) ==
    /\ saving' = "keys"
    /\ reply' = [what |-> what, agent |-> a, value |-> value, token |-> token]

\* persist(), then the reply.
SaveAndReply(what, a, value, token) ==
    /\ saving' = "agents"
    /\ reply' = [what |-> what, agent |-> a, value |-> value, token |-> token]

Put(a, record) == agents' = [agents EXCEPT ![a] = record]

IfGiven(x, new, old) == IF x = NotGiven THEN old ELSE new

NewRecord(address, raw, rule, o) ==
    [address |-> address, owner |-> o,
     policy |-> IfGiven(raw, NormalizePolicy(raw), DefaultPolicy),
     rule |-> IfGiven(rule, rule, NoRule),
     day |-> Today, spent |-> 0, lastTrade |-> 0, session |-> NoSession]

\* A plausible bug: provisioning an agent again generates a new wallet.
ProvisionAfresh(a, raw, rule, o) ==
    /\ Serving
    /\ minted < MaxAddress
    /\ minted' = minted + 1
    /\ Put(a, NewRecord(minted + 1, raw, rule, o))
    /\ keys' = [keys EXCEPT ![a] = minted + 1]
    /\ SaveAndReply("wallet", a, 0, 0)
    /\ UNCHANGED <<now, disk, told, issued, crashes, torn, diskErrors>>

\* POST /v1/agents: generate the wallet once, later only update its terms.
Provision(a, raw, rule, o) ==
    /\ Serving
    /\ \/ /\ ~Exists(a)
          /\ minted < MaxAddress
          /\ minted' = minted + 1
          /\ Put(a, NewRecord(minted + 1, raw, rule, o))
          /\ keys' = [keys EXCEPT ![a] = minted + 1]
       \/ /\ Exists(a)
          /\ Put(a, [agents[a] EXCEPT
                !.policy = IfGiven(raw, NormalizePolicy(raw), @),
                !.rule = IfGiven(rule, rule, @),
                !.owner = IF o = NoOwner THEN @ ELSE o])
          /\ UNCHANGED <<keys, minted>>
    /\ SaveAndReply("wallet", a, 0, 0)
    /\ UNCHANGED <<now, disk, told, issued, crashes, torn, diskErrors>>

\* PUT /v1/agents/:id/policy: a missing policy normalizes to the default.
SetPolicy(a, raw, rule) ==
    /\ Serving /\ Exists(a)
    /\ Put(a, [agents[a] EXCEPT
          !.policy = IfGiven(raw, NormalizePolicy(raw), DefaultPolicy),
          !.rule = IfGiven(rule, rule, @)])
    /\ SaveAndReply("ok", a, 0, 0)
    /\ UNCHANGED <<now, keys, disk, told, counted>>

\* A plausible bug: a new owner starts without a session, and so from epoch 1.
SetOwnerAnew(a, o) ==
    /\ Serving /\ Exists(a)
    /\ Put(a, [agents[a] EXCEPT !.owner = o, !.session = NoSession])
    /\ SaveAndReply("ok", a, 0, 0)
    /\ UNCHANGED <<now, keys, disk, told, counted>>

\* PUT /v1/agents/:id/owner
SetOwner(a, o) ==
    /\ Serving /\ Exists(a)
    /\ Put(a, [agents[a] EXCEPT !.owner = o])
    /\ SaveAndReply("ok", a, 0, 0)
    /\ UNCHANGED <<now, keys, disk, told, counted>>

NextSession(record) ==
    [epoch |-> record.session.epoch + 1, token |-> issued + 1]

\* POST /v1/agents/:id/session: rotate the session, the fence.
OpenSession(a) ==
    /\ Serving /\ Exists(a)
    /\ issued < MaxToken
    /\ issued' = issued + 1
    /\ Put(a, [agents[a] EXCEPT !.session = NextSession(agents[a])])
    /\ SaveAndReply("session", a, 0, issued + 1)
    /\ UNCHANGED <<now, keys, disk, told, minted, crashes, torn, diskErrors>>

\* DELETE /v1/agents/:id once its balance check passed or was overridden.
Destroy(a) ==
    /\ Serving /\ Exists(a)
    /\ Put(a, NoRecord)
    /\ keys' = [keys EXCEPT ![a] = 0]
    /\ wallets' = {w \in wallets : w.agent # a}
    /\ SaveAndReply("ok", a, 0, 0)
    /\ UNCHANGED <<now, disk, granted, signed, lastSigned, counted>>

-----------------------------------------------------------------------------
\* POST /v1/agents/:id/intent. `g` is the session the caller holds.

\* A plausible bug: any session with the current epoch will do.
HoldsEpoch(record, g) ==
    record.session # NoSession /\ g.epoch = record.session.epoch

HoldsSession(record, g) ==
    /\ record.session # NoSession
    /\ g.epoch = record.session.epoch
    /\ g.token = record.session.token

\* A plausible bug: the rollover clears the budget of the day it is.
SpentBefore(record) == IF record.day = Today THEN 0 ELSE record.spent

\* The day budget as the handler sees it after the rollover.
SpentToday(record) == IF record.day = Today THEN record.spent ELSE 0

\* Everything the handler checks before the caps.
Admitted(record, g, i) ==
    /\ HoldsSession(record, g)
    /\ Justified(record.policy, record.rule, i)
    /\ Permitted(record.policy, i)
    /\ CooledDown(record.policy, record.lastTrade, now)

\* A paper trade is signed and charged in one synchronous step.
PaperTrade(a, g, i) ==
    /\ Serving /\ Exists(a)
    /\ agents[a].policy.paper
    /\ Admitted(agents[a], g, i)
    /\ WithinCaps(agents[a].policy, SpentToday(agents[a]), i.size)
    /\ keys[a] # 0
    /\ Put(a, [agents[a] EXCEPT !.day = Today,
                                !.spent = SpentToday(agents[a]) + i.size,
                                !.lastTrade = now])
    /\ SaveAndReply("trade", a, i.size, g.token)
    /\ UNCHANGED <<now, keys, disk, told, counted>>

\* An intent over the caps is refused, after the day has rolled over in memory;
\* nothing is persisted. So is one whose wallet has no key (unsealing throws).
RefusedTrade(a, g, i) ==
    /\ Serving /\ Exists(a)
    /\ agents[a].policy.paper
    /\ Admitted(agents[a], g, i)
    /\ agents[a].day # Today
    /\ \/ ~WithinCaps(agents[a].policy, 0, i.size)
       \/ keys[a] = 0
    /\ Put(a, [agents[a] EXCEPT !.day = Today, !.spent = 0])
    /\ UNCHANGED <<now, keys, disk, saving, reply, told, counted>>

-----------------------------------------------------------------------------
\* The reply leaves: its client knows of a wallet, holds a session or has a
\* signature.
Answer ==
    LET a == reply.agent
        x == agents[a].address
    IN  /\ reply' = NoReply
        /\ wallets' = IF reply.what = "wallet"
                      THEN wallets \cup {[agent |-> a, address |-> x]}
                      ELSE wallets
        /\ granted' = IF reply.what = "session"
                      THEN granted \cup
                           {[agent |-> a, address |-> x,
                             epoch |-> agents[a].session.epoch,
                             token |-> agents[a].session.token]}
                      ELSE granted
        /\ signed' = IF reply.what = "trade"
                     THEN [signed EXCEPT ![<<x, agents[a].day>>] = @ + reply.value]
                     ELSE signed
        /\ lastSigned' = IF reply.what = "trade"
                         THEN [lastSigned EXCEPT ![x] = agents[a].lastTrade]
                         ELSE lastSigned

WriteAgents ==
    /\ saving = "agents"
    /\ agentsFile' = agents
    /\ saving' = "keys"
    /\ UNCHANGED <<now, memory, keysFile, reply, told, counted>>

WriteKeys ==
    /\ saving = "keys"
    /\ keysFile' = keys
    /\ saving' = "idle"
    /\ Answer
    /\ UNCHANGED <<now, memory, agentsFile, counted>>

\* A write fails: persist() logs it and the reply leaves all the same.
PersistFails ==
    /\ saving \in {"agents", "keys"}
    /\ diskErrors < MaxDiskError
    /\ diskErrors' = diskErrors + 1
    /\ saving' = "idle"
    /\ Answer
    /\ UNCHANGED <<now, memory, disk, minted, issued, crashes, torn>>

\* The process dies and restarts from its two files; the reply is lost.
Crash ==
    /\ crashes < MaxCrash
    /\ crashes' = crashes + 1
    /\ torn' = (torn \/ saving = "keys")
    /\ agents' = agentsFile
    /\ keys' = keysFile
    /\ saving' = "idle"
    /\ reply' = NoReply
    /\ UNCHANGED <<now, disk, told, minted, issued, diskErrors>>

Tick ==
    /\ now < MaxTime
    /\ now' = now + 1
    /\ UNCHANGED <<memory, disk, saving, reply, told, counted>>

-----------------------------------------------------------------------------
Next ==
    \/ \E a \in Agent, raw \in RawPolicies \cup {NotGiven},
          rule \in Rule \cup {NoRule, NotGiven} :
        \/ \E o \in Owner \cup {NoOwner} : Provision(a, raw, rule, o)
        \/ SetPolicy(a, raw, rule)
    \/ \E a \in Agent, o \in Owner : SetOwner(a, o)
    \/ \E a \in Agent : OpenSession(a) \/ Destroy(a)
    \/ \E g \in granted, i \in Intents :
        PaperTrade(g.agent, g, i) \/ RefusedTrade(g.agent, g, i)
    \/ WriteAgents \/ WriteKeys \/ PersistFails \/ Crash
    \/ Tick

Spec == Init /\ [][Next]_vars

-----------------------------------------------------------------------------
\* A save that failed is only logged. Until the signer restarts nothing is lost
\* by it, but a restart goes back to the save before. So much for the promises
\* that follow: they are made as long as no restart meets a failed save.
SavesHeld == diskErrors = 0 \/ crashes = 0

\* The fence: a signature only ever leaves for the newest session handed out
\* for the agent. A holder that was superseded gets none, neither after a
\* restart nor after its wallet was destroyed and the agent provisioned again.
NewestHolderTrades ==
    [][SavesHeld /\ signed' # signed =>
        \A g \in granted : g.agent = reply.agent => g.token <= reply.token]_vars

\* The day budget: with each signature the value signed for the wallet on that
\* day, restarts and policy changes included, is within the policy's day cap.
DailyCapKept ==
    [][\A x \in Address, d \in Day :
        SavesHeld /\ signed'[<<x, d>>] > signed[<<x, d>>] =>
            \E a \in Agent : /\ agents[a].address = x
                             /\ signed'[<<x, d>>] <= agents[a].policy.maxDaily]_vars

\* Two signatures of one wallet are at least the policy's cooldown apart, be
\* there a restart, a new session or a day's end in between.
CooldownKept ==
    [][SavesHeld /\ signed' # signed =>
        LET a == reply.agent
            x == agents[a].address
        IN  lastSigned[x] # 0 =>
                agents[a].lastTrade - lastSigned[x] >= agents[a].policy.cooldown]_vars

\* Sessions of one wallet handed out one after the other have growing epochs,
\* so an epoch names one holder whatever was lost in a crash.
EpochsNameHolders ==
    SavesHeld => \A g, h \in granted :
        g.address = h.address /\ g.token < h.token => g.epoch < h.epoch

\* "The wallet is generated once and never regenerated": an agent that was told
\* its wallet's address keeps that address and that key until it is destroyed.
\* (A crash between the two files may leave an agent whose key was never saved.)
PromisedWalletKept ==
    SavesHeld /\ ~torn =>
        \A w \in wallets : /\ agents[w.agent].address = w.address
                           /\ keys[w.agent] = w.address

-----------------------------------------------------------------------------
(* The inductive invariant behind them: what memory says of an agent is never *)
(* behind what its clients have been told, and as long as no save failed      *)
(* neither is agents.json.                                                    *)

\* The pending reply describes the record in memory, and agents.json holds that
\* record before the reply can leave.
ReplyPending ==
    /\ saving = "idle" <=> reply.what = "none"
    /\ saving # "idle" => reply.agent \in Agent
    /\ saving = "keys" => agentsFile = agents
    /\ reply.what \in {"wallet", "session", "trade"} => Exists(reply.agent)
    /\ reply.what \in {"session", "trade"} =>
          reply.token > 0 /\ agents[reply.agent].session.token = reply.token

\* No two agents share a wallet, in memory or on disk.
HasWallet(a, x) == agents[a].address = x \/ agentsFile[a].address = x

OwnWallet ==
    /\ \A a \in Agent : /\ agents[a].address <= minted
                        /\ agentsFile[a].address <= minted
    /\ \A a, b \in Agent, x \in Address :
          HasWallet(a, x) /\ HasWallet(b, x) => a = b

\* A record's session, if it has one, is at least as new as any handed out.
NotSuperseded(record, g) ==
    record.session.token = 0 \/ g.token <= record.session.token

FenceInv ==
    /\ \A a \in Agent : /\ agents[a].session.token <= issued
                        /\ agentsFile[a].session.token <= issued
    /\ \A g \in granted : g.token <= issued
    /\ SavesHeld => \A g \in granted : NotSuperseded(agents[g.agent], g)
    /\ diskErrors = 0 => \A g \in granted : NotSuperseded(agentsFile[g.agent], g)

\* A record accounts for all that was signed for its wallet.
Accounts(record) ==
    record.address # 0 =>
        /\ record.day \in Day /\ record.day <= Today
        /\ signed[<<record.address, record.day>>] <= record.spent
        /\ \A d \in Day : d > record.day => signed[<<record.address, d>>] = 0

\* Nothing was signed yet for a wallet still to be generated.
UnusedWallets == \A x \in Address, d \in Day : x > minted => signed[<<x, d>>] = 0

BudgetInv ==
    /\ UnusedWallets
    /\ SavesHeld => \A a \in Agent : Accounts(agents[a])
    /\ diskErrors = 0 => \A a \in Agent : Accounts(agentsFile[a])
    /\ SavesHeld /\ reply.what = "trade" =>
          LET r == agents[reply.agent]
          IN  /\ signed[<<r.address, r.day>>] + reply.value <= r.spent
              /\ r.spent <= r.policy.maxDaily

\* A record knows of every session handed out for its wallet, and of its last trade.
Recalls(record) ==
    record.address # 0 =>
        /\ \A g \in granted : g.address = record.address =>
              \/ g.token = record.session.token /\ g.epoch = record.session.epoch
              \/ g.token < record.session.token /\ g.epoch < record.session.epoch
        /\ lastSigned[record.address] <= record.lastTrade

\* The trade whose signature is pending waited for the cooldown.
Cooled(record) ==
    lastSigned[record.address] # 0 =>
        record.lastTrade - lastSigned[record.address] >= record.policy.cooldown

RecallInv ==
    /\ \A g \in granted : g.address \in 1..minted
    /\ \A x \in Address : x > minted => lastSigned[x] = 0
    /\ SavesHeld => \A a \in Agent : Recalls(agents[a])
    /\ diskErrors = 0 => \A a \in Agent : Recalls(agentsFile[a])
    /\ SavesHeld /\ reply.what = "trade" => Cooled(agents[reply.agent])
    /\ EpochsNameHolders

\* Records keep the wallets that were promised, and keys.json has their keys once it
\* follows agents.json.
PromiseInv ==
    /\ \A w \in wallets : w.address # 0
    /\ SavesHeld => \A w \in wallets : agents[w.agent].address = w.address
    /\ diskErrors = 0 => \A w \in wallets : agentsFile[w.agent].address = w.address
    /\ SavesHeld /\ ~torn => \A a \in Agent : keys[a] = agents[a].address
    /\ diskErrors = 0 /\ ~torn /\ saving # "keys" =>
          \A a \in Agent : keysFile[a] = agentsFile[a].address

SignerInv ==
    /\ TypeOK /\ ReplyPending /\ OwnWallet
    /\ FenceInv /\ BudgetInv /\ RecallInv /\ PromiseInv
=============================================================================
