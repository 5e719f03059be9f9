-------------------------- MODULE VerifiedIntents ---------------------------
(* The signer's decision gate (lib/verified-intent.js) with the store of      *)
(* evidence nonces (signer/server.js): a proposed trade is signed only if the *)
(* owner's rule yields it from inputs that evidence backs, and each piece of  *)
(* evidence counts once. What a refused proposal's evidence spent stays       *)
(* spent. The store is in memory.                                             *)
(*                                                                            *)
(* A value is a number or a text; text v stands for the numeral of v, and for *)
(* a text that is no numeral if v < 0. None is undefined or null.             *)
EXTENDS Clock, Sequences, FiniteSets

CONSTANTS
    None,
    Input,           \* names of inputs
    Rule,            \* the rule on file, as normalizeRule leaves it
    TrustedData, TrustedInference, TrustedNotary,  \* acceptedKeys, acceptedNotaries
    Proposal,        \* what agents submit: [rule, intent, inputs, evidence]
    EvidenceMaxAge,  \* evidenceMaxAgeMs
    Ahead,           \* how far ahead of the signer's a producer's clock may be
    NonceKeep,       \* how long a nonce is surely kept (300000)
    EvidenceCap,     \* how many there may be before old ones are dropped (5000)
    MaxUses,         \* bound on how often one piece of evidence is used
    MaxSignerRestarts

Num(v)  == [num |-> TRUE, v |-> v]
Text(v) == [num |-> FALSE, v |-> v]
NaN == [nan |-> TRUE]
Undefined == Text(-1)

Evidence == UNION {{p.evidence[i] : i \in DOMAIN p.evidence} : p \in Proposal}
EvidenceNonce == {e.nonce : e \in Evidence}

\* Evidence is [kind, by, genuine, says, ts, nonce]: by is the key or notary, says
\* the data, claim, or the verdict as what it says of any input. Producers draw
\* nonces at random.
ASSUME VerifiedIntentsAssumption ==
    /\ \A e \in Evidence : e.ts \in Nat /\ e.genuine \in BOOLEAN
    /\ \A e, f \in Evidence : e.nonce = f.nonce => e = f
    /\ \A p \in Proposal :
          /\ p.evidence \in Seq(Evidence)
          /\ p.intent = [kind |-> p.intent.kind, token |-> p.intent.token,
                         size |-> p.intent.size]
    /\ None \notin Time
    /\ EvidenceMaxAge \in Nat /\ Ahead \in Nat /\ NonceKeep \in Nat
    /\ EvidenceCap \in Nat /\ MaxUses \in Nat /\ MaxSignerRestarts \in Nat

VARIABLES
    added,           \* _vnonce: when each nonce it holds was added, else None
    signerRestarts,
    uses,            \* history: when, and in which life, evidence got a trade signed
    spent            \* history: nonces ever added in this life

gateVars == <<added, signerRestarts, uses, spent>>

Use == [at : Time, life : 0..MaxSignerRestarts]

GateTypeOK ==
    /\ added \in [EvidenceNonce -> Time \cup {None}]
    /\ signerRestarts \in 0..MaxSignerRestarts
    /\ uses \in [EvidenceNonce -> Seq(Use)]
    /\ spent \subseteq EvidenceNonce

GateInit ==
    /\ added = [n \in EvidenceNonce |-> None]
    /\ signerRestarts = 0
    /\ uses = [n \in EvidenceNonce |-> <<>>]
    /\ spent = {}

-----------------------------------------------------------------------------
(* The rule.                                                                  *)

Cmp(a, op, b) ==
    LET numbers == a # None /\ b # None /\ a.num /\ b.num
    IN  CASE op = "==" -> a = b
          [] op = "!=" -> a # b
          [] op = "<"  -> numbers /\ a.v < b.v
          [] op = "<=" -> numbers /\ a.v <= b.v
          [] op = ">"  -> numbers /\ a.v > b.v
          [] op = ">=" -> numbers /\ a.v >= b.v
          [] OTHER -> FALSE

\* String(x) and Number(x)
ToText(x) == IF x = None THEN Undefined ELSE Text(x.v)
ToNum(x)  == IF x = None \/ x.v < 0 THEN NaN ELSE Num(x.v)

\* A part of `then`: given, taken from an input, or left out.
Part(given, input, inputs, Convert(_)) ==
    IF given # None THEN given
    ELSE IF input # None THEN Convert(inputs[input]) ELSE None

\* evaluateRule, when the rule fires
Outcome(inputs) ==
    [kind  |-> Rule.then.kind,
     token |-> Part(Rule.then.token, Rule.then.tokenInput, inputs, ToText),
     size  |-> Part(Rule.then.size, Rule.then.sizeInput, inputs, ToNum)]

Fires(inputs) == \A c \in Rule.when : Cmp(inputs[c.input], c.op, c.value)

\* sameIntent; NaN is not even itself.
SameIntent(x, y) == x = y /\ x.size # NaN

-----------------------------------------------------------------------------
(* Evidence.                                                                  *)

Trusted(e) ==
    CASE e.kind = "signed-quote"      -> e.by \in TrustedData
      [] e.kind = "inference-receipt" -> e.by \in TrustedInference
      [] e.kind = "zktls"             -> e.by \in TrustedNotary
      [] OTHER -> FALSE

\* The signer gives the gate no verifier of zkTLS proofs: the notary's name does.
Authentic(e) == e.kind = "zktls" \/ e.genuine

Stale(e) == now - e.ts > EvidenceMaxAge

Holds(store) == {n \in EvidenceNonce : store[n] # None}

\* A plausible bug: a store that has grown too large is emptied.
DroppedAll(grown) ==
    IF Cardinality(Holds(grown)) > EvidenceCap
    THEN [n \in EvidenceNonce |-> IF grown[n] = now THEN now ELSE None]
    ELSE grown

\* A store that has grown too large drops what it held for longer than NonceKeep.
Dropped(grown) ==
    IF Cardinality(Holds(grown)) > EvidenceCap
    THEN [n \in EvidenceNonce |->
            IF grown[n] # None /\ now - grown[n] > NonceKeep THEN None ELSE grown[n]]
    ELSE grown

\* The store when the first k pieces have been added.
Store(evidence, k) ==
    Dropped([n \in EvidenceNonce |->
        IF \E i \in 1..k : evidence[i].nonce = n THEN now ELSE added[n]])

\* verifyEvidence, for piece i once those before it have passed.
Verified(evidence, i) ==
    LET e == evidence[i]
    IN  /\ Trusted(e) /\ Authentic(e) /\ ~Stale(e)
        /\ (IF i = 1 THEN added ELSE Store(evidence, i - 1))[e.nonce] = None

\* How many pieces pass before the first that does not.
Passed(evidence) ==
    {i \in DOMAIN evidence : \A j \in 1..i : Verified(evidence, j)}

\* A plausible bug: any input will do that evidence speaks of.
Mentioned(evidence, input, value) ==
    \E i \in DOMAIN evidence : evidence[i].says[input] # None

\* evidenceBacks
Backed(evidence, input, value) ==
    \E i \in DOMAIN evidence :
        evidence[i].says[input] # None /\ evidence[i].says[input] = value

-----------------------------------------------------------------------------
(* The gate.                                                                  *)

\* decisionGate
Accepts(p) ==
    /\ p.rule = Rule.id
    /\ Passed(p.evidence) = DOMAIN p.evidence
    /\ \A input \in Rule.requires : Backed(p.evidence, input, p.inputs[input])
    /\ Fires(p.inputs) /\ SameIntent(Outcome(p.inputs), p.intent)

\* The evidence exists by now.
Possible(p) == \A i \in DOMAIN p.evidence : p.evidence[i].ts <= now + Ahead

NoncesOf(p) == {p.evidence[i].nonce : i \in DOMAIN p.evidence}

\* What examining the evidence leaves behind: all that passed is spent.
Examine(p) ==
    LET k == Cardinality(Passed(p.evidence))
    IN  IF p.rule = Rule.id /\ k > 0
        THEN /\ added' = Store(p.evidence, k)
             /\ spent' = spent \cup {p.evidence[i].nonce : i \in 1..k}
        ELSE UNCHANGED <<added, spent>>

\* POST /v1/agents/:id/intent, the gate passed and the policy too.
Sign(p) ==
    /\ Possible(p) /\ Accepts(p)
    /\ \A n \in NoncesOf(p) : Len(uses[n]) < MaxUses
    /\ Examine(p)
    /\ uses' = [n \in EvidenceNonce |->
          IF n \in NoncesOf(p)
          THEN Append(uses[n], [at |-> now, life |-> signerRestarts])
          ELSE uses[n]]
    /\ UNCHANGED <<now, signerRestarts>>

\* The gate rejects it, or the policy does afterwards.
Reject(p) ==
    /\ Possible(p)
    /\ Examine(p)
    /\ UNCHANGED <<now, signerRestarts, uses>>

\* The signer restarts: the nonces are gone.
SignerRestart ==
    /\ signerRestarts < MaxSignerRestarts
    /\ signerRestarts' = signerRestarts + 1
    /\ added' = [n \in EvidenceNonce |-> None]
    /\ spent' = {}
    /\ UNCHANGED <<now, uses>>

GateNext ==
    \/ \E p \in Proposal : Sign(p) \/ Reject(p)
    \/ SignerRestart
    \/ Ticks /\ UNCHANGED gateVars

GateSpec == now = 0 /\ GateInit /\ [][GateNext]_<<now, gateVars>>

-----------------------------------------------------------------------------
\* Whether nonces are kept for as long as their evidence is fresh. The code bounds
\* evidenceMaxAgeMs from below only.
KeptLongEnough == EvidenceMaxAge + Ahead <= NonceKeep

\* "A reused nonce means a host is replaying" (signer/server.js:107): a piece of
\* evidence gets one trade signed, however full the store, unless the signer
\* restarted in between.
EvidenceUsedOnce ==
    KeptLongEnough =>
        \A n \in EvidenceNonce : \A i, j \in DOMAIN uses[n] :
            i < j => uses[n][i].life < uses[n][j].life

\* What the gate is for: the rule is the one on file and yields the trade; every
\* input it requires is what trusted, fresh evidence says; and none of the
\* evidence was ever examined before.
Right(p) ==
    LET then == Rule.then
    IN  /\ p.rule = Rule.id
        /\ \A i, j \in DOMAIN p.evidence :
              p.evidence[i].nonce = p.evidence[j].nonce => i = j
        /\ \A i \in DOMAIN p.evidence :
              /\ Trusted(p.evidence[i]) /\ Authentic(p.evidence[i])
              /\ ~Stale(p.evidence[i])
              /\ p.evidence[i].nonce \notin spent
        /\ \A input \in Rule.requires :
              \E i \in DOMAIN p.evidence :
                  p.inputs[input] # None /\ p.evidence[i].says[input] = p.inputs[input]
        /\ Fires(p.inputs)
        /\ p.intent.kind = then.kind
        /\ \/ p.intent.token = then.token /\ (then.token # None \/ then.tokenInput = None)
           \/ then.token = None /\ then.tokenInput # None
              /\ p.intent.token = ToText(p.inputs[then.tokenInput])
        /\ p.intent.size # NaN
        /\ \/ p.intent.size = then.size /\ (then.size # None \/ then.sizeInput = None)
           \/ then.size = None /\ then.sizeInput # None
              /\ p.intent.size = ToNum(p.inputs[then.sizeInput])

\* The gate accepts what it should and nothing else, whatever it was shown before
\* and whatever its store has dropped.
GateIsRight ==
    KeptLongEnough => \A p \in Proposal : Possible(p) => (Accepts(p) <=> Right(p))
=============================================================================
