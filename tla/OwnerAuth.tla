----------------------------- MODULE OwnerAuth ------------------------------
(* How the control plane admits an owner's request to create an agent         *)
(* (lib/owner-auth.js, control-plane/server.js): it is fresh, its nonce was   *)
(* not seen, its signature fits, and its owner is within the rate. Nonces and *)
(* rates are kept in memory. Node requests (lib/node-auth.js) are verified in *)
(* the same way.                                                              *)
(*                                                                            *)
(* A request may be delivered more than once and late, and its client's clock *)
(* may be off.                                                                *)
EXTENDS Clock, Sequences, FiniteSets

CONSTANTS
    Request,       \* records [owner, ts, nonce, good]; good: the signature fits
    AuthMaxAge,    \* maxAgeMs (30_000)
    NonceCap,      \* how many nonces there may be before old ones are looked for
    RateWindow,    \* 60_000
    Rate,          \* OWNER_RATE_PER_MIN
    MaxServed,     \* bound on how often one request passes
    MaxCpRestarts  \* bound on restarts

RequestNonce == {m.nonce : m \in Request}
Client == {m.owner : m \in Request}

ASSUME OwnerAuthAssumption ==
    /\ \A m \in Request : m.ts \in Nat /\ m.good \in BOOLEAN
    /\ AuthMaxAge \in Nat \ {0} /\ NonceCap \in Nat
    /\ RateWindow \in Nat /\ Rate \in Nat \ {0}
    /\ MaxServed \in Nat /\ MaxCpRestarts \in Nat

VARIABLES
    expiry,       \* NonceStore: when each nonce it holds expires, else 0
    hits,         \* ownerHits: when each owner's recent creates were let through
    cpRestarts,
    served        \* history: when, and in which life, each request was verified

authVars == <<expiry, hits, cpRestarts, served>>

AuthTypeOK ==
    /\ expiry \in [RequestNonce -> Nat]
    /\ hits \in [Client -> Seq(Time)]
    /\ cpRestarts \in 0..MaxCpRestarts
    /\ served \in [Request -> Seq([at : Time, life : 0..MaxCpRestarts])]

AuthInit ==
    /\ expiry = [n \in RequestNonce |-> 0]
    /\ hits = [o \in Client |-> <<>>]
    /\ cpRestarts = 0
    /\ served = [m \in Request |-> <<>>]

-----------------------------------------------------------------------------
\* has(nonce): an entry whose time has come counts for nothing.
Seen(n) == expiry[n] > now

\* A plausible bug: a store that has grown too large forgets what is current.
Remembered(grown) ==
    IF Cardinality({n \in RequestNonce : grown[n] # 0}) > NonceCap
    THEN [n \in RequestNonce |-> IF grown[n] > now + 1 THEN grown[n] ELSE 0]
    ELSE grown

\* add(nonce): a store that has grown too large forgets what is old.
Pruned(grown) ==
    IF Cardinality({n \in RequestNonce : grown[n] # 0}) > NonceCap
    THEN [n \in RequestNonce |-> IF grown[n] > now THEN grown[n] ELSE 0]
    ELSE grown

FreshRequest(m) == now - m.ts <= AuthMaxAge /\ m.ts - now <= AuthMaxAge

Recent(o) == SelectSeq(hits[o], LAMBDA t : now - t < RateWindow)

\* rateLimitOwner
RateLimited(o) ==
    hits' = IF Len(Recent(o)) >= Rate THEN hits
            ELSE [hits EXCEPT ![o] = Append(Recent(o), now)]

\* verifyOwnerRequest lets the request through, and create goes on to the limit.
\* The nonce is spent before the signature is looked at.
Admit(m) ==
    /\ FreshRequest(m) /\ ~Seen(m.nonce)
    /\ expiry' = Pruned([expiry EXCEPT ![m.nonce] = m.ts + AuthMaxAge])
    /\ \/ /\ m.good
          /\ Len(served[m]) < MaxServed
          /\ served' = [served EXCEPT
                ![m] = Append(@, [at |-> now, life |-> cpRestarts])]
          /\ RateLimited(m.owner)
       \/ /\ ~m.good
          /\ UNCHANGED <<hits, served>>
    /\ UNCHANGED <<now, cpRestarts>>

\* The control plane restarts: nonces and rates are gone.
CpRestart ==
    /\ cpRestarts < MaxCpRestarts
    /\ cpRestarts' = cpRestarts + 1
    /\ expiry' = [n \in RequestNonce |-> 0]
    /\ hits' = [o \in Client |-> <<>>]
    /\ UNCHANGED <<now, served>>

AuthNext ==
    \/ \E m \in Request : Admit(m)
    \/ CpRestart
    \/ Ticks /\ UNCHANGED authVars

AuthSpec == now = 0 /\ AuthInit /\ [][AuthNext]_<<now, authVars>>

-----------------------------------------------------------------------------
\* "A one-time nonce": a signed request passes once, unless the control plane
\* restarted in between or it comes again at the very last instant at which it
\* is fresh, when its nonce is just forgotten.
ServedOnce ==
    \A m \in Request : \A i, j \in DOMAIN served[m] :
        i < j => \/ served[m][i].life < served[m][j].life
                 \/ served[m][j].at = m.ts + AuthMaxAge
=============================================================================
