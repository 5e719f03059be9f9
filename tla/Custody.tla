------------------------------ MODULE Custody -------------------------------
(* Who owns an agent, and where its wallet is. The control plane              *)
(* (control-plane/server.js) and the signer (signer/server.js) each keep a    *)
(* record of an agent; creating, handing over, destroying an agent and        *)
(* withdrawing from it go to the control plane, which calls the signer and    *)
(* awaits the answer before or after changing its own record. Calls time out, *)
(* get lost, and overlap.                                                     *)
(*                                                                            *)
(* A handler keeps the record it read before the await. Records are objects:  *)
(* each creation makes one, and the store maps an id to an object.            *)
(*                                                                            *)
(* What the signer does within one of these calls is Signer's and LiveTrades' *)
(* and Withdraw's subject; here it is one step.                               *)
EXTENDS Integers, FiniteSets

CONSTANTS
    Id, Owner,
    Creates, Transfers, Deletes, Withdrawals, \* requests, each made once
    None,          \* no record, no owner, no id
    MaxFaults      \* bound on calls that are lost or time out

Request == Creates \cup Transfers \cup Deletes \cup Withdrawals

ASSUME CustodyAssumption ==
    /\ None \notin Id \cup Owner \cup Request
    /\ Creates \cap Transfers = {} /\ Creates \cap Deletes = {}
    /\ Creates \cap Withdrawals = {} /\ Transfers \cap Deletes = {}
    /\ Transfers \cap Withdrawals = {} /\ Deletes \cap Withdrawals = {}
    /\ IsFiniteSet(Creates) /\ MaxFaults \in Nat

Wallet == 1..Cardinality(Creates)

\* A handler at the control plane. `by` made the request; `to` is the owner the
\* signer is told; `object` is the record in the handler's hands.
Handler ==
    [phase : {"idle", "awaiting", "done", "failed"},
     id : Id \cup {None}, by : Owner \cup {None}, to : Owner \cup {None},
     object : Creates \cup {None}, force : BOOLEAN]

\* Its call to the signer; "ok" carries the wallet's address.
CallRecord == [status : {"none", "sent", "ok", "refused"}, wallet : {0} \cup Wallet]

VARIABLES
    store,     \* at the control plane: the agents by id
    owner,     \* of each object
    address,   \* of each object; 0 before the signer filled it in
    signer,    \* at the signer: wallet (0: no record) and owner of each agent
    handlers, calls,
    funded,    \* wallets with a balance
    made,      \* wallets generated so far
    faults,
    \* What happened (history):
    paid,      \* who asked for a withdrawal, who was paid, see Unsettled
    crossed,   \* agents handed over while the signer had yet to hear of the last time
    displaced  \* agents a handler came back to and found another record than it had read

vars == <<store, owner, address, signer, handlers, calls, funded, made, faults, paid,
          crossed, displaced>>
cp == <<store, owner, address, crossed, displaced>>

NoHandler ==
    [phase |-> "idle", id |-> None, by |-> None, to |-> None, object |-> None,
     force |-> FALSE]

TypeOK ==
    /\ store \in [Id -> Creates \cup {None}]
    /\ owner \in [Creates -> Owner \cup {None}]
    /\ address \in [Creates -> {0} \cup Wallet]
    /\ signer \in [Id -> [wallet : {0} \cup Wallet, owner : Owner \cup {None}]]
    /\ handlers \in [Request -> Handler]
    /\ calls \in [Request -> CallRecord]
    /\ funded \subseteq 1..made
    /\ made \in {0} \cup Wallet
    /\ paid \subseteq [by : Owner, to : Owner, unsettled : BOOLEAN]
    /\ faults \in 0..MaxFaults
    /\ crossed \subseteq Id /\ displaced \subseteq Id

Init ==
    /\ store = [i \in Id |-> None]
    /\ owner = [x \in Creates |-> None]
    /\ address = [x \in Creates |-> 0]
    /\ signer = [i \in Id |-> [wallet |-> 0, owner |-> None]]
    /\ handlers = [r \in Request |-> NoHandler]
    /\ calls = [r \in Request |-> [status |-> "none", wallet |-> 0]]
    /\ funded = {} /\ made = 0 /\ paid = {} /\ faults = 0
    /\ crossed = {} /\ displaced = {}

-----------------------------------------------------------------------------
Known(i) == store[i] # None

\* The request goes on to the signer.
Asks(r, h) ==
    /\ handlers[r].phase = "idle"
    /\ handlers' = [handlers EXCEPT ![r] = h]
    /\ calls' = [calls EXCEPT ![r].status = "sent"]
    /\ UNCHANGED <<signer, funded, made, paid, faults>>

\* assertOwns
Owns(o, i) == Known(i) /\ owner[store[i]] = o

OnRecord(i, by, to, force) ==
    [phase |-> "awaiting", id |-> i, by |-> by, to |-> to, object |-> store[i],
     force |-> force]

\* POST /v1/agents: an id that newId() or the client chose and that is not in the
\* store.
CreateAsks(r, i, o) ==
    /\ ~Known(i)
    /\ owner' = [owner EXCEPT ![r] = o]
    /\ Asks(r, [OnRecord(i, o, o, FALSE) EXCEPT !.object = r])
    /\ UNCHANGED <<store, address, crossed, displaced>>

\* A hand-over of the agent that the signer has not heard of.
Pending(i) == \E t \in Transfers : handlers[t].id = i /\ calls[t].status = "sent"

\* PUT /v1/agents/:id/owner: the record has its new owner before the signer is
\* told.
TransferAsks(r, i, by, to) ==
    /\ Owns(by, i)
    /\ owner' = [owner EXCEPT ![store[i]] = to]
    /\ Asks(r, OnRecord(i, by, to, FALSE))
    /\ crossed' = IF Pending(i) THEN crossed \cup {i} ELSE crossed
    /\ UNCHANGED <<store, address, displaced>>

\* A plausible bug: the record goes before the signer has agreed.
DeleteAsksLate(r, i, by, force) ==
    /\ Owns(by, i)
    /\ store' = [store EXCEPT ![i] = None]
    /\ Asks(r, OnRecord(i, by, by, force))
    /\ UNCHANGED <<owner, address, crossed, displaced>>

\* DELETE /v1/agents/:id
DeleteAsks(r, i, by, force) ==
    /\ Owns(by, i)
    /\ Asks(r, OnRecord(i, by, by, force))
    /\ UNCHANGED cp

\* A plausible bug: whoever has signed the request may make it.
WithdrawAsksUnowned(r, i, by) ==
    /\ Known(i)
    /\ Asks(r, OnRecord(i, by, by, FALSE))
    /\ UNCHANGED cp

\* POST /v1/agents/:id/withdraw
WithdrawAsks(r, i, by) ==
    /\ Owns(by, i)
    /\ Asks(r, OnRecord(i, by, by, FALSE))
    /\ UNCHANGED cp

-----------------------------------------------------------------------------
(* The signer. It may get to a call after the control plane gave up on it.    *)

Answers(r, status, wallet) ==
    /\ calls[r].status = "sent"
    /\ calls' = [calls EXCEPT ![r] = [status |-> status, wallet |-> wallet]]
    /\ UNCHANGED <<cp, handlers, faults>>

HasRecord(i) == signer[i].wallet # 0

\* A plausible bug: the wallet is handed out and not taken off the list.
SignerKeepsWallet(r) ==
    LET i == handlers[r].id
    IN  /\ Answers(r, "ok", made + 1)
        /\ signer' = [signer EXCEPT ![i] = [wallet |-> made + 1, owner |-> handlers[r].to]]
        /\ UNCHANGED <<made, funded, paid>>

\* Provision: generates a wallet, or takes the one there is.
SignerCreates(r) ==
    LET i == handlers[r].id
        wallet == IF HasRecord(i) THEN signer[i].wallet ELSE made + 1
    IN  /\ calls[r].status = "sent"
        /\ Answers(r, "ok", wallet)
        /\ signer' = [signer EXCEPT ![i] = [wallet |-> wallet, owner |-> handlers[r].to]]
        /\ made' = IF HasRecord(i) THEN made ELSE made + 1
        /\ UNCHANGED <<funded, paid>>

\* A plausible bug: the first owner is kept.
SignerKeepsOwner(r) ==
    /\ Answers(r, "ok", 0)
    /\ HasRecord(handlers[r].id)
    /\ UNCHANGED <<signer, made, funded, paid>>

SignerTransfers(r) ==
    LET i == handlers[r].id
    IN  /\ Answers(r, "ok", 0)
        /\ HasRecord(i)
        /\ signer' = [signer EXCEPT ![i].owner = handlers[r].to]
        /\ UNCHANGED <<made, funded, paid>>

\* A wallet that is not empty is only destroyed by force, and its funds with it.
SignerDeletes(r) ==
    LET i == handlers[r].id
    IN  /\ Answers(r, "ok", 0)
        /\ HasRecord(i)
        /\ handlers[r].force \/ signer[i].wallet \notin funded
        /\ signer' = [signer EXCEPT ![i] = [wallet |-> 0, owner |-> None]]
        /\ funded' = funded \ {signer[i].wallet}
        /\ UNCHANGED <<made, paid>>

\* No id was created twice, by two clients that chose it or after a destroy.
IdsAreFresh ==
    \A q, r \in Creates :
        handlers[q].id = handlers[r].id /\ handlers[q].id # None => q = r

\* A hand-over of the agent has not been through, or it made somebody else its
\* owner; or the id has been used before.
Unsettled(i, by) ==
    \/ ~IdsAreFresh
    \/ \E t \in Transfers :
        handlers[t].id = i /\ (handlers[t].phase # "done" \/ handlers[t].to # by)

\* The balance goes to the owner on file.
SignerWithdraws(r) ==
    LET i == handlers[r].id
    IN  /\ Answers(r, "ok", 0)
        /\ HasRecord(i) /\ signer[i].wallet \in funded
        /\ funded' = funded \ {signer[i].wallet}
        /\ paid' = paid \cup {[by |-> handlers[r].by, to |-> signer[i].owner,
                            unsettled |-> Unsettled(i, handlers[r].by)]}
        /\ UNCHANGED <<signer, made>>

\* 404, 409, or no wallet to take from.
SignerRefuses(r) ==
    LET i == handlers[r].id
    IN  /\ Answers(r, "refused", 0)
        /\ \/ r \notin Creates /\ ~HasRecord(i)
           \/ r \in Deletes /\ ~handlers[r].force /\ signer[i].wallet \in funded
           \/ r \in Withdrawals /\ signer[i].wallet \notin funded
        /\ UNCHANGED <<signer, made, funded, paid>>

-----------------------------------------------------------------------------
(* The control plane again.                                                   *)

Resumes(r, phase) ==
    /\ handlers[r].phase = "awaiting"
    /\ handlers' = [handlers EXCEPT ![r].phase = phase]
    /\ UNCHANGED <<signer, calls, funded, made, paid>>

\* store.putAgent, store.deleteAgent: the record is replaced, whatever it is now.
\* The handler has read `read` before the await.
Stores(r, read, x) ==
    LET i == handlers[r].id
    IN  /\ store' = [store EXCEPT ![i] = x]
        /\ displaced' = IF store[i] = read THEN displaced ELSE displaced \cup {i}

CreateReturns(r) ==
    /\ calls[r].status = "ok"
    /\ Resumes(r, "done")
    /\ address' = [address EXCEPT ![r] = calls[r].wallet]
    /\ Stores(r, None, r)
    /\ UNCHANGED <<owner, crossed, faults>>

TransferReturns(r) ==
    /\ calls[r].status = "ok"
    /\ Resumes(r, "done")
    /\ Stores(r, handlers[r].object, handlers[r].object)
    /\ UNCHANGED <<owner, address, crossed, faults>>

DeleteReturns(r) ==
    /\ calls[r].status = "ok"
    /\ Resumes(r, "done")
    /\ Stores(r, handlers[r].object, None)
    /\ UNCHANGED <<owner, address, crossed, faults>>

WithdrawReturns(r) ==
    /\ calls[r].status = "ok"
    /\ Resumes(r, "done")
    /\ UNCHANGED <<cp, faults>>

\* The signer refused: the request fails, and nothing is undone.
RefusedReturns(r) ==
    /\ calls[r].status = "refused"
    /\ Resumes(r, "failed")
    /\ UNCHANGED <<cp, faults>>

\* The call times out, wherever it is.
TimesOut(r) ==
    /\ faults < MaxFaults
    /\ faults' = faults + 1
    /\ Resumes(r, "failed")
    /\ UNCHANGED cp

\* Somebody funds the wallet whose address a record shows.
Deposit(i) ==
    /\ Known(i)
    /\ address[store[i]] \notin funded
    /\ HasRecord(i) /\ signer[i].wallet = address[store[i]]
    /\ funded' = funded \cup {address[store[i]]}
    /\ UNCHANGED <<cp, signer, handlers, calls, made, paid, faults>>

-----------------------------------------------------------------------------
Arrives ==
    \E i \in Id, by \in Owner :
        \/ \E r \in Creates : CreateAsks(r, i, by)
        \/ \E r \in Transfers, to \in Owner : TransferAsks(r, i, by, to)
        \/ \E r \in Deletes, force \in BOOLEAN : DeleteAsks(r, i, by, force)
        \/ \E r \in Withdrawals : WithdrawAsks(r, i, by)

SignerStep ==
    \/ \E r \in Creates : SignerCreates(r)
    \/ \E r \in Transfers : SignerTransfers(r)
    \/ \E r \in Deletes : SignerDeletes(r)
    \/ \E r \in Withdrawals : SignerWithdraws(r)
    \/ \E r \in Request : SignerRefuses(r)

Returns ==
    \/ \E r \in Creates : CreateReturns(r)
    \/ \E r \in Transfers : TransferReturns(r)
    \/ \E r \in Deletes : DeleteReturns(r)
    \/ \E r \in Withdrawals : WithdrawReturns(r)
    \/ \E r \in Request : RefusedReturns(r) \/ TimesOut(r)

Next == Arrives \/ SignerStep \/ Returns \/ \E i \in Id : Deposit(i)

Spec == Init /\ [][Next]_vars

-----------------------------------------------------------------------------
\* "If it refuses, surface that and DON'T delete the control-plane record": no
\* wallet that holds funds is one the control plane has no record of, so that its
\* owner could not withdraw them, whatever call was lost; unless some handler came
\* back from the signer to another record than it had read, and replaced that.
FundedIsKnown ==
    \A i \in Id \ displaced :
        HasRecord(i) /\ signer[i].wallet \in funded => Known(i)

\* The two records of an agent name the same owner once the signer has heard of its
\* hand-overs, as long as it heard of each before the next and no id was created
\* twice, whatever answer was lost.
OwnersAgree ==
    IdsAreFresh => \A i \in Id \ crossed :
        Known(i) /\ HasRecord(i) /\ ~Pending(i) => owner[store[i]] = signer[i].owner

\* "funds go to the committed owner - only the owner may trigger it": whoever may
\* trigger a withdrawal is the one it is paid to, once every hand-over of the agent
\* is through; one that is under way, or has failed, leaves two owners.
OwnerIsPaid == \A p \in paid : p.by = p.to \/ p.unsettled
==============================================================================
