--------------------------- MODULE CustodyProofs ---------------------------
(* Theorems about what the control plane keeps: the agents' records and their *)
(* counterparts at the signer (Custody), and the bundles the agents refer to  *)
(* (Bundles); for any agents, requests and bundles, and any number of losses. *)
(*                                                                            *)
(* Records says what handlers, records and calls have to do with each other.  *)
(* On it rest Money, of which FundedIsKnown is a part, and Ownership, from    *)
(* which OwnersAgree and OwnerIsPaid follow.                                  *)
EXTENDS Custody, Bundles, FiniteSetTheorems, TLAPS

-----------------------------------------------------------------------------
(* The handlers, their records and their calls.                               *)

\* A handler has called the signer; it is done when the call went well.
Linked ==
    \A r \in Request :
        /\ handlers[r].phase = "idle" <=> calls[r].status = "none"
        /\ handlers[r].phase = "idle" => handlers[r] = NoHandler
        /\ handlers[r].phase # "idle" =>
              /\ handlers[r].id \in Id /\ handlers[r].by \in Owner
              /\ handlers[r].to \in Owner /\ handlers[r].object \in Creates
        /\ handlers[r].phase = "done" => calls[r].status = "ok"

\* A creation holds the record it makes, whose owner nobody changes before it is in
\* the store; any other request holds one that was in the store under its id.
Holds(r) ==
    LET h == handlers[r]
    IN  IF r \in Creates
        THEN /\ h.object = r /\ h.by = h.to
             /\ h.phase # "done" => owner[r] = h.to
        ELSE handlers[h.object].phase = "done" /\ handlers[h.object].id = h.id

Objects == \A r \in Request : handlers[r].phase # "idle" => Holds(r)

\* A record in the store is that of a creation that is done, under its id.
InStore ==
    \A i \in Id : Known(i) =>
        handlers[store[i]].phase = "done" /\ handlers[store[i]].id = i

\* Wallets are numbered in the order they are made, for creations that went well.
Created == {c \in Creates : calls[c].status = "ok"}

Counted ==
    /\ made \in Nat /\ made <= Cardinality(Created)
    /\ \A i \in Id : signer[i].wallet \in 0..made
    /\ \A r \in Request : calls[r].wallet \in 0..made
    /\ \A x \in Creates : address[x] \in 0..made

\* An agent the signer knows has an owner there.
Owned == \A i \in Id : HasRecord(i) => signer[i].owner \in Owner

Records == TypeOK /\ Linked /\ Objects /\ InStore /\ Counted /\ Owned

LEMMA CreatedFinite ==
    /\ IsFiniteSet(Creates) /\ Cardinality(Creates) \in Nat
    /\ IsFiniteSet(Created) /\ Cardinality(Created) \in Nat
    /\ Cardinality(Created) <= Cardinality(Creates)
  BY CustodyAssumption, FS_Subset, FS_CardinalityType DEF CustodyAssumption, Created

\* As many wallets as were made can be told apart.
LEMMA MadeInRange ==
    ASSUME Counted
    PROVE  made \in {0} \cup Wallet /\ 0..made \subseteq {0} \cup Wallet
  BY CreatedFinite DEF Counted, Wallet

LEMMA InitRecords == Init => Records
<1> SUFFICES ASSUME Init PROVE Records
  OBVIOUS
<1>1. NoHandler \in Handler /\ NoHandler.phase = "idle"
  BY DEF NoHandler, Handler
<1>2. /\ handlers \in [Request -> Handler] /\ \A r \in Request : handlers[r] = NoHandler
      /\ calls \in [Request -> CallRecord]
      /\ \A r \in Request : calls[r].status = "none" /\ calls[r].wallet = 0
  BY <1>1 DEF Init, CallRecord
<1>3. /\ signer \in [Id -> [wallet : {0} \cup Wallet, owner : Owner \cup {None}]]
      /\ \A i \in Id : signer[i].wallet = 0
  BY DEF Init
<1>4. /\ store \in [Id -> Creates \cup {None}] /\ \A i \in Id : store[i] = None
      /\ owner \in [Creates -> Owner \cup {None}]
      /\ address \in [Creates -> {0} \cup Wallet] /\ \A x \in Creates : address[x] = 0
  BY DEF Init
<1>5. faults \in 0..MaxFaults
  BY CustodyAssumption DEF CustodyAssumption, Init
<1>6. made = 0 /\ funded = {} /\ paid = {} /\ crossed = {} /\ displaced = {}
  BY DEF Init
<1>7. TypeOK
  BY <1>2, <1>3, <1>4, <1>5, <1>6 DEF TypeOK
<1>8. Linked /\ Objects /\ InStore /\ Owned
  BY <1>1, <1>2, <1>3, <1>4 DEF Linked, Objects, InStore, Owned, Known, HasRecord
<1>9. Counted
  BY <1>2, <1>3, <1>4, <1>6, CreatedFinite DEF Counted, Request
<1> QED
  BY <1>7, <1>8, <1>9 DEF Records

\* A request that goes on to the signer.
LEMMA AskRecords ==
    ASSUME Records, NEW r \in Request, NEW h \in Handler, Asks(r, h),
           h.phase = "awaiting", h.id \in Id, h.by \in Owner, h.to \in Owner,
           h.object \in Creates, UNCHANGED <<store, address, displaced>>,
           owner' \in [Creates -> Owner \cup {None}], crossed' \subseteq Id,
           \A c \in Creates \ {r} : handlers[c].phase # "done" => owner'[c] = owner[c],
           IF r \in Creates THEN h.object = r /\ h.by = h.to /\ owner'[r] = h.to
           ELSE handlers[h.object].phase = "done" /\ handlers[h.object].id = h.id
    PROVE  Records'
<1>0. TypeOK /\ Linked /\ Objects /\ InStore /\ Counted /\ Owned
  BY DEF Records
<1>1. /\ handlers \in [Request -> Handler] /\ calls \in [Request -> CallRecord]
      /\ \A q \in Request : calls[q] \in CallRecord
  BY <1>0 DEF TypeOK
<1>2. /\ handlers' \in [Request -> Handler] /\ handlers'[r] = h
      /\ \A q \in Request \ {r} : handlers'[q] = handlers[q]
  BY <1>1 DEF Asks
<1>3. /\ calls' \in [Request -> CallRecord] /\ calls'[r].status = "sent"
      /\ calls'[r].wallet = calls[r].wallet
      /\ \A q \in Request \ {r} : calls'[q] = calls[q]
  BY <1>1 DEF Asks, CallRecord
<1>4. /\ handlers[r].phase = "idle" /\ calls[r].status = "none"
      /\ UNCHANGED <<signer, funded, made, paid, faults>>
  BY <1>0 DEF Asks, Linked
<1>5. TypeOK'
  BY <1>0, <1>2, <1>3, <1>4 DEF TypeOK
<1>6. Linked'
  BY <1>0, <1>2, <1>3 DEF Linked
<1>7. Objects'
  <2> SUFFICES ASSUME NEW q \in Request, handlers'[q].phase # "idle" PROVE Holds(q)'
    BY DEF Objects
  <2>1. CASE q = r
    BY <1>0, <1>2, <1>4, <2>1 DEF Holds, Linked, Request
  <2>2. CASE q # r
    <3>1. Holds(q) /\ handlers'[q] = handlers[q] /\ handlers[q].object \in Creates
      BY <1>0, <1>2, <2>2 DEF Objects, Linked
    <3>2. CASE q \in Creates
      BY <2>2, <3>1, <3>2 DEF Holds
    <3>3. CASE q \notin Creates
      <4>1. handlers[q].object # r
        BY <1>4, <3>1, <3>3 DEF Holds
      <4> QED
        BY <1>2, <3>1, <3>3, <4>1 DEF Holds, Request
    <3> QED
      BY <3>2, <3>3
  <2> QED
    BY <2>1, <2>2
<1>8. InStore'
  BY <1>0, <1>2, <1>4 DEF InStore, Known, TypeOK, Request
<1>9. Counted' /\ Owned'
  <2>1. Created' = Created
    BY <1>3, <1>4 DEF Created, Request
  <2> QED
    BY <1>0, <1>3, <1>4, <2>1 DEF Counted, Owned, HasRecord
<1> QED
  BY <1>5, <1>6, <1>7, <1>8, <1>9 DEF Records

\* What the set of creations that went well becomes with an answer.
LEMMA AnswerCounts ==
    ASSUME Records, NEW r \in Request, NEW status, NEW wallet, Answers(r, status, wallet)
    PROVE  /\ r \notin Creates \/ status # "ok" => Created' = Created
           /\ r \in Creates /\ status = "ok" =>
                 Cardinality(Created') = Cardinality(Created) + 1
<1>0. calls \in [Request -> CallRecord]
  BY DEF Records, TypeOK
<1>1. /\ calls[r].status = "sent" /\ calls'[r].status = status
      /\ \A q \in Request \ {r} : calls'[q] = calls[q]
  BY <1>0 DEF Answers
<1>2. r \notin Creates \/ status # "ok" => Created' = Created
  BY <1>1 DEF Created, Request
<1>3. ASSUME r \in Creates, status = "ok"
      PROVE  Cardinality(Created') = Cardinality(Created) + 1
  <2>1. Created' = Created \cup {r} /\ r \notin Created
    BY <1>1, <1>3 DEF Created, Request
  <2> QED
    BY <2>1, CreatedFinite, FS_AddElement
<1> QED
  BY <1>2, <1>3

\* The signer answers a call.
LEMMA AnswerRecords ==
    ASSUME Records, NEW r \in Request, NEW status \in {"ok", "refused"}, NEW wallet,
           Answers(r, status, wallet), wallet \in 0..made',
           made' \in Nat, made <= made', made' <= Cardinality(Created'),
           signer' \in [Id -> [wallet : 0..made', owner : Owner \cup {None}]],
           Owned', funded' \subseteq 1..made',
           paid' \subseteq [by : Owner, to : Owner, unsettled : BOOLEAN]
    PROVE  Records'
<1>0. TypeOK /\ Linked /\ Objects /\ InStore /\ Counted /\ Owned
  BY DEF Records
<1>1. /\ calls \in [Request -> CallRecord] /\ calls[r].status = "sent"
      /\ calls'[r] = [status |-> status, wallet |-> wallet]
      /\ \A q \in Request \ {r} : calls'[q] = calls[q]
      /\ calls' = [calls EXCEPT ![r] = [status |-> status, wallet |-> wallet]]
      /\ UNCHANGED <<cp, handlers, faults>>
  BY <1>0 DEF Answers, TypeOK
<1>2. UNCHANGED <<store, owner, address, crossed, displaced, handlers, faults>>
  BY <1>1 DEF cp
<1>3. \A q \in Request : calls'[q].wallet \in 0..made'
  BY <1>0, <1>1 DEF Counted
<1>4. Counted'
  BY <1>0, <1>2, <1>3 DEF Counted
<1>5. made' \in {0} \cup Wallet /\ 0..made' \subseteq {0} \cup Wallet
  <2>1. Cardinality(Created') \in Nat /\ Cardinality(Created') <= Cardinality(Creates)
    BY CreatedFinite, FS_Subset, FS_CardinalityType DEF CustodyAssumption, Created
  <2> QED
    BY <2>1, CreatedFinite DEF Wallet
<1>6. TypeOK'
  <2>1. [status |-> status, wallet |-> wallet] \in CallRecord
    BY <1>5 DEF CallRecord
  <2>2. calls' \in [Request -> CallRecord]
    BY <1>1, <2>1
  <2>3. signer' \in [Id -> [wallet : {0} \cup Wallet, owner : Owner \cup {None}]]
    BY <1>5
  <2> QED
    BY <1>0, <1>2, <1>5, <2>2, <2>3 DEF TypeOK
<1>7. Linked'
  BY <1>0, <1>1, <1>2 DEF Linked
<1>8. Objects' /\ InStore'
  BY <1>0, <1>2 DEF Objects, Holds, InStore, Known
<1> QED
  BY <1>4, <1>6, <1>7, <1>8 DEF Records

\* A handler comes back from the signer.
LEMMA ResumeRecords ==
    ASSUME Records, NEW r \in Request, NEW phase \in {"done", "failed"}, Resumes(r, phase),
           phase = "done" => calls[r].status = "ok",
           owner' = owner, crossed' = crossed, faults' \in 0..MaxFaults,
           address' \in [Creates -> 0..made],
           store' \in [Id -> Creates \cup {None}], displaced' \subseteq Id,
           \A i \in Id : Known(i)' =>
               \/ store'[i] = store[i]
               \/ handlers[store'[i]].phase = "done" /\ handlers[store'[i]].id = i
               \/ phase = "done" /\ store'[i] = r /\ handlers[r].id = i
    PROVE  Records'
<1>0. TypeOK /\ Linked /\ Objects /\ InStore /\ Counted /\ Owned
  BY DEF Records
<1>1. /\ handlers \in [Request -> Handler] /\ handlers[r].phase = "awaiting"
      /\ handlers' = [handlers EXCEPT ![r].phase = phase]
      /\ UNCHANGED <<signer, calls, funded, made, paid>>
  BY <1>0 DEF Resumes, TypeOK
<1>2. /\ handlers'[r].phase = phase
      /\ \A q \in Request : /\ handlers'[q].id = handlers[q].id
                            /\ handlers'[q].by = handlers[q].by
                            /\ handlers'[q].to = handlers[q].to
                            /\ handlers'[q].object = handlers[q].object
      /\ \A q \in Request \ {r} : handlers'[q] = handlers[q]
      /\ handlers' \in [Request -> Handler]
  BY <1>1 DEF Handler
<1>3. \A q \in Request : handlers[q].phase = "done" => handlers'[q].phase = "done"
  BY <1>1, <1>2
<1>4. 0..made \subseteq {0} \cup Wallet
  BY <1>0, MadeInRange
<1>5. TypeOK'
  BY <1>0, <1>1, <1>2, <1>4 DEF TypeOK
<1>6. Linked'
  BY <1>0, <1>1, <1>2 DEF Linked
<1>7. Objects'
  <2> SUFFICES ASSUME NEW q \in Request, handlers'[q].phase # "idle" PROVE Holds(q)'
    BY DEF Objects
  <2>1. Holds(q) /\ handlers[q].object \in Creates
    BY <1>0, <1>1, <1>2 DEF Objects, Linked
  <2>2. CASE q \in Creates
    BY <1>1, <1>2, <1>3, <2>1, <2>2 DEF Holds
  <2>3. CASE q \notin Creates
    BY <1>2, <1>3, <2>1, <2>3 DEF Holds, Request
  <2> QED
    BY <2>2, <2>3
<1>8. InStore'
  <2> SUFFICES ASSUME NEW i \in Id, Known(i)'
               PROVE  handlers'[store'[i]].phase = "done" /\ handlers'[store'[i]].id = i
    BY DEF InStore
  <2>1. store'[i] \in Request
    BY DEF Known, Request
  <2>2. CASE store'[i] = store[i]
    BY <1>0, <1>2, <1>3, <2>1, <2>2 DEF InStore, Known
  <2>3. CASE handlers[store'[i]].phase = "done" /\ handlers[store'[i]].id = i
    BY <1>2, <1>3, <2>1, <2>3
  <2>4. CASE phase = "done" /\ store'[i] = r /\ handlers[r].id = i
    BY <1>2, <2>4
  <2> QED
    BY <2>2, <2>3, <2>4
<1>9. Counted' /\ Owned'
  <2>1. Created' = Created
    BY <1>1 DEF Created
  <2> QED
    BY <1>0, <1>1, <2>1 DEF Counted, Owned, HasRecord
<1> QED
  BY <1>5, <1>6, <1>7, <1>8, <1>9 DEF Records

LEMMA ArrivesRecords == ASSUME Records, Arrives PROVE Records'
<1>0. TypeOK /\ owner \in [Creates -> Owner \cup {None}] /\ crossed \subseteq Id
  BY DEF Records, TypeOK
<1>d. \A r \in Transfers \cup Deletes \cup Withdrawals : r \notin Creates
  BY CustodyAssumption DEF CustodyAssumption
<1>1. ASSUME NEW i \in Id, NEW by \in Owner, NEW r \in Creates, CreateAsks(r, i, by)
      PROVE  Records'
  <2> DEFINE h == [OnRecord(i, by, by, FALSE) EXCEPT !.object = r]
  <2>1. /\ h \in Handler /\ h.phase = "awaiting" /\ h.id = i /\ h.by = by /\ h.to = by
        /\ h.object = r
    BY DEF OnRecord, Handler
  <2>2. /\ owner' = [owner EXCEPT ![r] = by] /\ Asks(r, h)
        /\ UNCHANGED <<store, address, crossed, displaced>>
    BY <1>1 DEF CreateAsks
  <2> HIDE DEF h
  <2> QED
    BY <1>0, <2>1, <2>2, AskRecords DEF Request
<1>2. ASSUME NEW i \in Id, NEW by \in Owner, NEW r \in Transfers, NEW to \in Owner,
             TransferAsks(r, i, by, to)
      PROVE  Records'
  <2> DEFINE h == OnRecord(i, by, to, FALSE)
  <2>1. /\ Known(i) /\ owner' = [owner EXCEPT ![store[i]] = to] /\ Asks(r, h)
        /\ crossed' \subseteq Id /\ UNCHANGED <<store, address, displaced>>
    BY <1>0, <1>2 DEF TransferAsks, Owns
  <2>0. /\ store[i] \in Creates
        /\ handlers[store[i]].phase = "done" /\ handlers[store[i]].id = i
    BY <1>0, <2>1 DEF Records, TypeOK, InStore, Known
  <2>2. /\ h \in Handler /\ h.phase = "awaiting" /\ h.id = i /\ h.by = by /\ h.to = to
        /\ h.object = store[i]
    BY <2>0 DEF OnRecord, Handler
  <2>3. /\ owner' \in [Creates -> Owner \cup {None}]
        /\ \A c \in Creates \ {r} : handlers[c].phase # "done" => owner'[c] = owner[c]
    BY <1>0, <2>0, <2>1
  <2> HIDE DEF h
  <2> QED
    BY <1>d, <2>0, <2>1, <2>2, <2>3, AskRecords DEF Request
<1>3. ASSUME NEW i \in Id, NEW by \in Owner, NEW r \in Deletes \cup Withdrawals,
             NEW force \in BOOLEAN, Known(i), Asks(r, OnRecord(i, by, by, force)),
             UNCHANGED cp
      PROVE  Records'
  <2> DEFINE h == OnRecord(i, by, by, force)
  <2>1. Known(i) /\ Asks(r, h) /\ UNCHANGED <<store, owner, address, crossed, displaced>>
    BY <1>3 DEF cp
  <2>0. /\ store[i] \in Creates
        /\ handlers[store[i]].phase = "done" /\ handlers[store[i]].id = i
    BY <1>0, <2>1 DEF Records, TypeOK, InStore, Known
  <2>2. /\ h \in Handler /\ h.phase = "awaiting" /\ h.id = i /\ h.by = by /\ h.to = by
        /\ h.object = store[i]
    BY <2>0 DEF OnRecord, Handler
  <2> HIDE DEF h
  <2> QED
    BY <1>0, <1>d, <2>0, <2>1, <2>2, AskRecords DEF Request
<1>4. ASSUME NEW i \in Id, NEW by \in Owner, NEW r \in Deletes, NEW force \in BOOLEAN,
             DeleteAsks(r, i, by, force)
      PROVE  Records'
  BY <1>3, <1>4 DEF DeleteAsks, Owns
<1>5. ASSUME NEW i \in Id, NEW by \in Owner, NEW r \in Withdrawals, WithdrawAsks(r, i, by)
      PROVE  Records'
  BY <1>3, <1>5 DEF WithdrawAsks, Owns
<1> QED
  BY <1>1, <1>2, <1>4, <1>5 DEF Arrives

\* Whom a call is about, while the signer has it.
LEMMA SentFacts ==
    ASSUME Records, NEW r \in Request, calls[r].status = "sent"
    PROVE  /\ handlers[r].id \in Id /\ handlers[r].by \in Owner /\ handlers[r].to \in Owner
           /\ handlers[r].object \in Creates
           /\ handlers[r].phase \in {"awaiting", "failed"} /\ Holds(r)
<1>1. handlers[r] \in Handler
  BY DEF Records, TypeOK
<1>2. handlers[r].phase \in {"idle", "awaiting", "done", "failed"}
  BY <1>1 DEF Handler
<1> QED
  BY <1>2 DEF Records, Linked, Objects

\* The signer's records, where they stay as they are.
LEMMA SignerSame ==
    ASSUME Records
    PROVE  /\ signer \in [Id -> [wallet : 0..made, owner : Owner \cup {None}]]
           /\ Owned /\ funded \subseteq 1..made
           /\ paid \subseteq [by : Owner, to : Owner, unsettled : BOOLEAN]
           /\ made \in Nat /\ made <= Cardinality(Created) /\ Cardinality(Created) \in Nat
<1>1. /\ signer \in [Id -> [wallet : {0} \cup Wallet, owner : Owner \cup {None}]]
      /\ \A i \in Id : signer[i].wallet \in 0..made
  BY DEF Records, TypeOK, Counted
<1>2. \A i \in Id : signer[i] \in [wallet : 0..made, owner : Owner \cup {None}]
  BY <1>1
<1> QED
  BY <1>1, <1>2, CreatedFinite DEF Records, TypeOK, Counted

LEMMA SignerRecords == ASSUME Records, SignerStep PROVE Records'
<1>d. \A r \in Transfers \cup Deletes \cup Withdrawals : r \notin Creates
  BY CustodyAssumption DEF CustodyAssumption
<1>1. ASSUME NEW r \in Creates, SignerCreates(r) PROVE Records'
  <2> DEFINE i == handlers[r].id
             w == IF HasRecord(i) THEN signer[i].wallet ELSE made + 1
  <2>0. r \in Request /\ calls[r].status = "sent"
    BY <1>1 DEF SignerCreates, Request
  <2>1. i \in Id /\ handlers[r].to \in Owner
    BY <2>0, SentFacts
  <2>2. /\ Answers(r, "ok", w)
        /\ signer' = [signer EXCEPT ![i] = [wallet |-> w, owner |-> handlers[r].to]]
        /\ made' = IF HasRecord(i) THEN made ELSE made + 1
        /\ UNCHANGED <<funded, paid>>
    BY <1>1 DEF SignerCreates
  <2>3. Cardinality(Created') = Cardinality(Created) + 1
    BY <2>0, <2>2, AnswerCounts
  <2>4. /\ made' \in Nat /\ made <= made' /\ made' <= Cardinality(Created')
        /\ w \in 0..made' /\ w # 0
    BY <2>1, <2>2, <2>3, SignerSame DEF HasRecord
  <2> HIDE DEF i, w
  <2>5. signer' \in [Id -> [wallet : 0..made', owner : Owner \cup {None}]]
    BY <2>1, <2>2, <2>4, SignerSame
  <2>6. Owned'
    BY <2>1, <2>2, SignerSame DEF Owned, HasRecord
  <2>7. funded' \subseteq 1..made' /\ paid' \subseteq [by : Owner, to : Owner, unsettled : BOOLEAN]
    BY <2>2, <2>4, SignerSame
  <2> QED
    BY <2>0, <2>2, <2>4, <2>5, <2>6, <2>7, AnswerRecords
<1>2. ASSUME NEW r \in Transfers, SignerTransfers(r) PROVE Records'
  <2> DEFINE i == handlers[r].id
  <2>1. /\ r \in Request /\ r \notin Creates /\ Answers(r, "ok", 0)
        /\ signer' = [signer EXCEPT ![i].owner = handlers[r].to]
        /\ UNCHANGED <<made, funded, paid>>
    BY <1>d, <1>2 DEF SignerTransfers, Request
  <2>2. i \in Id /\ handlers[r].to \in Owner
    BY <2>1, SentFacts DEF Answers
  <2>3. Created' = Created
    BY <2>1, AnswerCounts
  <2> HIDE DEF i
  <2>4. signer' \in [Id -> [wallet : 0..made', owner : Owner \cup {None}]] /\ Owned'
    BY <2>1, <2>2, SignerSame DEF Owned, HasRecord
  <2> QED
    BY <2>1, <2>3, <2>4, SignerSame, AnswerRecords
<1>3. ASSUME NEW r \in Deletes, SignerDeletes(r) PROVE Records'
  <2> DEFINE i == handlers[r].id
  <2>1. /\ r \in Request /\ r \notin Creates /\ Answers(r, "ok", 0)
        /\ signer' = [signer EXCEPT ![i] = [wallet |-> 0, owner |-> None]]
        /\ funded' = funded \ {signer[i].wallet}
        /\ UNCHANGED <<made, paid>>
    BY <1>d, <1>3 DEF SignerDeletes, Request
  <2>2. Created' = Created
    BY <2>1, AnswerCounts
  <2>3. i \in Id
    BY <2>1, SentFacts DEF Answers
  <2> HIDE DEF i
  <2>4. signer' \in [Id -> [wallet : 0..made', owner : Owner \cup {None}]] /\ Owned'
    BY <2>1, <2>3, SignerSame DEF Owned, HasRecord
  <2>5. funded' \subseteq 1..made'
    BY <2>1, SignerSame
  <2> QED
    BY <2>1, <2>2, <2>4, <2>5, SignerSame, AnswerRecords
<1>4. ASSUME NEW r \in Withdrawals, SignerWithdraws(r) PROVE Records'
  <2> DEFINE i == handlers[r].id
             p == [by |-> handlers[r].by, to |-> signer[i].owner,
                   unsettled |-> Unsettled(i, handlers[r].by)]
  <2>1. /\ r \in Request /\ r \notin Creates /\ Answers(r, "ok", 0) /\ HasRecord(i)
        /\ funded' = funded \ {signer[i].wallet} /\ paid' = paid \cup {p}
        /\ UNCHANGED <<signer, made>>
    BY <1>d, <1>4 DEF SignerWithdraws, Request
  <2>2. Created' = Created
    BY <2>1, AnswerCounts
  <2>3. i \in Id /\ handlers[r].by \in Owner
    BY <2>1, SentFacts DEF Answers
  <2>4. signer[i].owner \in Owner /\ Unsettled(i, handlers[r].by) \in BOOLEAN
    BY <2>1, <2>3, SignerSame DEF Owned, Unsettled
  <2>5. p \in [by : Owner, to : Owner, unsettled : BOOLEAN]
    BY <2>3, <2>4
  <2> HIDE DEF i, p
  <2>6. /\ signer' \in [Id -> [wallet : 0..made', owner : Owner \cup {None}]] /\ Owned'
        /\ funded' \subseteq 1..made'
        /\ paid' \subseteq [by : Owner, to : Owner, unsettled : BOOLEAN]
    BY <2>1, <2>5, SignerSame DEF Owned, HasRecord
  <2> QED
    BY <2>1, <2>2, <2>6, SignerSame, AnswerRecords
<1>5. ASSUME NEW r \in Request, SignerRefuses(r) PROVE Records'
  <2>1. Answers(r, "refused", 0) /\ UNCHANGED <<signer, made, funded, paid>>
    BY <1>5 DEF SignerRefuses
  <2>2. Created' = Created
    BY <2>1, AnswerCounts
  <2>3. Owned'
    BY <2>1, SignerSame DEF Owned, HasRecord
  <2> QED
    BY <2>1, <2>2, <2>3, SignerSame, AnswerRecords
<1> QED
  BY <1>1, <1>2, <1>3, <1>4, <1>5 DEF SignerStep

LEMMA ReturnsRecords == ASSUME Records, Returns PROVE Records'
<1>0. /\ TypeOK /\ store \in [Id -> Creates \cup {None}] /\ displaced \subseteq Id
      /\ faults \in 0..MaxFaults /\ address \in [Creates -> 0..made]
  BY DEF Records, TypeOK, Counted
<1>d. \A r \in Transfers \cup Deletes \cup Withdrawals : r \notin Creates
  BY CustodyAssumption DEF CustodyAssumption
<1>h. ASSUME NEW r \in Request, handlers[r].phase = "awaiting"
      PROVE  handlers[r].id \in Id /\ handlers[r].object \in Creates /\ Holds(r)
  BY <1>h DEF Records, Linked, Objects
<1>1. ASSUME NEW r \in Creates, CreateReturns(r) PROVE Records'
  <2> DEFINE i == handlers[r].id
  <2>1. /\ r \in Request /\ calls[r].status = "ok" /\ Resumes(r, "done")
        /\ address' = [address EXCEPT ![r] = calls[r].wallet]
        /\ store' = [store EXCEPT ![i] = r]
        /\ displaced' = (IF store[i] = None THEN displaced ELSE displaced \cup {i})
        /\ UNCHANGED <<owner, crossed, faults>>
    BY <1>1 DEF CreateReturns, Stores, Request
  <2>2. i \in Id
    BY <1>h, <2>1 DEF Resumes
  <2>3. address' \in [Creates -> 0..made]
    BY <1>0, <2>1 DEF Records, Counted
  <2>4. /\ store' \in [Id -> Creates \cup {None}] /\ displaced' \subseteq Id
        /\ \A j \in Id : store'[j] = store[j] \/ (store'[j] = r /\ handlers[r].id = j)
    BY <1>0, <2>1, <2>2
  <2> QED
    BY <1>0, <2>1, <2>3, <2>4, ResumeRecords
<1>2. ASSUME NEW r \in Transfers, TransferReturns(r) PROVE Records'
  <2> DEFINE i == handlers[r].id
             x == handlers[r].object
  <2>1. /\ r \in Request /\ calls[r].status = "ok" /\ Resumes(r, "done")
        /\ store' = [store EXCEPT ![i] = x]
        /\ displaced' = (IF store[i] = x THEN displaced ELSE displaced \cup {i})
        /\ UNCHANGED <<owner, address, crossed, faults>>
    BY <1>2 DEF TransferReturns, Stores, Request
  <2>2. /\ i \in Id /\ x \in Creates
        /\ handlers[x].phase = "done" /\ handlers[x].id = i
    BY <1>d, <1>h, <2>1 DEF Resumes, Holds
  <2>4. /\ store' \in [Id -> Creates \cup {None}] /\ displaced' \subseteq Id
        /\ \A j \in Id : \/ store'[j] = store[j]
                         \/ handlers[store'[j]].phase = "done" /\ handlers[store'[j]].id = j
    BY <1>0, <2>1, <2>2
  <2> QED
    BY <1>0, <2>1, <2>4, ResumeRecords
<1>3. ASSUME NEW r \in Deletes, DeleteReturns(r) PROVE Records'
  <2> DEFINE i == handlers[r].id
  <2>1. /\ r \in Request /\ calls[r].status = "ok" /\ Resumes(r, "done")
        /\ store' = [store EXCEPT ![i] = None]
        /\ (displaced' = displaced \/ displaced' = displaced \cup {i})
        /\ UNCHANGED <<owner, address, crossed, faults>>
    BY <1>3 DEF DeleteReturns, Stores, Request
  <2>2. i \in Id
    BY <1>h, <2>1 DEF Resumes
  <2>4. /\ store' \in [Id -> Creates \cup {None}] /\ displaced' \subseteq Id
        /\ \A j \in Id : Known(j)' => store'[j] = store[j]
    BY <1>0, <2>1, <2>2 DEF Known
  <2> QED
    BY <1>0, <2>1, <2>4, ResumeRecords
<1>4. ASSUME NEW r \in Request, NEW phase \in {"done", "failed"}, Resumes(r, phase),
             phase = "done" => calls[r].status = "ok", UNCHANGED cp,
             faults' \in 0..MaxFaults
      PROVE  Records'
  BY <1>0, <1>4, ResumeRecords DEF cp
<1>5. ASSUME NEW r \in Withdrawals, WithdrawReturns(r) PROVE Records'
  BY <1>0, <1>4, <1>5 DEF WithdrawReturns, Request
<1>6. ASSUME NEW r \in Request, RefusedReturns(r) PROVE Records'
  BY <1>0, <1>4, <1>6 DEF RefusedReturns
<1>7. ASSUME NEW r \in Request, TimesOut(r) PROVE Records'
  <2>1. faults' \in 0..MaxFaults
    BY <1>0, <1>7, CustodyAssumption DEF CustodyAssumption, TimesOut
  <2> QED
    BY <1>4, <1>7, <2>1 DEF TimesOut
<1> QED
  BY <1>1, <1>2, <1>3, <1>5, <1>6, <1>7 DEF Returns

LEMMA DepositRecords == ASSUME Records, NEW i \in Id, Deposit(i) PROVE Records'
<1>1. /\ UNCHANGED <<store, owner, address, crossed, displaced>>
      /\ UNCHANGED <<signer, handlers, calls, made, paid, faults>>
      /\ funded' = funded \cup {signer[i].wallet} /\ signer[i].wallet # 0
  BY DEF Deposit, cp, HasRecord
<1>2. signer[i].wallet \in 1..made
  BY <1>1 DEF Records, Counted
<1>3. TypeOK'
  BY <1>1, <1>2 DEF Records, TypeOK
<1>4. Linked' /\ Objects' /\ InStore' /\ Owned'
  BY <1>1 DEF Records, Linked, Objects, Holds, InStore, Known, Owned, HasRecord
<1>5. Counted'
  BY <1>1 DEF Records, Counted, Created
<1> QED
  BY <1>3, <1>4, <1>5 DEF Records

LEMMA NextRecords == Records /\ [Next]_vars => Records'
<1> SUFFICES ASSUME Records, [Next]_vars PROVE Records'
  OBVIOUS
<1>1. CASE UNCHANGED vars
  BY <1>1
  DEF vars, Records, TypeOK, Linked, Objects, Holds, InStore, Known, Counted, Created,
      Owned, HasRecord
<1> QED
  BY <1>1, ArrivesRecords, SignerRecords, ReturnsRecords, DepositRecords DEF Next

-----------------------------------------------------------------------------
(* Funds.                                                                     *)

\* No two agents have the same wallet.
Apart ==
    \A i, j \in Id : HasRecord(i) /\ HasRecord(j) /\ i # j =>
        signer[i].wallet # signer[j].wallet

\* A wallet that holds funds is the one the record shows.
Shown ==
    \A i \in Id \ displaced :
        Known(i) /\ HasRecord(i) /\ signer[i].wallet \in funded =>
            signer[i].wallet = address[store[i]]

\* Where the signer has destroyed an agent, it does not have the wallet that the
\* handler's record shows; it may have another, of a later creation.
Destroyed ==
    \A r \in Deletes : calls[r].status = "ok" /\ HasRecord(handlers[r].id) =>
        signer[handlers[r].id].wallet # address[handlers[r].object]

Money == Apart /\ Shown /\ Destroyed /\ FundedIsKnown

LEMMA InitMoney == Init => Money
  BY DEF Init, Money, Apart, Shown, Destroyed, FundedIsKnown, HasRecord, Known, Request

\* Nothing changes for the funds where neither signer nor store does.
LEMMA SameMoney ==
    ASSUME Records, Money, UNCHANGED <<signer, funded, store, address, displaced>>,
           \A r \in Deletes : calls'[r].status = "ok" =>
               calls[r].status = "ok" /\ handlers'[r].id = handlers[r].id
                   /\ handlers'[r].object = handlers[r].object
    PROVE  Money'
  BY DEF Money, Apart, Shown, Destroyed, FundedIsKnown, HasRecord, Known

LEMMA ArrivesMoney == ASSUME Records, Money, Arrives PROVE Money'
<1>0. TypeOK
  BY DEF Records
<1>1. ASSUME NEW r \in Request, NEW h, Asks(r, h), UNCHANGED <<store, address, displaced>>
      PROVE  Money'
  <2>1. UNCHANGED <<signer, funded, store, address, displaced>>
    BY <1>1 DEF Asks
  <2>2. \A q \in Deletes : calls'[q].status = "ok" =>
            calls[q].status = "ok" /\ handlers'[q] = handlers[q]
    BY <1>0, <1>1 DEF Asks, TypeOK, CallRecord, Request
  <2> QED
    BY <2>1, <2>2, SameMoney
<1>2. ASSUME NEW i \in Id, NEW by \in Owner, NEW r \in Creates, CreateAsks(r, i, by)
      PROVE  Money'
  BY <1>1, <1>2 DEF CreateAsks, Request
<1>3. ASSUME NEW i \in Id, NEW by \in Owner, NEW r \in Transfers, NEW to \in Owner,
             TransferAsks(r, i, by, to)
      PROVE  Money'
  BY <1>1, <1>3 DEF TransferAsks, Request
<1>4. ASSUME NEW i \in Id, NEW by \in Owner, NEW r \in Deletes, NEW force \in BOOLEAN,
             DeleteAsks(r, i, by, force)
      PROVE  Money'
  BY <1>1, <1>4 DEF DeleteAsks, cp, Request
<1>5. ASSUME NEW i \in Id, NEW by \in Owner, NEW r \in Withdrawals, WithdrawAsks(r, i, by)
      PROVE  Money'
  BY <1>1, <1>5 DEF WithdrawAsks, cp, Request
<1> QED
  BY <1>2, <1>3, <1>4, <1>5 DEF Arrives

\* A delete that went well has a handler, and its object is in nobody's hands.
LEMMA DeleteFacts ==
    ASSUME Records, NEW r \in Deletes, calls[r].status = "ok"
    PROVE  /\ r \in Request /\ handlers[r].id \in Id /\ handlers[r].object \in Creates
           /\ handlers[handlers[r].object].phase = "done"
<1>1. r \in Request /\ r \notin Creates /\ handlers[r].phase # "idle"
  BY CustodyAssumption DEF CustodyAssumption, Records, Linked, Request
<1> QED
  BY <1>1 DEF Records, Linked, Objects, Holds

LEMMA SignerMoney == ASSUME Records, Money, SignerStep PROVE Money'
<1>d. \A r \in Creates \cup Transfers \cup Withdrawals : r \notin Deletes
  BY CustodyAssumption DEF CustodyAssumption
<1>0. /\ Apart /\ Shown /\ Destroyed /\ FundedIsKnown
      /\ \A i \in Id : signer[i].wallet \in 0..made
      /\ \A x \in Creates : address[x] \in 0..made
      /\ made \in Nat /\ funded \subseteq 1..made
      /\ calls \in [Request -> CallRecord]
      /\ signer \in [Id -> [wallet : 0..made, owner : Owner \cup {None}]]
  BY SignerSame DEF Records, Money, Counted, TypeOK
<1>a. ASSUME NEW r \in Request, NEW status, NEW wallet, Answers(r, status, wallet)
      PROVE  /\ calls[r].status = "sent"
             /\ UNCHANGED <<store, owner, address, crossed, displaced, handlers>>
             /\ \A q \in Request \ {r} : calls'[q] = calls[q]
             /\ calls'[r].status = status
  BY <1>0, <1>a DEF Answers, cp
<1>1. ASSUME NEW r \in Creates, SignerCreates(r) PROVE Money'
  <2> DEFINE i == handlers[r].id
             w == IF HasRecord(i) THEN signer[i].wallet ELSE made + 1
  <2>1. /\ r \in Request /\ r \notin Deletes /\ Answers(r, "ok", w)
        /\ signer' = [signer EXCEPT ![i] = [wallet |-> w, owner |-> handlers[r].to]]
        /\ UNCHANGED funded
    BY <1>1, <1>d DEF SignerCreates, Request
  <2>2. i \in Id /\ w # 0
    BY <1>0, <2>1, SentFacts DEF Answers, HasRecord
  <2>3. /\ UNCHANGED <<store, address, displaced, handlers>>
        /\ \A q \in Deletes : calls'[q] = calls[q]
    BY <1>a, <2>1 DEF Request
  <2>4. /\ HasRecord(i) => w = signer[i].wallet
        /\ ~HasRecord(i) => w = made + 1
    OBVIOUS
  <2> HIDE DEF i, w
  <2>5. /\ signer'[i].wallet = w
        /\ \A j \in Id \ {i} : signer'[j] = signer[j]
    BY <1>0, <2>1, <2>2
  <2>6. CASE HasRecord(i)
    <3>1. \A j \in Id : signer'[j].wallet = signer[j].wallet
      BY <2>4, <2>5, <2>6
    <3> QED
      BY <1>0, <2>1, <2>3, <3>1, DeleteFacts
      DEF Money, Apart, Shown, Destroyed, FundedIsKnown, HasRecord, Known
  <2>7. CASE ~HasRecord(i)
    <3>1. w \notin funded /\ w \notin 0..made
      BY <1>0, <2>4, <2>7
    <3>2. Apart'
      BY <1>0, <2>2, <2>5, <3>1 DEF Apart, HasRecord
    <3>3. Shown' /\ FundedIsKnown'
      BY <1>0, <2>1, <2>3, <2>5, <3>1 DEF Shown, FundedIsKnown, HasRecord, Known
    <3>4. Destroyed'
      <4> SUFFICES ASSUME NEW q \in Deletes, calls'[q].status = "ok", HasRecord(handlers[q].id)'
                   PROVE  signer'[handlers[q].id].wallet # address[handlers[q].object]
        BY <2>3 DEF Destroyed
      <4>1. /\ calls[q].status = "ok" /\ handlers[q].id \in Id
            /\ handlers[q].object \in Creates
        BY <2>3, DeleteFacts
      <4> QED
        BY <1>0, <2>3, <2>5, <3>1, <4>1 DEF Destroyed, HasRecord
    <3> QED
      BY <3>2, <3>3, <3>4 DEF Money
  <2> QED
    BY <2>6, <2>7
<1>2. ASSUME NEW r \in Transfers, SignerTransfers(r) PROVE Money'
  <2> DEFINE i == handlers[r].id
  <2>1. /\ r \in Request /\ r \notin Deletes /\ Answers(r, "ok", 0)
        /\ signer' = [signer EXCEPT ![i].owner = handlers[r].to]
        /\ UNCHANGED funded
    BY <1>2, <1>d DEF SignerTransfers, Request
  <2>2. \A j \in Id : signer'[j].wallet = signer[j].wallet
    BY <1>0, <2>1
  <2>3. /\ UNCHANGED <<store, address, displaced, handlers>>
        /\ \A q \in Deletes : calls'[q] = calls[q]
    BY <1>a, <2>1 DEF Request
  <2> QED
    BY <1>0, <2>1, <2>2, <2>3, DeleteFacts
    DEF Money, Apart, Shown, Destroyed, FundedIsKnown, HasRecord, Known
<1>3. ASSUME NEW r \in Deletes, SignerDeletes(r) PROVE Money'
  <2> DEFINE i == handlers[r].id
  <2>1. /\ r \in Request /\ Answers(r, "ok", 0)
        /\ signer' = [signer EXCEPT ![i] = [wallet |-> 0, owner |-> None]]
        /\ funded' \subseteq funded
    BY <1>3 DEF SignerDeletes, Request
  <2>2. i \in Id
    BY <2>1, SentFacts DEF Answers
  <2>3. /\ UNCHANGED <<store, address, displaced, handlers>>
        /\ \A q \in Deletes \ {r} : calls'[q] = calls[q]
    BY <1>a, <2>1 DEF Request
  <2> HIDE DEF i
  <2>4. \A j \in Id : HasRecord(j)' => signer'[j] = signer[j] /\ HasRecord(j) /\ j # i
    BY <1>0, <2>1, <2>2 DEF HasRecord
  <2>5. Apart' /\ Shown' /\ FundedIsKnown'
    BY <1>0, <2>1, <2>3, <2>4 DEF Apart, Shown, FundedIsKnown, Known
  <2>6. Destroyed'
    <3> SUFFICES ASSUME NEW q \in Deletes, calls'[q].status = "ok", HasRecord(handlers[q].id)'
                 PROVE  signer'[handlers[q].id].wallet # address[handlers[q].object]
      BY <2>3 DEF Destroyed
    <3>1. handlers[q].id \in Id
      BY <2>2, <2>3, DeleteFacts DEF i
    <3>2. q # r
      BY <2>3, <2>4, <3>1 DEF i, HasRecord
    <3> QED
      BY <1>0, <2>3, <2>4, <3>1, <3>2 DEF Destroyed, HasRecord
  <2> QED
    BY <2>5, <2>6 DEF Money
<1>4. ASSUME NEW r \in Withdrawals, SignerWithdraws(r) PROVE Money'
  <2>1. /\ r \in Request /\ r \notin Deletes /\ Answers(r, "ok", 0)
        /\ funded' \subseteq funded /\ UNCHANGED signer
    BY <1>4, <1>d DEF SignerWithdraws, Request
  <2>2. /\ UNCHANGED <<store, address, displaced, handlers>>
        /\ \A q \in Deletes : calls'[q] = calls[q]
    BY <1>a, <2>1 DEF Request
  <2> QED
    BY <1>0, <2>1, <2>2 DEF Money, Apart, Shown, Destroyed, FundedIsKnown, HasRecord, Known
<1>5. ASSUME NEW r \in Request, SignerRefuses(r) PROVE Money'
  <2>1. Answers(r, "refused", 0) /\ UNCHANGED <<signer, funded>>
    BY <1>5 DEF SignerRefuses
  <2>2. /\ UNCHANGED <<store, address, displaced, handlers>>
        /\ \A q \in Deletes : calls'[q].status = "ok" => calls[q].status = "ok"
    BY <1>a, <2>1 DEF Request
  <2> QED
    BY <2>1, <2>2, SameMoney
<1> QED
  BY <1>1, <1>2, <1>3, <1>4, <1>5 DEF SignerStep

LEMMA ReturnsMoney == ASSUME Records, Money, Returns PROVE Money'
<1>0. /\ Apart /\ Shown /\ Destroyed /\ FundedIsKnown
      /\ store \in [Id -> Creates \cup {None}] /\ address \in [Creates -> {0} \cup Wallet]
      /\ handlers \in [Request -> Handler]
  BY DEF Records, Money, TypeOK
<1>d. /\ \A r \in Transfers \cup Deletes \cup Withdrawals : r \notin Creates
      /\ None \notin Creates
  BY CustodyAssumption DEF CustodyAssumption, Request
<1>a. ASSUME NEW r \in Request, NEW phase, Resumes(r, phase)
      PROVE  /\ UNCHANGED <<signer, funded, calls>> /\ handlers[r].phase = "awaiting"
             /\ handlers[r].id \in Id /\ handlers[r].object \in Creates
             /\ \A q \in Request : /\ handlers'[q].id = handlers[q].id
                                   /\ handlers'[q].object = handlers[q].object
  BY <1>0, <1>a DEF Resumes, Handler, Records, Linked
<1>1. ASSUME NEW r \in Creates, CreateReturns(r) PROVE Money'
  <2> DEFINE i == handlers[r].id
  <2>1. /\ r \in Request /\ calls[r].status = "ok" /\ Resumes(r, "done")
        /\ address' = [address EXCEPT ![r] = calls[r].wallet]
        /\ store' = [store EXCEPT ![i] = r]
        /\ displaced' = (IF store[i] = None THEN displaced ELSE displaced \cup {i})
    BY <1>1 DEF CreateReturns, Stores, Request
  <2>2. /\ UNCHANGED <<signer, funded, calls>> /\ i \in Id
        /\ handlers[r].phase = "awaiting"
        /\ \A q \in Deletes : /\ handlers'[q].id = handlers[q].id
                              /\ handlers'[q].object = handlers[q].object
    BY <1>a, <2>1 DEF Request
  <2>3. /\ \A j \in Id \ {i} : store'[j] = store[j]
        /\ store'[i] = r /\ displaced \subseteq displaced'
        /\ i \notin displaced' => ~Known(i) /\ i \notin displaced
        /\ \A x \in Creates \ {r} : address'[x] = address[x]
    BY <1>0, <2>1, <2>2 DEF Known
  <2>4. \A j \in Id : Known(j) => store[j] # r /\ store[j] \in Creates
    BY <1>0, <2>2 DEF Records, InStore, Known
  <2> HIDE DEF i
  <2>5. Apart' /\ FundedIsKnown'
    BY <1>0, <1>d, <2>2, <2>3 DEF Apart, FundedIsKnown, HasRecord, Known
  <2>6. Shown'
    <3> SUFFICES ASSUME NEW j \in Id \ displaced', Known(j)', HasRecord(j), signer[j].wallet \in funded
                 PROVE  signer[j].wallet = address'[store'[j]]
      BY <2>2 DEF Shown, HasRecord
    <3>1. j # i
      BY <1>0, <2>3 DEF FundedIsKnown
    <3> QED
      BY <1>0, <2>3, <2>4, <3>1 DEF Shown, Known
  <2>7. Destroyed'
    <3> SUFFICES ASSUME NEW q \in Deletes, calls[q].status = "ok", HasRecord(handlers[q].id)
                 PROVE  signer[handlers[q].id].wallet # address'[handlers[q].object]
      BY <2>2 DEF Destroyed, HasRecord
    <3>1. handlers[q].object \in Creates \ {r}
      BY <2>2, DeleteFacts
    <3> QED
      BY <1>0, <2>3, <3>1 DEF Destroyed
  <2> QED
    BY <2>5, <2>6, <2>7 DEF Money
<1>2. ASSUME NEW r \in Transfers, TransferReturns(r) PROVE Money'
  <2> DEFINE i == handlers[r].id
             x == handlers[r].object
  <2>1. /\ r \in Request /\ Resumes(r, "done")
        /\ store' = [store EXCEPT ![i] = x]
        /\ displaced' = (IF store[i] = x THEN displaced ELSE displaced \cup {i})
        /\ UNCHANGED address
    BY <1>2 DEF TransferReturns, Stores, Request
  <2>2. /\ UNCHANGED <<signer, funded, calls>> /\ i \in Id /\ x \in Creates
        /\ \A q \in Deletes : /\ handlers'[q].id = handlers[q].id
                              /\ handlers'[q].object = handlers[q].object
    BY <1>a, <2>1 DEF Request
  <2> HIDE DEF i, x
  <2>3. \A j \in Id \ displaced' : store'[j] = store[j] /\ j \notin displaced
    BY <1>0, <2>1, <2>2
  <2> QED
    BY <1>0, <2>1, <2>2, <2>3
    DEF Money, Apart, Shown, Destroyed, FundedIsKnown, HasRecord, Known
<1>3. ASSUME NEW r \in Deletes, DeleteReturns(r) PROVE Money'
  <2> DEFINE i == handlers[r].id
             x == handlers[r].object
  <2>1. /\ r \in Request /\ calls[r].status = "ok" /\ Resumes(r, "done")
        /\ store' = [store EXCEPT ![i] = None]
        /\ displaced' = (IF store[i] = x THEN displaced ELSE displaced \cup {i})
        /\ UNCHANGED address
    BY <1>3 DEF DeleteReturns, Stores, Request
  <2>2. /\ UNCHANGED <<signer, funded, calls>> /\ i \in Id /\ x \in Creates
        /\ \A q \in Deletes : /\ handlers'[q].id = handlers[q].id
                              /\ handlers'[q].object = handlers[q].object
    BY <1>a, <2>1 DEF Request
  <2>3. HasRecord(i) => signer[i].wallet # address[x]
    BY <1>0, <2>1 DEF Destroyed
  <2> HIDE DEF i, x
  <2>4. /\ \A j \in Id \ displaced' : j \notin displaced
        /\ \A j \in Id \ {i} : store'[j] = store[j]
        /\ store'[i] = None /\ (i \notin displaced' => store[i] = x /\ i \notin displaced)
    BY <1>0, <2>1, <2>2
  <2>5. FundedIsKnown'
    <3> SUFFICES ASSUME NEW j \in Id \ displaced', HasRecord(j), signer[j].wallet \in funded
                 PROVE  Known(j)'
      BY <2>2 DEF FundedIsKnown, HasRecord
    <3>1. CASE j = i
      BY <1>0, <1>d, <2>2, <2>3, <2>4, <3>1 DEF Shown, Known
    <3>2. CASE j # i
      BY <1>0, <2>4, <3>2 DEF FundedIsKnown, Known
    <3> QED
      BY <3>1, <3>2
  <2>6. Apart' /\ Shown' /\ Destroyed'
    BY <1>0, <2>1, <2>2, <2>4 DEF Apart, Shown, Destroyed, HasRecord, Known
  <2> QED
    BY <2>5, <2>6 DEF Money
<1>4. ASSUME NEW r \in Request, NEW phase, Resumes(r, phase), UNCHANGED cp PROVE Money'
  <2>1. UNCHANGED <<signer, funded, calls, store, address, displaced>>
    BY <1>4, <1>a DEF cp
  <2>2. \A q \in Deletes : /\ handlers'[q].id = handlers[q].id
                           /\ handlers'[q].object = handlers[q].object
    BY <1>4, <1>a DEF Request
  <2> QED
    BY <2>1, <2>2, SameMoney
<1>5. ASSUME NEW r \in Withdrawals, WithdrawReturns(r) PROVE Money'
  BY <1>4, <1>5 DEF WithdrawReturns, Request
<1>6. ASSUME NEW r \in Request, RefusedReturns(r) \/ TimesOut(r) PROVE Money'
  BY <1>4, <1>6 DEF RefusedReturns, TimesOut
<1> QED
  BY <1>1, <1>2, <1>3, <1>5, <1>6 DEF Returns

LEMMA DepositMoney == ASSUME Records, Money, NEW i \in Id, Deposit(i) PROVE Money'
<1>1. /\ UNCHANGED <<store, address, displaced, signer, handlers, calls>>
      /\ funded' = funded \cup {signer[i].wallet} /\ HasRecord(i) /\ Known(i)
      /\ signer[i].wallet = address[store[i]]
  BY DEF Deposit, cp
<1>2. Apart' /\ Destroyed'
  BY <1>1 DEF Money, Apart, Destroyed, HasRecord
<1>3. Shown' /\ FundedIsKnown'
  BY <1>1 DEF Money, Apart, Shown, FundedIsKnown, HasRecord, Known
<1> QED
  BY <1>2, <1>3 DEF Money

LEMMA NextMoney == Records /\ Money /\ [Next]_vars => Money'
<1> SUFFICES ASSUME Records, Money, [Next]_vars PROVE Money'
  OBVIOUS
<1>1. CASE UNCHANGED vars
  BY <1>1, SameMoney DEF vars
<1> QED
  BY <1>1, ArrivesMoney, SignerMoney, ReturnsMoney, DepositMoney DEF Next

-----------------------------------------------------------------------------
(* Owners.                                                                    *)

\* The signer knows agents that a creation told it of.
Provisioned ==
    \A i \in Id : HasRecord(i) =>
        \E c \in Creates : handlers[c].id = i /\ calls[c].status = "ok"

\* The hand-over that the signer is to hear of, there is but one, is to the owner of
\* the record; if there is none, the signer names that owner too.
Agreed ==
    IdsAreFresh => \A i \in Id \ crossed, c \in Creates :
        handlers[c].id = i /\ HasRecord(i) =>
            /\ \A t \in Transfers : handlers[t].id = i /\ calls[t].status = "sent" =>
                  /\ owner[c] = handlers[t].to
                  /\ \A u \in Transfers :
                        handlers[u].id = i /\ calls[u].status = "sent" => u = t
            /\ ~Pending(i) => owner[c] = signer[i].owner

\* The signer has its owner from a hand-over, or if none was through, from a creation.
Heard ==
    IdsAreFresh => \A i \in Id : HasRecord(i) =>
        \/ \E t \in Transfers : /\ handlers[t].id = i /\ calls[t].status = "ok"
                                /\ handlers[t].to = signer[i].owner
        \/ /\ \A t \in Transfers : handlers[t].id = i => calls[t].status # "ok"
           /\ \E c \in Creates : handlers[c].id = i /\ handlers[c].to = signer[i].owner

\* The owner of a record is its first one or one it was handed over to.
WasOwner(o, x) ==
    \/ o = handlers[x].to
    \/ \E t \in Transfers : handlers[t].id = handlers[x].id /\ handlers[t].to = o

Owners == \A x \in Creates : handlers[x].phase # "idle" => WasOwner(owner[x], x)

\* A withdrawal is asked for by one who owned the record.
Asked ==
    \A w \in Withdrawals :
        handlers[w].phase # "idle" => WasOwner(handlers[w].by, handlers[w].object)

Ownership == Provisioned /\ Agreed /\ Heard /\ Owners /\ Asked

LEMMA InitOwnership == Init => Ownership /\ OwnerIsPaid
  BY DEF Init, Ownership, Provisioned, Agreed, Heard, Owners, Asked, HasRecord, NoHandler,
         OwnerIsPaid, Request

\* A creation that the signer has yet to hear of is the only one of its id, if ids are
\* fresh, and its record has not been handed over.
LEMMA FreshCreation ==
    ASSUME Records, IdsAreFresh, NEW r \in Creates, calls[r].status = "sent",
           NEW t \in Transfers
    PROVE  handlers[t].id # handlers[r].id
<1> SUFFICES ASSUME handlers[t].id = handlers[r].id PROVE FALSE
  OBVIOUS
<1>1. /\ r \in Request /\ t \in Request /\ t \notin Creates /\ None \notin Id
  BY CustodyAssumption DEF CustodyAssumption, Request
<1>2. handlers[r].id \in Id /\ handlers[r].phase # "done"
  BY <1>1, SentFacts
<1>3. handlers[t].phase # "idle"
  BY <1>1, <1>2 DEF Records, Linked, NoHandler
<1>4. /\ handlers[t].object \in Creates
      /\ handlers[handlers[t].object].phase = "done"
      /\ handlers[handlers[t].object].id = handlers[t].id
  BY <1>1, <1>3 DEF Records, Linked, Objects, Holds
<1> QED
  BY <1>1, <1>2, <1>4 DEF IdsAreFresh

\* Where a request that is not made yet has no id, and ids stay, ids were fresh before.
LEMMA FreshBefore ==
    ASSUME Records, IdsAreFresh',
           \A q \in Creates : handlers[q].id # None => handlers'[q].id = handlers[q].id
    PROVE  IdsAreFresh
  BY DEF IdsAreFresh

\* A handler that goes on, and a call that changes no owner.
LEMMA SameOwnership ==
    ASSUME Records, Ownership, UNCHANGED <<owner, crossed>>,
           \A q \in Request : /\ handlers'[q].phase = "idle" <=> handlers[q].phase = "idle"
                              /\ handlers'[q].id = handlers[q].id
                              /\ handlers'[q].by = handlers[q].by
                              /\ handlers'[q].to = handlers[q].to
                              /\ handlers'[q].object = handlers[q].object,
           \A i \in Id : signer'[i].wallet # 0 =>
               signer[i].wallet # 0 /\ signer'[i].owner = signer[i].owner,
           \A q \in Creates \cup Transfers :
               \/ calls'[q].status = calls[q].status
               \/ signer'[handlers[q].id].wallet = 0
    PROVE  Ownership'
<1>0. /\ Creates \subseteq Request /\ Transfers \subseteq Request
      /\ Withdrawals \subseteq Request
  BY DEF Request
<1>1. Provisioned'
  BY <1>0 DEF Ownership, Provisioned, HasRecord
<1>2. IdsAreFresh' <=> IdsAreFresh
  BY <1>0 DEF IdsAreFresh
<1>3. Agreed'
  BY <1>0, <1>2 DEF Ownership, Agreed, HasRecord, Pending
<1>4. Heard'
  BY <1>0, <1>2 DEF Ownership, Heard, HasRecord
<1>5. \A o \in Owner, x \in Creates : WasOwner(o, x) => WasOwner(o, x)'
  BY <1>0 DEF WasOwner
<1>6. Owners'
  <2> SUFFICES ASSUME NEW x \in Creates, handlers'[x].phase # "idle"
               PROVE  WasOwner(owner[x], x)'
    BY DEF Owners
  <2> QED
    BY <1>0 DEF Ownership, Owners, WasOwner
<1>7. Asked'
  <2> SUFFICES ASSUME NEW w \in Withdrawals, handlers'[w].phase # "idle"
               PROVE  WasOwner(handlers[w].by, handlers[w].object)'
    BY DEF Asked
  <2>1. /\ handlers[w].phase # "idle" /\ handlers[w].object \in Creates
        /\ WasOwner(handlers[w].by, handlers[w].object)
    BY <1>0 DEF Records, Linked, Ownership, Asked
  <2> QED
    BY <1>0, <2>1 DEF WasOwner
<1> QED
  BY <1>1, <1>3, <1>4, <1>6, <1>7 DEF Ownership

\* A request that is made has been nobody's owner.
LEMMA AskWasOwner ==
    ASSUME Records, NEW r \in Request, NEW h, Asks(r, h),
           NEW x \in Creates, handlers[x].phase # "idle", NEW o, WasOwner(o, x)
    PROVE  WasOwner(o, x)'
<1>1. /\ handlers[r] = NoHandler /\ x # r
      /\ handlers' = [handlers EXCEPT ![r] = h] /\ handlers \in [Request -> Handler]
      /\ handlers[x].id \in Id /\ None \notin Id
  BY CustodyAssumption DEF CustodyAssumption, Asks, Records, Linked, TypeOK, Request
<1>2. \A q \in Request \ {r} : handlers'[q] = handlers[q]
  BY <1>1
<1> QED
  BY <1>1, <1>2 DEF WasOwner, NoHandler, Request

\* What asking leaves as it is.
LEMMA AskOwnership ==
    ASSUME Records, Ownership, NEW r \in Request, NEW h \in Handler, Asks(r, h)
    PROVE  /\ UNCHANGED signer
           /\ handlers[r].id = None /\ calls[r].status = "none" /\ None \notin Id
           /\ handlers'[r] = h /\ calls'[r].status = "sent"
           /\ \A q \in Request \ {r} :
                 handlers'[q] = handlers[q] /\ calls'[q] = calls[q]
           /\ Provisioned'
           /\ IdsAreFresh' => IdsAreFresh
<1>1. /\ UNCHANGED signer /\ None \notin Id
      /\ handlers[r].id = None /\ calls[r].status = "none"
      /\ handlers'[r] = h /\ calls'[r].status = "sent"
      /\ \A q \in Request \ {r} : handlers'[q] = handlers[q] /\ calls'[q] = calls[q]
  BY CustodyAssumption
  DEF CustodyAssumption, Asks, Records, Linked, TypeOK, NoHandler, CallRecord
<1>2. Provisioned'
  BY <1>1 DEF Ownership, Provisioned, HasRecord, Request
<1>3. IdsAreFresh' => IdsAreFresh
  BY <1>1, FreshBefore DEF Request
<1> QED
  BY <1>1, <1>2, <1>3

LEMMA ArrivesOwnership == ASSUME Records, Ownership, Arrives PROVE Ownership'
<1>0. /\ Provisioned /\ Agreed /\ Heard /\ Owners /\ Asked
      /\ owner \in [Creates -> Owner \cup {None}] /\ store \in [Id -> Creates \cup {None}]
      /\ handlers \in [Request -> Handler]
  BY DEF Ownership, Records, TypeOK
<1>d. /\ \A r \in Transfers : r \notin Creates /\ r \notin Withdrawals
      /\ \A r \in Creates : r \notin Transfers /\ r \notin Withdrawals
      /\ \A r \in Deletes \cup Withdrawals : r \notin Creates /\ r \notin Transfers
      /\ \A r \in Deletes : r \notin Withdrawals
      /\ Creates \subseteq Request /\ Transfers \subseteq Request
      /\ Deletes \subseteq Request /\ Withdrawals \subseteq Request
  BY CustodyAssumption DEF CustodyAssumption, Request
<1>k. ASSUME NEW i \in Id, Known(i)
      PROVE  /\ store[i] \in Creates
             /\ handlers[store[i]].phase = "done" /\ handlers[store[i]].id = i
  BY <1>0, <1>k DEF Records, InStore, Known
<1>w. ASSUME NEW w \in Withdrawals, handlers[w].phase # "idle"
      PROVE  /\ WasOwner(handlers[w].by, handlers[w].object)
             /\ handlers[w].object \in Creates
             /\ handlers[handlers[w].object].phase # "idle"
  BY <1>0, <1>d, <1>w DEF Records, Linked, Objects, Holds, Asked
<1>1. ASSUME NEW i \in Id, NEW by \in Owner, NEW r \in Creates, CreateAsks(r, i, by)
      PROVE  Ownership'
  <2> DEFINE h == [OnRecord(i, by, by, FALSE) EXCEPT !.object = r]
  <2>1. h \in Handler /\ h.id = i /\ h.to = by /\ h.phase = "awaiting"
    <3>1. OnRecord(i, by, by, FALSE).object = store[i]
      BY DEF OnRecord
    <3> QED
      BY DEF OnRecord, Handler
  <2>2. /\ owner' = [owner EXCEPT ![r] = by] /\ Asks(r, h) /\ UNCHANGED crossed
    BY <1>1 DEF CreateAsks
  <2> HIDE DEF h
  <2>3. /\ UNCHANGED signer /\ None \notin Id
        /\ handlers[r].id = None /\ calls[r].status = "none"
        /\ handlers'[r] = h
        /\ \A q \in Request \ {r} : handlers'[q] = handlers[q] /\ calls'[q] = calls[q]
        /\ Provisioned' /\ (IdsAreFresh' => IdsAreFresh)
    BY <1>d, <2>1, <2>2, AskOwnership
  <2>4. /\ \A t \in Transfers : handlers'[t] = handlers[t] /\ calls'[t] = calls[t]
        /\ \A c \in Creates \ {r} : /\ handlers'[c] = handlers[c] /\ calls'[c] = calls[c]
                                    /\ owner'[c] = owner[c]
        /\ owner'[r] = by
    BY <1>0, <1>d, <2>2, <2>3
  <2>5. Agreed'
    <3> SUFFICES ASSUME IdsAreFresh', NEW j \in Id \ crossed, NEW c \in Creates,
                        handlers'[c].id = j, signer[j].wallet # 0
                 PROVE  /\ \A t \in Transfers :
                              handlers'[t].id = j /\ calls'[t].status = "sent" =>
                              /\ owner'[c] = handlers'[t].to
                              /\ \A u \in Transfers :
                                    handlers'[u].id = j /\ calls'[u].status = "sent" => u = t
                        /\ ~Pending(j)' => owner'[c] = signer[j].owner
      BY <2>2, <2>3 DEF Agreed, HasRecord
    <3>1. PICK q \in Creates : handlers[q].id = j /\ calls[q].status = "ok"
      BY <1>0 DEF Provisioned, HasRecord
    <3>2. q # r /\ handlers'[q].id = j
      BY <2>3, <2>4, <3>1
    <3>3. c # r
      BY <2>3, <3>2 DEF IdsAreFresh
    <3> QED
      BY <1>0, <2>3, <2>4, <3>3 DEF Agreed, HasRecord, Pending
  <2>6. Heard'
    BY <1>0, <2>3, <2>4 DEF Heard, HasRecord
  <2>7. Owners'
    <3> SUFFICES ASSUME NEW x \in Creates, handlers'[x].phase # "idle"
                 PROVE  WasOwner(owner[x], x)'
      BY DEF Owners
    <3>1. CASE x = r
      BY <2>1, <2>3, <2>4, <3>1 DEF WasOwner
    <3>2. CASE x # r
      BY <1>0, <2>4, <3>2 DEF WasOwner, Owners
    <3> QED
      BY <3>1, <3>2
  <2>8. Asked'
    <3> SUFFICES ASSUME NEW w \in Withdrawals, handlers'[w].phase # "idle"
                 PROVE  WasOwner(handlers[w].by, handlers[w].object)'
      BY DEF Asked
    <3>1. handlers'[w] = handlers[w]
      BY <1>d, <2>3
    <3>2. WasOwner(handlers[w].by, handlers[w].object)'
              <=> (\/ handlers'[w].by = handlers'[handlers'[w].object].to
                   \/ \E t \in Transfers :
                        /\ handlers'[t].id = handlers'[handlers'[w].object].id
                        /\ handlers'[t].to = handlers'[w].by)
      BY DEF WasOwner
    <3>3. handlers[w].object # r
      BY <1>w, <2>3, <3>1 DEF Records, Linked, Asks, Request
    <3> QED
      BY <1>w, <2>4, <3>1, <3>2, <3>3 DEF WasOwner
  <2> QED
    BY <2>3, <2>5, <2>6, <2>7, <2>8 DEF Ownership
<1>2. ASSUME NEW i \in Id, NEW by \in Owner, NEW r \in Transfers, NEW to \in Owner,
             TransferAsks(r, i, by, to)
      PROVE  Ownership'
  <2> DEFINE h == OnRecord(i, by, to, FALSE)
             x == store[i]
  <2>1. /\ Known(i) /\ owner' = [owner EXCEPT ![x] = to] /\ Asks(r, h)
        /\ crossed' = (IF Pending(i) THEN crossed \cup {i} ELSE crossed)
    BY <1>2 DEF TransferAsks, Owns
  <2>2. x \in Creates /\ handlers[x].phase = "done" /\ handlers[x].id = i
    BY <1>k, <2>1
  <2>3. h \in Handler /\ h.id = i /\ h.to = to
    BY <2>2 DEF OnRecord, Handler
  <2> HIDE DEF h, x
  <2>4. /\ UNCHANGED signer /\ None \notin Id
        /\ handlers[r].id = None /\ calls[r].status = "none"
        /\ handlers'[r] = h /\ calls'[r].status = "sent"
        /\ \A q \in Request \ {r} : handlers'[q] = handlers[q] /\ calls'[q] = calls[q]
        /\ Provisioned' /\ (IdsAreFresh' => IdsAreFresh)
    BY <1>d, <2>1, <2>3, AskOwnership
  <2>5. /\ \A t \in Transfers \ {r} : handlers'[t] = handlers[t] /\ calls'[t] = calls[t]
        /\ \A c \in Creates : handlers'[c] = handlers[c] /\ calls'[c] = calls[c]
        /\ \A c \in Creates \ {x} : owner'[c] = owner[c]
        /\ owner'[x] = to
    BY <1>0, <1>d, <2>1, <2>2, <2>4
  <2>6. Agreed'
    <3> SUFFICES ASSUME IdsAreFresh', NEW j \in Id \ crossed', NEW c \in Creates,
                        handlers[c].id = j, signer[j].wallet # 0
                 PROVE  /\ \A t \in Transfers :
                              handlers'[t].id = j /\ calls'[t].status = "sent" =>
                              /\ owner'[c] = handlers'[t].to
                              /\ \A u \in Transfers :
                                    handlers'[u].id = j /\ calls'[u].status = "sent" => u = t
                        /\ ~Pending(j)' => owner'[c] = signer[j].owner
      BY <2>4, <2>5 DEF Agreed, HasRecord
    <3>0. j \in Id \ crossed /\ IdsAreFresh
      BY <2>1, <2>4
    <3>1. CASE j = i
      <4>1. ~Pending(i)
        BY <2>1, <3>1
      <4>2. c = x
        BY <2>2, <2>4, <3>0, <3>1 DEF IdsAreFresh
      <4>3. \A t \in Transfers : handlers'[t].id = i /\ calls'[t].status = "sent" => t = r
        BY <2>5, <4>1 DEF Pending
      <4>4. Pending(i)'
        BY <2>3, <2>4 DEF Pending
      <4> QED
        BY <2>3, <2>4, <2>5, <3>1, <4>2, <4>3, <4>4
    <3>2. CASE j # i
      <4>1. c # x /\ \A t \in Transfers : handlers'[t].id = j => t # r
        BY <2>2, <2>3, <2>4, <3>2
      <4>2. Pending(j)' <=> Pending(j)
        BY <2>4, <2>5, <4>1 DEF Pending
      <4> QED
        BY <1>0, <2>5, <3>0, <4>1, <4>2 DEF Agreed, HasRecord
    <3> QED
      BY <3>1, <3>2
  <2>7. Heard'
    BY <1>0, <2>4, <2>5 DEF Heard, HasRecord
  <2>8. Owners'
    <3> SUFFICES ASSUME NEW c \in Creates, handlers'[c].phase # "idle"
                 PROVE  WasOwner(owner[c], c)'
      BY DEF Owners
    <3>1. CASE c = x
      BY <2>2, <2>3, <2>4, <2>5, <3>1 DEF WasOwner
    <3>2. CASE c # x
      <4>1. handlers[c].phase # "idle" /\ WasOwner(owner[c], c)
        BY <1>0, <2>5 DEF Owners
      <4>2. \A o : WasOwner(o, c) => WasOwner(o, c)'
        BY <1>d, <2>1, <4>1, AskWasOwner
      <4> QED
        BY <2>5, <3>2, <4>1, <4>2 DEF WasOwner
    <3> QED
      BY <3>1, <3>2
  <2>9. Asked'
    <3> SUFFICES ASSUME NEW w \in Withdrawals, handlers'[w].phase # "idle"
                 PROVE  WasOwner(handlers[w].by, handlers[w].object)'
      BY DEF Asked
    <3>1. handlers'[w] = handlers[w]
      BY <1>d, <2>4
    <3>2. \A t \in Transfers : handlers[t].id # None => handlers'[t] = handlers[t]
      BY <2>4, <2>5
    <3> QED
      BY <1>w, <1>d, <2>4, <2>5, <3>1, <3>2 DEF WasOwner, Records, Linked
  <2> QED
    BY <2>4, <2>6, <2>7, <2>8, <2>9 DEF Ownership
<1>3. ASSUME NEW r \in Deletes \cup Withdrawals, NEW h \in Handler, Asks(r, h),
             UNCHANGED <<owner, crossed>>,
             r \in Withdrawals =>
                 h.object \in Creates /\ handlers[h.object].phase # "idle"
                     /\ WasOwner(h.by, h.object)
      PROVE  Ownership'
  <2>1. /\ UNCHANGED signer /\ handlers'[r] = h
        /\ \A q \in Request \ {r} : handlers'[q] = handlers[q] /\ calls'[q] = calls[q]
        /\ Provisioned' /\ (IdsAreFresh' => IdsAreFresh)
    BY <1>3, <1>d, AskOwnership
  <2>2. \A q \in Creates \cup Transfers : handlers'[q] = handlers[q] /\ calls'[q] = calls[q]
    BY <1>d, <2>1
  <2>3. Agreed' /\ Heard'
    BY <1>0, <1>3, <2>1, <2>2 DEF Agreed, Heard, HasRecord, Pending
  <2>4. Owners'
    <3> SUFFICES ASSUME NEW x \in Creates, handlers'[x].phase # "idle"
                 PROVE  WasOwner(owner[x], x)'
      BY DEF Owners
    <3> QED
      BY <1>0, <1>3, <2>2 DEF WasOwner, Owners
  <2>5. Asked'
    <3> SUFFICES ASSUME NEW w \in Withdrawals, handlers'[w].phase # "idle"
                 PROVE  WasOwner(handlers[w].by, handlers[w].object)'
      BY DEF Asked
    <3>1. CASE w = r
      BY <1>3, <2>1, <2>2, <3>1 DEF WasOwner
    <3>2. CASE w # r
      <4>1. handlers'[w] = handlers[w]
        BY <1>d, <2>1, <3>2
      <4> QED
        BY <1>w, <2>2, <4>1 DEF WasOwner
    <3> QED
      BY <3>1, <3>2
  <2> QED
    BY <2>1, <2>3, <2>4, <2>5 DEF Ownership
<1>4. ASSUME NEW i \in Id, NEW by \in Owner, NEW r \in Deletes, NEW force \in BOOLEAN,
             DeleteAsks(r, i, by, force)
      PROVE  Ownership'
  <2> DEFINE h == OnRecord(i, by, by, force)
  <2>1. Known(i) /\ Asks(r, h) /\ UNCHANGED <<owner, crossed>>
    BY <1>4 DEF DeleteAsks, Owns, cp
  <2>2. h \in Handler
    BY <1>k, <2>1 DEF OnRecord, Handler
  <2> HIDE DEF h
  <2> QED
    BY <1>3, <1>d, <2>1, <2>2
<1>5. ASSUME NEW i \in Id, NEW by \in Owner, NEW r \in Withdrawals, WithdrawAsks(r, i, by)
      PROVE  Ownership'
  <2> DEFINE h == OnRecord(i, by, by, FALSE)
  <2>1. /\ Known(i) /\ owner[store[i]] = by /\ Asks(r, h) /\ UNCHANGED <<owner, crossed>>
    BY <1>5 DEF WithdrawAsks, Owns, cp
  <2>2. h \in Handler /\ h.object = store[i] /\ h.by = by
    BY <1>k, <2>1 DEF OnRecord, Handler
  <2>3. /\ store[i] \in Creates /\ handlers[store[i]].phase # "idle"
        /\ WasOwner(by, store[i])
    BY <1>0, <1>k, <2>1 DEF Owners
  <2> HIDE DEF h
  <2> QED
    BY <1>3, <2>1, <2>2, <2>3
<1> QED
  BY <1>1, <1>2, <1>4, <1>5 DEF Arrives

LEMMA SignerOwnership == ASSUME Records, Ownership, SignerStep PROVE Ownership'
<1>0. /\ Provisioned /\ Agreed /\ Heard /\ Owners /\ Asked
      /\ signer \in [Id -> [wallet : 0..made, owner : Owner \cup {None}]]
      /\ calls \in [Request -> CallRecord]
  BY SignerSame DEF Ownership, Records, TypeOK
<1>d. /\ \A r \in Transfers : r \notin Creates
      /\ \A r \in Creates : r \notin Transfers
      /\ \A r \in Deletes \cup Withdrawals : r \notin Creates /\ r \notin Transfers
      /\ Creates \subseteq Request /\ Transfers \subseteq Request
      /\ Deletes \subseteq Request /\ Withdrawals \subseteq Request /\ None \notin Id
  BY CustodyAssumption DEF CustodyAssumption, Request
<1>a. ASSUME NEW r \in Request, NEW status, NEW wallet, Answers(r, status, wallet)
      PROVE  /\ calls[r].status = "sent" /\ UNCHANGED <<owner, crossed, handlers>>
             /\ \A q \in Request \ {r} : calls'[q] = calls[q]
             /\ calls'[r].status = status
             /\ handlers[r].id \in Id /\ handlers[r].phase # "idle"
  BY <1>0, <1>a, SentFacts DEF Answers, cp
<1>s. ASSUME UNCHANGED <<owner, crossed, handlers>>
      PROVE  Owners' /\ Asked' /\ (IdsAreFresh' <=> IdsAreFresh)
  BY <1>0, <1>s DEF Owners, Asked, WasOwner, IdsAreFresh
<1>1. ASSUME NEW r \in Creates, SignerCreates(r) PROVE Ownership'
  <2> DEFINE i == handlers[r].id
             w == IF HasRecord(i) THEN signer[i].wallet ELSE made + 1
  <2>1. /\ Answers(r, "ok", w)
        /\ signer' = [signer EXCEPT ![i] = [wallet |-> w, owner |-> handlers[r].to]]
    BY <1>1 DEF SignerCreates
  <2>2. /\ calls[r].status = "sent" /\ UNCHANGED <<owner, crossed, handlers>>
        /\ \A q \in Request \ {r} : calls'[q] = calls[q]
        /\ calls'[r].status = "ok" /\ i \in Id /\ handlers[r].phase # "idle"
    BY <1>a, <1>d, <2>1
  <2>3. handlers[r].phase # "done" /\ owner[r] = handlers[r].to
    BY <1>d, <2>2, SentFacts DEF Holds
  <2>4. IdsAreFresh => \A t \in Transfers : handlers[t].id # i
    BY <2>2, FreshCreation
  <2> HIDE DEF w
  <2>5. /\ \A j \in Id \ {i} : signer'[j] = signer[j]
        /\ signer'[i].owner = handlers[r].to
    BY <1>0, <2>1, <2>2
  <2>6. \A t \in Transfers : calls'[t] = calls[t]
    BY <1>d, <2>2
  <2> HIDE DEF i
  <2>7. Provisioned'
    <3> SUFFICES ASSUME NEW j \in Id, signer'[j].wallet # 0
                 PROVE  \E c \in Creates : handlers[c].id = j /\ calls'[c].status = "ok"
      BY <2>2 DEF Provisioned, HasRecord
    <3>1. CASE j = i
      BY <2>2, <3>1 DEF i
    <3>2. CASE j # i
      BY <1>0, <1>d, <2>2, <2>5, <3>2 DEF Provisioned, HasRecord
    <3> QED
      BY <3>1, <3>2
  <2>8. Agreed'
    <3> SUFFICES ASSUME IdsAreFresh, NEW j \in Id \ crossed, NEW c \in Creates,
                        handlers[c].id = j, signer'[j].wallet # 0
                 PROVE  /\ \A t \in Transfers :
                              handlers[t].id = j /\ calls[t].status = "sent" =>
                              /\ owner[c] = handlers[t].to
                              /\ \A u \in Transfers :
                                    handlers[u].id = j /\ calls[u].status = "sent" => u = t
                        /\ ~Pending(j) => owner[c] = signer'[j].owner
      BY <1>s, <2>2, <2>6 DEF Agreed, HasRecord, Pending
    <3>1. CASE j = i
      <4>1. c = r
        BY <1>d, <2>2, <3>1 DEF IdsAreFresh, i
      <4> QED
        BY <2>3, <2>4, <2>5, <3>1, <4>1
    <3>2. CASE j # i
      BY <1>0, <2>5, <3>2 DEF Agreed, HasRecord
    <3> QED
      BY <3>1, <3>2
  <2>9. Heard'
    <3> SUFFICES ASSUME IdsAreFresh, NEW j \in Id, signer'[j].wallet # 0
                 PROVE  \/ \E t \in Transfers :
                              /\ handlers[t].id = j /\ calls[t].status = "ok"
                              /\ handlers[t].to = signer'[j].owner
                        \/ /\ \A t \in Transfers :
                                 handlers[t].id = j => calls[t].status # "ok"
                           /\ \E c \in Creates :
                                 handlers[c].id = j /\ handlers[c].to = signer'[j].owner
      BY <1>s, <2>2, <2>6 DEF Heard, HasRecord
    <3>1. CASE j = i
      BY <2>4, <2>5, <3>1 DEF i
    <3>2. CASE j # i
      BY <1>0, <2>5, <3>2 DEF Heard, HasRecord
    <3> QED
      BY <3>1, <3>2
  <2> QED
    BY <1>s, <2>2, <2>7, <2>8, <2>9 DEF Ownership
<1>2. ASSUME NEW r \in Transfers, SignerTransfers(r) PROVE Ownership'
  <2> DEFINE i == handlers[r].id
  <2>1. /\ Answers(r, "ok", 0) /\ HasRecord(i)
        /\ signer' = [signer EXCEPT ![i].owner = handlers[r].to]
    BY <1>2 DEF SignerTransfers
  <2>2. /\ calls[r].status = "sent" /\ UNCHANGED <<owner, crossed, handlers>>
        /\ \A q \in Request \ {r} : calls'[q] = calls[q]
        /\ calls'[r].status = "ok" /\ i \in Id
    BY <1>a, <1>d, <2>1
  <2> HIDE DEF i
  <2>3. /\ \A j \in Id \ {i} : signer'[j] = signer[j]
        /\ signer'[i].owner = handlers[r].to
        /\ \A j \in Id : signer'[j].wallet = signer[j].wallet
    BY <1>0, <2>1, <2>2
  <2>4. /\ \A c \in Creates : calls'[c] = calls[c]
        /\ \A t \in Transfers \ {r} : calls'[t] = calls[t]
    BY <1>d, <2>2
  <2>5. Provisioned'
    BY <1>0, <2>2, <2>3, <2>4 DEF Provisioned, HasRecord
  <2>6. Agreed'
    <3> SUFFICES ASSUME IdsAreFresh, NEW j \in Id \ crossed, NEW c \in Creates,
                        handlers[c].id = j, signer[j].wallet # 0
                 PROVE  /\ \A t \in Transfers :
                              handlers[t].id = j /\ calls'[t].status = "sent" =>
                              /\ owner[c] = handlers[t].to
                              /\ \A u \in Transfers :
                                    handlers[u].id = j /\ calls'[u].status = "sent" => u = t
                        /\ ~Pending(j)' => owner[c] = signer'[j].owner
      BY <1>s, <2>2, <2>3 DEF Agreed, HasRecord
    <3>0. /\ \A t \in Transfers : handlers[t].id = j /\ calls[t].status = "sent" =>
                /\ owner[c] = handlers[t].to
                /\ \A u \in Transfers :
                      handlers[u].id = j /\ calls[u].status = "sent" => u = t
          /\ ~Pending(j) => owner[c] = signer[j].owner
      BY <1>0 DEF Agreed, HasRecord
    <3>1. CASE j = i
      <4>1. /\ owner[c] = handlers[r].to
            /\ \A u \in Transfers : handlers[u].id = j /\ calls[u].status = "sent" => u = r
        BY <2>2, <3>0, <3>1 DEF i
      <4>2. \A u \in Transfers : handlers[u].id = j => calls'[u].status # "sent"
        BY <2>2, <2>4, <4>1
      <4> QED
        BY <2>3, <3>1, <4>1, <4>2
    <3>2. CASE j # i
      <4>1. \A t \in Transfers : handlers[t].id = j => calls'[t] = calls[t]
        BY <2>4, <3>2 DEF i
      <4>2. Pending(j)' <=> Pending(j)
        BY <2>2, <4>1 DEF Pending
      <4> QED
        BY <2>3, <3>0, <3>2, <4>1, <4>2
    <3> QED
      BY <3>1, <3>2
  <2>7. Heard'
    <3> SUFFICES ASSUME IdsAreFresh, NEW j \in Id, signer[j].wallet # 0
                 PROVE  \/ \E t \in Transfers :
                              /\ handlers[t].id = j /\ calls'[t].status = "ok"
                              /\ handlers[t].to = signer'[j].owner
                        \/ /\ \A t \in Transfers :
                                 handlers[t].id = j => calls'[t].status # "ok"
                           /\ \E c \in Creates :
                                 handlers[c].id = j /\ handlers[c].to = signer'[j].owner
      BY <1>s, <2>2, <2>3 DEF Heard, HasRecord
    <3>1. CASE j = i
      BY <2>2, <2>3, <3>1 DEF i
    <3>2. CASE j # i
      <4>1. \A t \in Transfers : handlers[t].id = j => calls'[t] = calls[t]
        BY <2>4, <3>2 DEF i
      <4> QED
        BY <1>0, <2>3, <3>2, <4>1 DEF Heard, HasRecord
    <3> QED
      BY <3>1, <3>2
  <2> QED
    BY <1>s, <2>2, <2>5, <2>6, <2>7 DEF Ownership
<1>3. ASSUME NEW r \in Deletes \cup Withdrawals, NEW status, NEW wallet,
             Answers(r, status, wallet),
             \A i \in Id : signer'[i].wallet # 0 =>
                 signer[i].wallet # 0 /\ signer'[i].owner = signer[i].owner
      PROVE  Ownership'
  <2>1. /\ UNCHANGED <<owner, crossed, handlers>>
        /\ \A q \in Creates \cup Transfers : calls'[q].status = calls[q].status
    BY <1>3, <1>a, <1>d
  <2> QED
    BY <1>3, <2>1, SameOwnership
<1>4. ASSUME NEW r \in Deletes, SignerDeletes(r) PROVE Ownership'
  <2> DEFINE i == handlers[r].id
  <2>1. /\ Answers(r, "ok", 0)
        /\ signer' = [signer EXCEPT ![i] = [wallet |-> 0, owner |-> None]]
    BY <1>4 DEF SignerDeletes
  <2> HIDE DEF i
  <2>2. \A j \in Id : signer'[j].wallet # 0 =>
            signer[j].wallet # 0 /\ signer'[j].owner = signer[j].owner
    BY <1>0, <2>1
  <2> QED
    BY <1>3, <2>1, <2>2
<1>5. ASSUME NEW r \in Withdrawals, SignerWithdraws(r) PROVE Ownership'
  BY <1>3, <1>5 DEF SignerWithdraws
<1>6. ASSUME NEW r \in Request, SignerRefuses(r) PROVE Ownership'
  <2>1. /\ Answers(r, "refused", 0) /\ UNCHANGED signer
        /\ r \notin Deletes \cup Withdrawals => r \notin Creates /\ ~HasRecord(handlers[r].id)
    BY <1>6 DEF SignerRefuses
  <2>2. /\ UNCHANGED <<owner, crossed, handlers>>
        /\ \A q \in Request \ {r} : calls'[q] = calls[q]
    BY <1>a, <2>1
  <2>3. \A q \in Creates \cup Transfers :
            calls'[q].status = calls[q].status \/ signer'[handlers[q].id].wallet = 0
    BY <1>d, <2>1, <2>2 DEF HasRecord
  <2> QED
    BY <2>1, <2>2, <2>3, SameOwnership
<1> QED
  BY <1>1, <1>2, <1>4, <1>5, <1>6 DEF SignerStep

LEMMA NextOwnership == Records /\ Ownership /\ [Next]_vars => Ownership'
<1> SUFFICES ASSUME Records, Ownership, [Next]_vars PROVE Ownership'
  OBVIOUS
<1>0. handlers \in [Request -> Handler]
  BY DEF Records, TypeOK
<1>1. CASE Returns
  <2>1. ASSUME NEW r \in Request, NEW phase \in {"done", "failed"}, Resumes(r, phase),
               UNCHANGED <<owner, crossed>>
        PROVE  Ownership'
    <3>1. /\ UNCHANGED <<signer, calls>>
          /\ \A q \in Request : /\ handlers'[q].phase = "idle" <=> handlers[q].phase = "idle"
                                /\ handlers'[q].id = handlers[q].id
                                /\ handlers'[q].by = handlers[q].by
                                /\ handlers'[q].to = handlers[q].to
                                /\ handlers'[q].object = handlers[q].object
      BY <1>0, <2>1 DEF Resumes, Handler
    <3> QED
      BY <2>1, <3>1, SameOwnership
  <2>2. ASSUME NEW r \in Request,
               \/ r \in Creates /\ CreateReturns(r)
               \/ TransferReturns(r) \/ DeleteReturns(r) \/ WithdrawReturns(r)
        PROVE  Ownership'
    BY <2>1, <2>2 DEF CreateReturns, TransferReturns, DeleteReturns, WithdrawReturns, cp
  <2>3. ASSUME NEW r \in Request, RefusedReturns(r) \/ TimesOut(r) PROVE Ownership'
    BY <2>1, <2>3 DEF RefusedReturns, TimesOut, cp
  <2> QED
    BY <1>1, <2>2, <2>3 DEF Returns, Request
<1>2. ASSUME NEW i \in Id, Deposit(i) PROVE Ownership'
  BY <1>2, SameOwnership DEF Deposit, cp
<1>3. CASE UNCHANGED vars
  BY <1>3, SameOwnership DEF vars
<1> QED
  BY <1>1, <1>2, <1>3, ArrivesOwnership, SignerOwnership DEF Next

\* The signer pays the owner it names. If ids are fresh and all hand-overs are through
\* and were to the one who asks, the signer has its owner from one of them, or there
\* was none and the creation named the one who asks.
LEMMA PaidToOwner ==
    ASSUME Records, Ownership, NEW r \in Withdrawals, SignerWithdraws(r)
    PROVE  LET i == handlers[r].id
               by == handlers[r].by
           IN  signer[i].owner = by \/ Unsettled(i, by)
<1> DEFINE i == handlers[r].id
           by == handlers[r].by
           x == handlers[r].object
<1> SUFFICES ASSUME ~Unsettled(i, by) PROVE signer[i].owner = by
  OBVIOUS
<1>d. /\ r \in Request /\ r \notin Creates /\ Transfers \subseteq Request
      /\ Creates \subseteq Request /\ None \notin Id
  BY CustodyAssumption DEF CustodyAssumption, Request
<1>1. calls[r].status = "sent" /\ HasRecord(i)
  BY DEF SignerWithdraws, Answers
<1>2. /\ i \in Id /\ x \in Creates /\ handlers[x].id = i /\ handlers[r].phase # "idle"
  BY <1>d, <1>1, SentFacts DEF Holds
<1>3. /\ IdsAreFresh
      /\ \A t \in Transfers : handlers[t].id = i =>
            calls[t].status = "ok" /\ handlers[t].to = by
  BY <1>d DEF Unsettled, Records, Linked
<1>4. WasOwner(by, x)
  BY <1>2 DEF Ownership, Asked
<1>5. CASE \E t \in Transfers : handlers[t].id = i
  BY <1>1, <1>2, <1>3, <1>5 DEF Ownership, Heard
<1>6. CASE \A t \in Transfers : handlers[t].id # i
  <2>1. PICK c \in Creates : handlers[c].id = i /\ handlers[c].to = signer[i].owner
    BY <1>1, <1>2, <1>3, <1>6 DEF Ownership, Heard
  <2>2. c = x
    BY <1>d, <1>2, <1>3, <2>1 DEF IdsAreFresh
  <2> QED
    BY <1>2, <1>4, <1>6, <2>1, <2>2 DEF WasOwner
<1> QED
  BY <1>5, <1>6

LEMMA NextPaid == Records /\ Ownership /\ OwnerIsPaid /\ [Next]_vars => OwnerIsPaid'
<1> SUFFICES ASSUME Records, Ownership, OwnerIsPaid, [Next]_vars PROVE OwnerIsPaid'
  OBVIOUS
<1>1. ASSUME NEW r \in Withdrawals, SignerWithdraws(r) PROVE OwnerIsPaid'
  <2> DEFINE p == [by |-> handlers[r].by, to |-> signer[handlers[r].id].owner,
                   unsettled |-> Unsettled(handlers[r].id, handlers[r].by)]
  <2>1. paid' = paid \cup {p}
    BY <1>1 DEF SignerWithdraws
  <2>2. p.by = p.to \/ p.unsettled
    BY <1>1, PaidToOwner
  <2> HIDE DEF p
  <2> QED
    BY <2>1, <2>2 DEF OwnerIsPaid
<1>2. CASE UNCHANGED paid
  BY <1>2 DEF OwnerIsPaid
<1>3. \/ UNCHANGED paid \/ \E r \in Withdrawals : SignerWithdraws(r)
  BY DEF Next, vars, Arrives, CreateAsks, TransferAsks, DeleteAsks, WithdrawAsks, Asks,
         SignerStep, SignerCreates, SignerTransfers, SignerDeletes, SignerRefuses,
         Returns, CreateReturns, TransferReturns, DeleteReturns, WithdrawReturns,
         RefusedReturns, TimesOut, Resumes, Deposit
<1> QED
  BY <1>1, <1>2, <1>3

\* If the record and the signer's disagree there is a hand-over the signer has not
\* heard of, or there was one before it had heard of the last.
LEMMA AgreedOwners == Records /\ Ownership => OwnersAgree
<1> SUFFICES ASSUME Records, Ownership, IdsAreFresh, NEW i \in Id \ crossed,
                    Known(i), HasRecord(i), ~Pending(i)
             PROVE  owner[store[i]] = signer[i].owner
  BY DEF OwnersAgree
<1>1. store[i] \in Creates /\ handlers[store[i]].id = i
  BY DEF Records, TypeOK, InStore, Known
<1> QED
  BY <1>1 DEF Ownership, Agreed

-----------------------------------------------------------------------------
LEMMA CustodyInv == Spec => [](Records /\ Money /\ Ownership /\ OwnerIsPaid)
<1>1. Init => Records /\ Money /\ Ownership /\ OwnerIsPaid
  BY InitRecords, InitMoney, InitOwnership
<1>2. Records /\ Money /\ Ownership /\ OwnerIsPaid /\ [Next]_vars =>
          (Records /\ Money /\ Ownership /\ OwnerIsPaid)'
  BY NextRecords, NextMoney, NextOwnership, NextPaid
<1> QED
  BY <1>1, <1>2, PTL DEF Spec

\* Every variable of the two services' records has its type in every reachable state,
\* for any set of agents and requests.
THEOREM TypeCorrect == Spec => []TypeOK
<1>1. Records => TypeOK
  BY DEF Records
<1> QED
  BY <1>1, CustodyInv, PTL

\* "If it refuses, surface that and DON'T delete the control-plane record"
\* (control-plane/server.js:460): no wallet that holds funds is one the control plane
\* has no record of, whatever is lost, however many requests overlap, unless a handler
\* has come back to another record than it had read.
THEOREM FundsReachable == Spec => []FundedIsKnown
<1>1. Money => FundedIsKnown
  BY DEF Money
<1> QED
  BY <1>1, CustodyInv, PTL

\* Both services name the same owner once the signer has heard of every hand-over.
THEOREM OneOwner == Spec => []OwnersAgree
  BY AgreedOwners, CustodyInv, PTL

\* "funds go to the committed owner - only the owner may trigger it"
\* (control-plane/server.js:487), whatever requests overlap or are lost.
THEOREM PaidIsOwner == Spec => []OwnerIsPaid
  BY CustodyInv, PTL

-----------------------------------------------------------------------------
(* Bundles.                                                                   *)

\* No client creates an agent later than the grace time after its upload, and a
\* bundle is as old as its last upload, which is what the collector goes by. The
\* latter is only so if no bundle is uploaded again, as Again says.
AgesAgree == \A s \in Sha : blobs[s] # Absent => blobs[s] = acked[s]

\* Collected bundles were uploaded a grace time ago, too long for a client to use.
CollectedIsOld == \A s \in Sha : blobs[s] = Absent => acked[s] = Absent \/ acked[s] >= Grace

Kept == BundlesTypeOK /\ AgesAgree /\ CollectedIsOld /\ AgentsHaveBundles

LEMMA InitKept == BundlesInit => Kept
  BY BundlesAssumption
  DEF BundlesAssumption, BundlesInit, Kept, BundlesTypeOK, AgesAgree, CollectedIsOld,
      AgentsHaveBundles, Absent, Age, Stored

\* Time makes all ages grow alike, up to one more than the grace time.
LEMMA AgedType ==
    ASSUME NEW ages \in [Sha -> Age \cup {Absent}]
    PROVE  /\ Aged(ages) \in [Sha -> Age \cup {Absent}]
           /\ \A s \in Sha : Aged(ages)[s] = Absent <=> ages[s] = Absent
           /\ \A s \in Sha : ages[s] \in Nat => Aged(ages)[s] \in Nat /\ Aged(ages)[s] >= ages[s]
  BY BundlesAssumption DEF BundlesAssumption, Aged, Age, Absent

\* The types need no condition on uploads: what is stored has been acknowledged, be
\* it for the first time or again.
LEMMA NextTypes == BundlesTypeOK /\ [BundlesNext]_bundlesVars => BundlesTypeOK'
<1> SUFFICES ASSUME BundlesTypeOK, [BundlesNext]_bundlesVars PROVE BundlesTypeOK'
  OBVIOUS
<1> USE BundlesAssumption DEF BundlesAssumption, Absent, Age, BundlesTypeOK
<1>1. ASSUME NEW s \in Sha, Upload(s) PROVE BundlesTypeOK'
  <2>1. CASE Stored(s)
    BY <1>1, <2>1 DEF Upload
  <2>2. CASE ~Stored(s)
    BY <1>1, <2>2 DEF Upload
  <2> QED
    BY <2>1, <2>2
<1>2. ASSUME NEW s \in Sha, UploadCut(s) PROVE BundlesTypeOK'
  BY <1>2 DEF UploadCut, Stored
<1>3. ASSUME NEW a \in Agent, Delete(a) \/ \E s \in Sha : Create(a, s) PROVE BundlesTypeOK'
  BY <1>3 DEF Delete, Create
<1>4. CASE Sweep
  BY <1>4 DEF Sweep
<1>5. CASE Tick
  BY <1>5, AgedType DEF Tick
<1>6. CASE UNCHANGED bundlesVars
  BY <1>6 DEF bundlesVars
<1> QED
  BY <1>1, <1>2, <1>3, <1>4, <1>5, <1>6 DEF BundlesNext

LEMMA NextKept ==
    ASSUME Again = FALSE, Kept, [BundlesNext]_bundlesVars
    PROVE  Kept'
<1> USE BundlesAssumption DEF BundlesAssumption, Absent, Age
<1>0. /\ blobs \in [Sha -> Age \cup {Absent}] /\ acked \in [Sha -> Age \cup {Absent}]
      /\ tmps \in [Sha -> Age \cup {Absent}] /\ agents \in [Agent -> Sha \cup {NoBundle}]
      /\ uploads \in Nat /\ crashes \in Nat
  BY DEF Kept, BundlesTypeOK
<1>1. ASSUME NEW s \in Sha, Upload(s) PROVE Kept'
  <2>1. ~Stored(s)
    BY <1>1 DEF Upload
  <2>2. /\ blobs' = [blobs EXCEPT ![s] = 0] /\ tmps' = [tmps EXCEPT ![s] = Absent]
        /\ acked' = [acked EXCEPT ![s] = 0]
        /\ uploads' = uploads + 1 /\ uploads < MaxUploads
        /\ UNCHANGED <<agents, crashes>>
    BY <1>1, <2>1 DEF Upload
  <2> QED
    BY <1>0, <2>2 DEF Kept, BundlesTypeOK, AgesAgree, CollectedIsOld, AgentsHaveBundles, Stored
<1>2. ASSUME NEW s \in Sha, UploadCut(s) PROVE Kept'
  BY <1>0, <1>2
  DEF UploadCut, Kept, BundlesTypeOK, AgesAgree, CollectedIsOld, AgentsHaveBundles, Stored
<1>3. ASSUME NEW a \in Agent, Delete(a) PROVE Kept'
  BY <1>0, <1>3
  DEF Delete, Kept, BundlesTypeOK, AgesAgree, CollectedIsOld, AgentsHaveBundles, Stored
<1>4. ASSUME NEW a \in Agent, NEW s \in Sha, Create(a, s) PROVE Kept'
  <2>1. Stored(s)
    BY <1>0, <1>4 DEF Create, Kept, CollectedIsOld, Stored
  <2> QED
    BY <1>0, <1>4, <2>1
    DEF Create, Kept, BundlesTypeOK, AgesAgree, CollectedIsOld, AgentsHaveBundles, Stored
<1>5. CASE Sweep
  <2> DEFINE old == {s \in Sha \ Live : blobs[s] >= Grace}
             cut == {s \in Sha : tmps[s] > Grace}
  <2>1. /\ blobs' = [s \in Sha |-> IF s \in old THEN Absent ELSE blobs[s]]
        /\ tmps' = [s \in Sha |-> IF s \in cut THEN Absent ELSE tmps[s]]
        /\ UNCHANGED <<agents, acked, uploads, crashes>>
    BY <1>5 DEF Sweep
  <2>2. BundlesTypeOK'
    BY NextTypes DEF Kept
  <2>3. AgesAgree'
    BY <1>0, <2>1 DEF Kept, AgesAgree
  <2>4. CollectedIsOld'
    BY <1>0, <2>1 DEF Kept, AgesAgree, CollectedIsOld
  <2>5. AgentsHaveBundles'
    BY <1>0, <2>1 DEF Kept, AgentsHaveBundles, Stored, Live
  <2> QED
    BY <2>2, <2>3, <2>4, <2>5 DEF Kept
<1>6. CASE Tick
  <2>1. /\ blobs' = Aged(blobs) /\ tmps' = Aged(tmps) /\ acked' = Aged(acked)
        /\ UNCHANGED <<agents, uploads, crashes>>
    BY <1>6 DEF Tick
  <2>2. BundlesTypeOK'
    BY NextTypes DEF Kept
  <2>3. AgesAgree'
    BY <1>0, <2>1, AgedType DEF Kept, AgesAgree, Aged
  <2>4. CollectedIsOld'
    <3> SUFFICES ASSUME NEW s \in Sha, blobs'[s] = Absent, acked'[s] # Absent
                 PROVE  acked'[s] >= Grace
      BY DEF CollectedIsOld
    <3>1. blobs[s] = Absent /\ acked[s] # Absent
      BY <1>0, <2>1, AgedType
    <3>2. acked[s] >= Grace /\ acked[s] \in Nat
      BY <1>0, <3>1 DEF Kept, CollectedIsOld
    <3> QED
      BY <1>0, <2>1, <3>2, AgedType
  <2>5. AgentsHaveBundles'
    BY <1>0, <2>1, AgedType DEF Kept, AgentsHaveBundles, Stored
  <2> QED
    BY <2>2, <2>3, <2>4, <2>5 DEF Kept
<1>7. CASE UNCHANGED bundlesVars
  BY <1>7
  DEF bundlesVars, Kept, BundlesTypeOK, AgesAgree, CollectedIsOld, AgentsHaveBundles, Stored
<1> QED
  BY <1>1, <1>2, <1>3, <1>4, <1>5, <1>6, <1>7 DEF BundlesNext

LEMMA KeptInvariant == ASSUME Again = FALSE PROVE BundlesSpec => []Kept
<1>1. Kept /\ [BundlesNext]_bundlesVars => Kept'
  BY NextKept
<1> QED
  BY InitKept, <1>1, PTL DEF BundlesSpec

\* "An in-use or just-uploaded bundle is never a candidate" (control-plane/
\* server.js:574), as long as clients do not upload a bundle that is stored: no
\* agent is without its bundle, for any number of bundles and agents.
THEOREM BundlesKept == ASSUME Again = FALSE PROVE BundlesSpec => []AgentsHaveBundles
  BY KeptInvariant, PTL DEF Kept

\* What is in the store was uploaded entirely, whatever was cut short or repeated.
THEOREM StoreTypeCorrect == BundlesSpec => []BundlesTypeOK
<1>1. BundlesInit => BundlesTypeOK
  BY InitKept DEF Kept
<1> QED
  BY <1>1, NextTypes, PTL DEF BundlesSpec
=============================================================================
