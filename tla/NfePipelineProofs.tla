--------------------------- MODULE NfePipelineProofs ---------------------------
(***************************************************************************)
(* Theorems about the pipeline, for any number of customers, sales,        *)
(* requests, days, registrations, executions of the parents and failures.  *)
(***************************************************************************)
EXTENDS NfePipeline, FiniteSetTheorems, TLAPS

LEMMA NoRecords ==
    /\ NoRow.status = "absent" /\ NoRow.count = 0
    /\ NoRow \in [status : Statuses \cup {"absent"}, count : 0..MaxSendAttempts]
    /\ NoFetch.pc = "off"
    /\ NoFetch \in [pc : {"off", "fetch", "enqueue"}, id : Nat, created : Nat, found : SUBSET Sales]
    /\ NoWork.pc = "off"
    /\ NoWork \in [pc : {"off", "claim", "mail", "finalize"}, id : Nat,
                   target : {"none", "SENT", "FAILED_TRANSIENT", "FAILED_FINAL"}]
    /\ NoCustomer.id = 0 /\ NoCustomer.created = 0
  BY PipelineAssumption DEF NoRow, NoFetch, NoWork, NoCustomer, Statuses

LEMMA BuyerIsCustomer == \A s \in Sales : Buyer[s] \in Customers
  BY PipelineAssumption

\* One more child in a pool that has room is not one too many.
LEMMA PoolHolds ==
    ASSUME NEW U, IsFiniteSet(U), NEW S \in SUBSET U, NEW T \in SUBSET U,
           \/ T \subseteq S /\ Cardinality(S) <= MaxConcurrentChildren
           \/ Cardinality(S) < MaxConcurrentChildren /\ \E x : T \subseteq S \cup {x}
    PROVE  Cardinality(T) <= MaxConcurrentChildren
<1>1. /\ IsFiniteSet(S) /\ IsFiniteSet(T) /\ Cardinality(S) \in Nat /\ Cardinality(T) \in Nat
      /\ MaxConcurrentChildren \in Nat
  BY FS_Subset, FS_CardinalityType, PipelineAssumption
<1>2. CASE T \subseteq S /\ Cardinality(S) <= MaxConcurrentChildren
  <2>1. Cardinality(T) <= Cardinality(S)
    BY <1>1, <1>2, FS_Subset
  <2>2. QED
    BY <1>1, <1>2, <2>1
<1>3. ASSUME NEW x, T \subseteq S \cup {x}, Cardinality(S) < MaxConcurrentChildren
      PROVE  Cardinality(T) <= MaxConcurrentChildren
  <2>1. IsFiniteSet(S \cup {x}) /\ Cardinality(S \cup {x}) <= Cardinality(S) + 1
    BY <1>1, FS_AddElement
  <2>2. Cardinality(T) <= Cardinality(S \cup {x}) /\ Cardinality(S \cup {x}) \in Nat
    BY <1>3, <2>1, FS_Subset, FS_CardinalityType
  <2>3. QED
    BY <1>1, <1>3, <2>1, <2>2
<1>4. QED
  BY <1>2, <1>3

--------------------------------------------------------------------------------
(* What a step leaves alone stays as it was *)

LEMMA CustomersKept == CustomersTyped /\ UNCHANGED <<time, customer, lastId, issued, api>> => CustomersTyped'
  BY DEF CustomersTyped, time

LEMMA SalesKept == SalesTyped /\ UNCHANGED <<rows, mails, reported>> => SalesTyped'
  BY DEF SalesTyped

LEMMA FetchesKept == DiscoveryTyped /\ UNCHANGED <<day, discovery, child, due>> => DiscoveryTyped'
  BY DEF DiscoveryTyped, Fetching

LEMMA WorkKept ==
    /\ ProcessingTyped /\ UNCHANGED <<processing, work>> => ProcessingTyped'
    /\ ProcessingOk /\ UNCHANGED <<processing, work>> => ProcessingOk'
  BY DEF ProcessingTyped, ProcessingOk, Working

LEMMA SaleKept ==
    ASSUME PipelineInv, NEW s \in Sales, now' >= now, now' \in Nat, reported \subseteq reported',
           UNCHANGED <<issued[s], rows[s], customer[Buyer[s]], mails[s], work[s]>>
    PROVE  SaleOk(s)'
<1>1. SaleOk(s) /\ now \in Nat /\ issued[s].at \in Nat
  BY DEF PipelineInv, PipelineTypeOK, CustomersTyped
<1>2. issued'[s].at < now'
  BY <1>1 DEF SaleOk
<1>3. Covered(s)' <=> Covered(s)
  BY DEF Covered
<1>4. QED
  BY <1>1, <1>2, <1>3 DEF SaleOk

\* The bounds of what is told of a customer may grow, and sales may be queued.
LEMMA FetchKept ==
    ASSUME PipelineInv, NEW c \in Customers, child'[c] = child[c], due'[c] = due[c],
           discovery'.day = discovery.day, discovery'.results[c] = discovery.results[c],
           customer'[c] = customer[c], lastId' = lastId, UNCHANGED issued,
           \A s \in Sales : Buyer[s] = c /\ rows'[s] = NoRow => rows[s] = NoRow
    PROVE  FetchOk(c)'
<1>1. FetchOk(c) /\ due[c].sales \in SUBSET Sales
  BY DEF PipelineInv, DiscoveryOk, PipelineTypeOK, DiscoveryTyped
<1>2. \A s : \A x, d : Candidate(s, x, d)' <=> Candidate(s, x, d)
  BY DEF Candidate
<1>3. child[c].pc # "off" => Loaded(c, child[c].id, child[c].created)'
  BY <1>1, <1>2 DEF FetchOk, Loaded
<1>4. QED
  BY <1>1, <1>3 DEF FetchOk

LEMMA DiscoveryKept ==
    ASSUME PipelineInv, UNCHANGED <<discovery, child, due, customer, lastId, issued>>,
           \A s \in Sales : rows'[s] = NoRow => rows[s] = NoRow
    PROVE  DiscoveryOk'
<1>1. DiscoveryOk
  BY DEF PipelineInv
<1>2. \A c \in Customers : FetchOk(c)'
  BY FetchKept
<1>3. \A s : \A x, d : Candidate(s, x, d)' <=> Candidate(s, x, d)
  BY DEF Candidate
<1>4. \A q \in discovery.queue : Loaded(q.c, q.id, q.created)'
  BY <1>1, <1>3 DEF DiscoveryOk, Loaded
<1>5. QED
  BY <1>1, <1>2, <1>4 DEF DiscoveryOk, Fetching

\* A sale that is queued has a customer.
LEMMA TypesFromParts ==
    ASSUME CustomersTyped', SalesTyped', DiscoveryTyped', ProcessingTyped',
           runs' \in 0..MaxRuns, faults' \in 0..MaxFaults, \A s \in Sales : SaleOk(s)'
    PROVE  PipelineTypeOK'
  BY DEF PipelineTypeOK, SaleOk, Covered

LEMMA FaultCounts == PipelineInv /\ Fault => faults' \in 0..MaxFaults
  BY PipelineAssumption DEF Fault, PipelineInv, PipelineTypeOK

--------------------------------------------------------------------------------
(* Clients, the ERP and the clock *)

LEMMA InitInv == PipelineInit => PipelineInv
<1> SUFFICES ASSUME PipelineInit PROVE PipelineInv
  OBVIOUS
<1>1. Fetching = {} /\ Working = {}
  BY NoRecords DEF PipelineInit, Fetching, Working
<1>2. now = 1 /\ day = 0 /\ lastId = 0 /\ faults = 0 /\ runs = 0
  BY DEF PipelineInit
<1>3. CustomersTyped
  <2>1. now \in 1..MaxNow /\ day \in 0..MaxDay /\ lastId \in 0..MaxIds
    BY <1>2, PipelineAssumption
  <2>2. customer \in [Customers -> [id : 0..lastId, created : 0..MaxNow]]
    BY <1>2, PipelineAssumption DEF PipelineInit, NoCustomer
  <2>3. issued \in [Sales -> [at : 0..MaxNow, day : 0..MaxDay]]
    BY <1>2, PipelineAssumption DEF PipelineInit
  <2>4. api \in [Clients -> [c : Customers \cup {0}, id : 0..lastId]]
    BY <1>2 DEF PipelineInit, NoRequest
  <2>5. QED
    BY <2>1, <2>2, <2>3, <2>4 DEF CustomersTyped
<1>4. SalesTyped
  BY NoRecords DEF PipelineInit, SalesTyped
<1>5. /\ Cardinality(Fetching) <= MaxConcurrentChildren
      /\ Cardinality(Working) <= MaxConcurrentChildren
  BY <1>1, FS_EmptySet, PipelineAssumption
<1>6. DiscoveryTyped
  <2>1. 0 \in 0..day
    BY <1>2
  <2>2. QED
    BY <1>5, <2>1, NoRecords DEF PipelineInit, DiscoveryTyped, NothingDue
<1>7. ProcessingTyped
  BY <1>5, NoRecords DEF PipelineInit, ProcessingTyped
<1>8. ASSUME NEW s \in Sales PROVE SaleOk(s) /\ rows[s] = NoRow
  <2>1. /\ issued[s].at = 0 /\ rows[s] = NoRow /\ mails[s] = 0 /\ work[s].pc = "off"
    BY NoRecords DEF PipelineInit
  <2>2. QED
    BY <1>2, <2>1, NoRecords DEF SaleOk, Covered
<1>9. ProcessingOk
  BY <1>1 DEF PipelineInit, ProcessingOk
<1>10. DiscoveryOk
  BY <1>1, NoRecords DEF PipelineInit, DiscoveryOk, FetchOk
<1>11. runs \in 0..MaxRuns /\ faults \in 0..MaxFaults
  BY <1>2, PipelineAssumption
<1>12. QED
  BY <1>3, <1>4, <1>6, <1>7, <1>8, <1>9, <1>10, <1>11 DEF PipelineInv, PipelineTypeOK

\* The parts of the invariant, for the steps below.
LEMMA InvParts ==
    ASSUME PipelineInv
    PROVE  /\ CustomersTyped /\ SalesTyped /\ DiscoveryTyped /\ ProcessingTyped
           /\ ProcessingOk /\ DiscoveryOk /\ \A s \in Sales : SaleOk(s)
           /\ runs \in 0..MaxRuns /\ faults \in 0..MaxFaults
           /\ now \in Nat /\ day \in Nat /\ lastId \in Nat
  BY PipelineAssumption DEF PipelineInv, PipelineTypeOK, CustomersTyped

LEMMA StampIs == PipelineInv /\ Stamp => now' = now + 1 /\ now' \in 1..MaxNow /\ now' \in Nat
  BY InvParts, PipelineAssumption DEF Stamp, CustomersTyped

LEMMA NextDayInv == PipelineInv /\ NextDay => PipelineInv'
<1> SUFFICES ASSUME PipelineInv, NextDay PROVE PipelineInv'
  OBVIOUS
<1>1. /\ now' = now + 1 /\ now' \in 1..MaxNow /\ now' \in Nat
      /\ day' = day + 1 /\ day' \in 0..MaxDay /\ now \in Nat
      /\ UNCHANGED <<tables, issued, api, discovering, sending, bounds>>
  BY InvParts, StampIs, PipelineAssumption DEF NextDay, CustomersTyped
<1>2. CustomersTyped'
  BY <1>1, InvParts DEF CustomersTyped, tables
<1>3. DiscoveryTyped'
  <2>1. 0..day \subseteq 0..day'
    BY <1>1, InvParts
  <2>2. QED
    BY <1>1, <2>1, InvParts DEF DiscoveryTyped, Fetching, discovering
<1>4. \A s \in Sales : SaleOk(s)'
  BY <1>1, SaleKept DEF tables, sending
<1>5. DiscoveryOk'
  BY <1>1, DiscoveryKept DEF tables, discovering
<1>6. SalesTyped' /\ ProcessingTyped' /\ ProcessingOk' /\ UNCHANGED <<runs, faults>>
  BY <1>1, InvParts, SalesKept, WorkKept DEF tables, sending, bounds
<1>7. QED
  BY <1>2, <1>3, <1>4, <1>5, <1>6, InvParts, TypesFromParts DEF PipelineInv

LEMMA IssueInv ==
    ASSUME PipelineInv, NEW s \in Sales, Issue(s)
    PROVE  PipelineInv'
<1>1. /\ now' = now + 1 /\ now' \in 1..MaxNow /\ now \in 1..MaxNow /\ now' \in Nat
      /\ now \in Nat /\ issued[s].at = 0 /\ issued' = [issued EXCEPT ![s] = [at |-> now, day |-> day]]
      /\ UNCHANGED <<day, tables, api, discovering, sending, bounds>>
  BY InvParts, StampIs DEF Issue, CustomersTyped
<1>2. issued \in [Sales -> [at : 0..MaxNow, day : 0..MaxDay]] /\ day \in 0..MaxDay
  BY InvParts DEF CustomersTyped
<1>3. /\ issued' \in [Sales -> [at : 0..MaxNow, day : 0..MaxDay]]
      /\ issued'[s] = [at |-> now, day |-> day]
      /\ \A t \in Sales \ {s} : issued'[t] = issued[t]
  <2>1. [at |-> now, day |-> day] \in [at : 0..MaxNow, day : 0..MaxDay]
    BY <1>1, <1>2
  <2>2. QED
    BY <1>1, <1>2, <2>1
<1>4. CustomersTyped'
  BY <1>1, <1>3, InvParts DEF CustomersTyped, tables
<1>5. SaleOk(s)'
  <2>1. SaleOk(s) /\ issued'[s].at = now /\ rows[s] = NoRow
    BY <1>1, <1>3, InvParts DEF SaleOk, Covered
  <2>2. mails[s] = 0 /\ work[s].pc \in {"off", "claim"}
    BY <1>1, <2>1 DEF SaleOk
  <2>3. QED
    BY <1>1, <2>1, <2>2, NoRecords DEF SaleOk, Covered, tables, sending
<1>6. \A t \in Sales : SaleOk(t)'
  <2>1. ASSUME NEW t \in Sales \ {s} PROVE SaleOk(t)'
    BY <1>1, <1>3, SaleKept DEF tables, sending
  <2>2. QED
    BY <1>5, <2>1
<1>7. \A t \in Sales : \A x, d : Candidate(t, x, d) => Candidate(t, x, d)'
  BY <1>1, <1>3 DEF Candidate
<1>8. DiscoveryOk'
  <2>1. DiscoveryOk /\ due \in [Customers -> [id : Nat, sales : SUBSET Sales]]
    BY InvParts DEF DiscoveryTyped
  <2>2. discovery \in [pc : {"idle", "load", "run", "done"}, day : 0..day,
                      queue : SUBSET [c : Customers, id : Nat, created : Nat],
                      results : [Customers -> {"none", "SUCCESS", "FAILED"}]]
    BY InvParts DEF DiscoveryTyped
  <2>3. ASSUME NEW c \in Customers, NEW id, NEW created, Loaded(c, id, created)
        PROVE  Loaded(c, id, created)'
    BY <1>1, <1>7, <2>1, <2>3 DEF Loaded, tables, discovering
  <2>4. ASSUME NEW c \in Customers PROVE FetchOk(c)'
    <3>1. child[c].found \in SUBSET Sales
      BY InvParts DEF DiscoveryTyped
    <3>2. child[c].pc # "off" => Loaded(c, child[c].id, child[c].created)'
      BY <1>1, <2>1, <2>3 DEF DiscoveryOk, FetchOk, discovering
    <3>3. ASSUME NEW t \in child[c].found, issued[t].at # 0 PROVE issued'[t] = issued[t]
      BY <1>1, <1>3, <3>1, <3>3
    <3>4. QED
      BY <1>1, <2>1, <3>2, <3>3 DEF DiscoveryOk, FetchOk, tables, discovering
  <2>5. \A q \in discovery.queue : Loaded(q.c, q.id, q.created)'
    <3>1. \A q \in discovery.queue : q.c \in Customers
      BY <2>2
    <3>2. QED
      BY <2>1, <2>3, <3>1 DEF DiscoveryOk
  <2>6. QED
    BY <1>1, <2>1, <2>4, <2>5 DEF DiscoveryOk, Fetching, discovering
<1>9. /\ SalesTyped' /\ DiscoveryTyped' /\ ProcessingTyped' /\ ProcessingOk'
      /\ UNCHANGED <<runs, faults>>
  BY <1>1, InvParts, SalesKept, FetchesKept, WorkKept DEF tables, discovering, sending, bounds
<1>10. QED
  BY <1>4, <1>6, <1>8, <1>9, InvParts, TypesFromParts DEF PipelineInv

LEMMA RegisterInv ==
    ASSUME PipelineInv, NEW c \in Customers, Register(c)
    PROVE  PipelineInv'
<1>1. /\ now' = now + 1 /\ now' \in 1..MaxNow /\ now \in 1..MaxNow /\ now' \in Nat
      /\ now \in Nat /\ customer[c].id = 0 /\ lastId' = lastId + 1 /\ lastId' \in 0..MaxIds
      /\ customer' = [customer EXCEPT ![c] = [id |-> lastId + 1, created |-> now]]
      /\ UNCHANGED <<day, rows, issued, api, discovering, sending, bounds>>
  BY InvParts, StampIs, PipelineAssumption DEF Register, CustomersTyped
<1>2. /\ customer \in [Customers -> [id : 0..lastId, created : 0..MaxNow]]
      /\ lastId \in Nat /\ 0..lastId \subseteq 0..lastId'
      /\ api \in [Clients -> [c : Customers \cup {0}, id : 0..lastId]]
  BY <1>1, InvParts DEF CustomersTyped
<1>3. /\ customer' \in [Customers -> [id : 0..lastId', created : 0..MaxNow]]
      /\ customer'[c] = [id |-> lastId + 1, created |-> now]
      /\ \A d \in Customers \ {c} : customer'[d] = customer[d]
  <2>1. [id |-> lastId + 1, created |-> now] \in [id : 0..lastId', created : 0..MaxNow]
    BY <1>1, <1>2
  <2>2. customer \in [Customers -> [id : 0..lastId', created : 0..MaxNow]]
    BY <1>2
  <2>3. QED
    BY <1>1, <2>1, <2>2
<1>4. CustomersTyped'
  <2>1. api' \in [Clients -> [c : Customers \cup {0}, id : 0..lastId']]
    BY <1>1, <1>2
  <2>2. QED
    BY <1>1, <1>3, <2>1, InvParts DEF CustomersTyped
<1>5. ASSUME NEW s \in Sales PROVE SaleOk(s)'
  <2>1. Buyer[s] \in Customers /\ SaleOk(s) /\ issued[s].at \in Nat
    BY InvParts, BuyerIsCustomer DEF CustomersTyped
  <2>2. CASE Buyer[s] # c
    BY <1>1, <1>3, <2>1, <2>2, SaleKept DEF sending
  <2>3. CASE Buyer[s] = c
    <3>1. rows[s] = NoRow
      BY <1>1, <2>1, <2>3 DEF SaleOk, Covered
    <3>2. ~Covered(s)'
      BY <1>1, <1>3, <2>1, <2>3 DEF SaleOk, Covered
    <3>3. QED
      BY <1>1, <2>1, <3>1, <3>2, NoRecords DEF SaleOk, sending
  <2>4. QED
    BY <2>2, <2>3
<1>6. DiscoveryOk'
  <2>1. DiscoveryOk
    BY InvParts
  <2>2. ASSUME NEW d \in Customers, NEW id, NEW created, Loaded(d, id, created)
        PROVE  Loaded(d, id, created)'
    <3>1. /\ id \in 1..lastId' /\ id # lastId + 1 /\ due'[d].id = id
      BY <1>1, <1>2, <2>2 DEF Loaded, discovering
    <3>2. customer'[d].id = id => customer'[d].created = created
      BY <1>3, <2>2, <3>1 DEF Loaded
    <3>3. \A s : \A x, y : Candidate(s, x, y)' <=> Candidate(s, x, y)
      BY <1>1 DEF Candidate
    <3>4. QED
      BY <1>1, <2>2, <3>1, <3>2, <3>3 DEF Loaded, discovering
  <2>3. ASSUME NEW d \in Customers PROVE FetchOk(d)'
    <3>1. FetchOk(d)
      BY <2>1 DEF DiscoveryOk
    <3>2. child[d].pc # "off" => Loaded(d, child[d].id, child[d].created)'
      BY <1>1, <2>2, <3>1 DEF FetchOk, discovering
    <3>3. due[d].id \in 1..lastId => due[d].id \in 1..lastId' /\ due[d].id # lastId + 1
      BY <1>1, <1>2
    <3>4. due[d].id \in 1..lastId /\ customer'[d].id = due[d].id => customer'[d] = customer[d]
      BY <1>3, <3>3
    <3>5. QED
      BY <1>1, <3>1, <3>2, <3>3, <3>4 DEF FetchOk, discovering
  <2>4. discovery \in [pc : {"idle", "load", "run", "done"}, day : 0..day,
                      queue : SUBSET [c : Customers, id : Nat, created : Nat],
                      results : [Customers -> {"none", "SUCCESS", "FAILED"}]]
    BY InvParts DEF DiscoveryTyped
  <2>5. \A q \in discovery.queue : q.c \in Customers
    BY <2>4
  <2>6. QED
    BY <1>1, <2>1, <2>2, <2>3, <2>5 DEF DiscoveryOk, Fetching, discovering
<1>7. /\ SalesTyped' /\ DiscoveryTyped' /\ ProcessingTyped' /\ ProcessingOk'
      /\ UNCHANGED <<runs, faults>>
  BY <1>1, InvParts, SalesKept, FetchesKept, WorkKept DEF discovering, sending, bounds
<1>8. QED
  BY <1>4, <1>5, <1>6, <1>7, InvParts, TypesFromParts DEF PipelineInv

LEMMA LookUpInv ==
    ASSUME PipelineInv, NEW r \in Clients, NEW c \in Customers, LookUp(r, c)
    PROVE  PipelineInv'
<1>1. /\ api' = [api EXCEPT ![r] = [c |-> c, id |-> customer[c].id]]
      /\ UNCHANGED <<time, tables, issued, discovering, sending, bounds>>
  BY DEF LookUp
<1>2. CustomersTyped'
  <2>1. customer[c].id \in 0..lastId /\ api \in [Clients -> [c : Customers \cup {0}, id : 0..lastId]]
    BY InvParts DEF CustomersTyped
  <2>2. api' \in [Clients -> [c : Customers \cup {0}, id : 0..lastId]]
    BY <1>1, <2>1
  <2>3. QED
    BY <1>1, <2>2, InvParts DEF CustomersTyped, time, tables
<1>3. \A s \in Sales : SaleOk(s)'
  BY <1>1, InvParts, SaleKept DEF time, tables, sending
<1>4. DiscoveryOk'
  BY <1>1, DiscoveryKept DEF tables, discovering
<1>5. /\ SalesTyped' /\ DiscoveryTyped' /\ ProcessingTyped' /\ ProcessingOk'
      /\ UNCHANGED <<runs, faults>>
  BY <1>1, InvParts, SalesKept, FetchesKept, WorkKept DEF time, tables, discovering, sending, bounds
<1>6. QED
  BY <1>2, <1>3, <1>4, <1>5, InvParts, TypesFromParts DEF PipelineInv

\* A registration that is gone takes its sales along and never covers one again.
LEMMA DeleteInv ==
    ASSUME PipelineInv, NEW r \in Clients, Delete(r)
    PROVE  PipelineInv'
<1> DEFINE gone == WithId(r)
<1>1. /\ customer' = [c \in Customers |-> IF c \in gone THEN NoCustomer ELSE customer[c]]
      /\ rows' = [s \in Sales |-> IF Buyer[s] \in gone THEN NoRow ELSE rows[s]]
      /\ api' = [api EXCEPT ![r] = NoRequest]
      /\ UNCHANGED <<time, lastId, issued, discovering, sending, bounds>>
  BY DEF Delete
<1> HIDE DEF gone
<1>2. /\ customer \in [Customers -> [id : 0..lastId, created : 0..MaxNow]] /\ lastId \in Nat
      /\ api \in [Clients -> [c : Customers \cup {0}, id : 0..lastId]]
  BY InvParts DEF CustomersTyped
<1>3. CustomersTyped'
  <2>1. NoCustomer \in [id : 0..lastId, created : 0..MaxNow] /\ NoRequest \in [c : Customers \cup {0}, id : 0..lastId]
    BY <1>2, PipelineAssumption DEF NoCustomer, NoRequest
  <2>2. customer' \in [Customers -> [id : 0..lastId, created : 0..MaxNow]]
    BY <1>1, <1>2, <2>1
  <2>3. api' \in [Clients -> [c : Customers \cup {0}, id : 0..lastId]]
    BY <1>1, <1>2, <2>1
  <2>4. QED
    BY <1>1, <2>2, <2>3, InvParts DEF CustomersTyped, time
<1>4. SalesTyped'
  <2>1. rows' \in [Sales -> [status : Statuses \cup {"absent"}, count : 0..MaxSendAttempts]]
    BY <1>1, NoRecords, InvParts DEF SalesTyped
  <2>2. QED
    BY <1>1, <2>1, InvParts DEF SalesTyped, sending
<1>5. ASSUME NEW s \in Sales PROVE SaleOk(s)'
  <2>1. Buyer[s] \in Customers /\ SaleOk(s)
    BY InvParts, BuyerIsCustomer
  <2>2. CASE Buyer[s] \notin gone
    BY <1>1, <2>1, <2>2, InvParts, SaleKept DEF time, sending
  <2>3. CASE Buyer[s] \in gone
    <3>1. rows'[s] = NoRow /\ customer'[Buyer[s]].id = 0
      BY <1>1, <2>1, <2>3, NoRecords
    <3>2. ~Covered(s)'
      BY <3>1 DEF Covered
    <3>3. QED
      BY <1>1, <2>1, <3>1, <3>2, NoRecords DEF SaleOk, time, sending
  <2>4. QED
    BY <2>2, <2>3
<1>6. DiscoveryOk'
  <2>1. DiscoveryOk
    BY InvParts
  <2>2. ASSUME NEW d \in Customers
        PROVE  customer'[d] = IF d \in gone THEN NoCustomer ELSE customer[d]
    BY <1>1
  <2>3. ASSUME NEW d \in Customers, NEW id, NEW created, Loaded(d, id, created)
        PROVE  Loaded(d, id, created)'
    <3>1. id # 0
      BY <1>2, <2>3 DEF Loaded
    <3>2. customer'[d].id = id => customer'[d].created = created
      BY <2>2, <2>3, <3>1, NoRecords DEF Loaded
    <3>3. \A s : \A x, y : Candidate(s, x, y)' <=> Candidate(s, x, y)
      BY <1>1 DEF Candidate
    <3>4. QED
      BY <1>1, <2>3, <3>2, <3>3 DEF Loaded, discovering
  <2>4. ASSUME NEW d \in Customers PROVE FetchOk(d)'
    <3>1. FetchOk(d)
      BY <2>1 DEF DiscoveryOk
    <3>2. child[d].pc # "off" => Loaded(d, child[d].id, child[d].created)'
      BY <1>1, <2>3, <3>1 DEF FetchOk, discovering
    <3>3. due[d].id \in 1..lastId /\ customer'[d].id = due[d].id =>
             d \notin gone /\ customer[d].id = due[d].id
      BY <1>2, <2>2, NoRecords
    <3>4. due[d].sales \in SUBSET Sales
      BY InvParts DEF DiscoveryTyped
    <3>5. d \notin gone => \A s \in due[d].sales : Buyer[s] = d => rows'[s] = rows[s]
      BY <1>1, <3>4
    <3>6. QED
      BY <1>1, <3>1, <3>2, <3>3, <3>5 DEF FetchOk, discovering
  <2>5. discovery \in [pc : {"idle", "load", "run", "done"}, day : 0..day,
                      queue : SUBSET [c : Customers, id : Nat, created : Nat],
                      results : [Customers -> {"none", "SUCCESS", "FAILED"}]]
    BY InvParts DEF DiscoveryTyped
  <2>6. \A q \in discovery.queue : q.c \in Customers
    BY <2>5
  <2>7. QED
    BY <1>1, <2>1, <2>3, <2>4, <2>6 DEF DiscoveryOk, Fetching, discovering
<1>7. DiscoveryTyped' /\ ProcessingTyped' /\ ProcessingOk' /\ UNCHANGED <<runs, faults>>
  BY <1>1, InvParts, FetchesKept, WorkKept DEF time, discovering, sending, bounds
<1>8. QED
  BY <1>3, <1>4, <1>5, <1>6, <1>7, InvParts, TypesFromParts DEF PipelineInv

--------------------------------------------------------------------------------
(* Discovery *)

LEMMA DiscoveryParts ==
    ASSUME PipelineInv
    PROVE  /\ discovery.pc \in {"idle", "load", "run", "done"} /\ discovery.day \in 0..day
           /\ discovery.queue \in SUBSET [c : Customers, id : Nat, created : Nat]
           /\ discovery.results \in [Customers -> {"none", "SUCCESS", "FAILED"}]
           /\ child \in [Customers -> [pc : {"off", "fetch", "enqueue"}, id : Nat, created : Nat,
                                       found : SUBSET Sales]]
           /\ due \in [Customers -> [id : Nat, sales : SUBSET Sales]]
           /\ Cardinality(Fetching) <= MaxConcurrentChildren
  BY InvParts DEF DiscoveryTyped

\* A step of the discovery that leaves the tables alone.
LEMMA DiscoveryOnly ==
    ASSUME PipelineInv, UNCHANGED <<time, tables, issued, api, sending>>,
           DiscoveryTyped', DiscoveryOk', runs' \in 0..MaxRuns, faults' \in 0..MaxFaults
    PROVE  PipelineInv'
<1>1. \A s \in Sales : SaleOk(s)'
  BY InvParts, SaleKept DEF time, tables, sending
<1>2. CustomersTyped' /\ SalesTyped' /\ ProcessingTyped' /\ ProcessingOk'
  BY InvParts, CustomersKept, SalesKept, WorkKept DEF tables, sending
<1>3. QED
  BY <1>1, <1>2, TypesFromParts DEF PipelineInv

LEMMA FetchingSize ==
    ASSUME NEW S \in SUBSET Customers, NEW T \in SUBSET Customers,
           \/ T \subseteq S /\ Cardinality(S) <= MaxConcurrentChildren
           \/ Cardinality(S) < MaxConcurrentChildren /\ \E x : T \subseteq S \cup {x}
    PROVE  Cardinality(T) <= MaxConcurrentChildren
  BY PoolHolds, PipelineAssumption

LEMMA StartDiscoveryInv == PipelineInv /\ StartDiscovery => PipelineInv'
<1> SUFFICES ASSUME PipelineInv, StartDiscovery PROVE PipelineInv'
  OBVIOUS
<1>1. /\ discovery.pc \in {"idle", "done"} /\ runs' = runs + 1 /\ runs' \in 0..MaxRuns
      /\ discovery' = [discovery EXCEPT !.pc = "load", !.day = day,
                            !.results = [c \in Customers |-> "none"]]
      /\ due' = NothingDue
      /\ UNCHANGED <<time, tables, issued, api, child, sending, faults>>
  BY InvParts, DiscoveryParts, PipelineAssumption DEF StartDiscovery, DiscoveryRuns
<1>2. /\ discovery'.pc = "load" /\ discovery'.day = day
      /\ discovery'.queue = discovery.queue /\ discovery'.results = [c \in Customers |-> "none"]
      /\ discovery' \in [pc : {"idle", "load", "run", "done"}, day : 0..day,
                      queue : SUBSET [c : Customers, id : Nat, created : Nat],
                      results : [Customers -> {"none", "SUCCESS", "FAILED"}]]
  <2> DEFINE results == [c \in Customers |-> "none"]
  <2>1. results \in [Customers -> {"none", "SUCCESS", "FAILED"}] /\ day \in 0..day
    BY InvParts
  <2>2. discovery \in [pc : {"idle", "load", "run", "done"}, day : 0..day,
                      queue : SUBSET [c : Customers, id : Nat, created : Nat],
                      results : [Customers -> {"none", "SUCCESS", "FAILED"}]]
    BY InvParts DEF DiscoveryTyped
  <2>3. discovery' = [discovery EXCEPT !.pc = "load", !.day = day, !.results = results]
    BY <1>1
  <2> HIDE DEF results
  <2>4. /\ discovery'.pc = "load" /\ discovery'.day = day
        /\ discovery'.queue = discovery.queue /\ discovery'.results = results
    BY <2>2, <2>3
  <2>5. discovery' \in [pc : {"idle", "load", "run", "done"}, day : 0..day,
                      queue : SUBSET [c : Customers, id : Nat, created : Nat],
                      results : [Customers -> {"none", "SUCCESS", "FAILED"}]]
    BY <2>1, <2>2, <2>3
  <2>6. QED
    BY <2>4, <2>5 DEF results
<1>3. DiscoveryTyped'
  BY <1>1, <1>2, DiscoveryParts DEF DiscoveryTyped, Fetching, NothingDue, time
<1>4. discovery.queue = {} /\ Fetching = {}
  BY <1>1, InvParts DEF DiscoveryOk
<1>5. \A c \in Customers : child[c].pc = "off"
  BY <1>4 DEF Fetching
<1>6. DiscoveryOk'
  BY <1>1, <1>2, <1>4, <1>5 DEF DiscoveryOk, FetchOk, Fetching
<1>7. QED
  BY <1>1, <1>3, <1>6, InvParts, DiscoveryOnly

LEMMA LoadCustomersInv == PipelineInv /\ LoadCustomers => PipelineInv'
<1> SUFFICES ASSUME PipelineInv, LoadCustomers PROVE PipelineInv'
  OBVIOUS
<1> DEFINE listed == {[c |-> c, id |-> customer[c].id, created |-> customer[c].created] :
                         c \in Registered}
           found(c) == {s \in Sales : /\ Buyer[s] = c
                                      /\ Candidate(s, customer[c].created, day)}
<1>1. /\ discovery.pc = "load"
      /\ discovery' = [discovery EXCEPT !.queue = listed,
                            !.pc = IF listed = {} THEN "done" ELSE "run"]
      /\ due' = [c \in Customers |-> [id |-> customer[c].id, sales |-> found(c)]]
      /\ UNCHANGED <<time, tables, issued, api, child, sending, bounds>>
  BY DEF LoadCustomers
<1>2. /\ customer \in [Customers -> [id : 0..lastId, created : 0..MaxNow]] /\ lastId \in Nat
      /\ issued \in [Sales -> [at : 0..MaxNow, day : 0..MaxDay]] /\ day \in Nat
      /\ WindowDays \in Nat /\ MaxNow \in Nat
  BY InvParts, PipelineAssumption DEF CustomersTyped
<1>3. ASSUME NEW q \in listed
      PROVE  /\ q.c \in Customers /\ q.id = customer[q.c].id /\ q.created = customer[q.c].created
             /\ q.id \in 1..lastId /\ q \in [c : Customers, id : Nat, created : Nat]
  <2>1. PICK c \in Registered : q = [c |-> c, id |-> customer[c].id, created |-> customer[c].created]
    OBVIOUS
  <2>2. c \in Customers /\ customer[c].id \in 0..lastId /\ customer[c].id # 0 /\ customer[c].created \in Nat
    BY <1>2 DEF Registered
  <2>3. QED
    BY <1>2, <2>1, <2>2
<1>4. listed \in SUBSET [c : Customers, id : Nat, created : Nat]
  BY <1>3
<1>5. \A c \in Customers : due'[c].id = customer[c].id /\ due'[c].sales = found(c)
  BY <1>1
<1>6. due' \in [Customers -> [id : Nat, sales : SUBSET Sales]]
  BY <1>1, <1>2
<1> HIDE DEF listed
<1>7. /\ discovery'.queue = listed /\ discovery'.pc \in {"done", "run"}
      /\ discovery'.pc # "run" => listed = {}
      /\ discovery'.day = discovery.day /\ discovery'.results = discovery.results
      /\ discovery' \in [pc : {"idle", "load", "run", "done"}, day : 0..day,
                      queue : SUBSET [c : Customers, id : Nat, created : Nat],
                      results : [Customers -> {"none", "SUCCESS", "FAILED"}]]
  <2>1. discovery \in [pc : {"idle", "load", "run", "done"}, day : 0..day,
                      queue : SUBSET [c : Customers, id : Nat, created : Nat],
                      results : [Customers -> {"none", "SUCCESS", "FAILED"}]]
    BY InvParts DEF DiscoveryTyped
  <2>2. QED
    BY <1>1, <1>4, <2>1
<1>8. DiscoveryTyped'
  BY <1>1, <1>6, <1>7, DiscoveryParts DEF DiscoveryTyped, Fetching, time
<1>9. /\ Fetching = {} /\ \A c \in Customers : discovery.results[c] = "none"
  BY <1>1, InvParts DEF DiscoveryOk
<1>10. \A c \in Customers : child[c].pc = "off"
  BY <1>9 DEF Fetching
<1>11. ASSUME NEW q \in listed PROVE Loaded(q.c, q.id, q.created)'
  <2>1. /\ q.c \in Customers /\ q.id = customer[q.c].id /\ q.created = customer[q.c].created
        /\ q.id \in 1..lastId
    BY <1>3
  <2>2. ASSUME NEW s \in found(q.c) PROVE Buyer[s] = q.c /\ Candidate(s, q.created, discovery.day)'
    <3>1. discovery.day \in 0..day /\ issued[s].day \in Nat /\ issued' = issued
      BY <1>1, <1>2, DiscoveryParts
    <3>2. Candidate(s, q.created, day)
      BY <2>1
    <3>3. issued[s].day >= discovery.day - WindowDays
      BY <1>2, <3>1, <3>2 DEF Candidate
    <3>4. QED
      BY <1>7, <3>1, <3>2, <3>3 DEF Candidate
  <2>3. QED
    BY <1>1, <1>5, <1>7, <2>1, <2>2 DEF Loaded, tables
<1>12. DiscoveryOk'
  <2>1. \A c \in Customers : FetchOk(c)'
    BY <1>1, <1>7, <1>9, <1>10 DEF FetchOk
  <2>2. Fetching' = {}
    BY <1>1, <1>9 DEF Fetching
  <2>3. QED
    BY <1>7, <1>11, <2>1, <2>2 DEF DiscoveryOk
<1>13. QED
  BY <1>1, <1>8, <1>12, InvParts, DiscoveryOnly DEF bounds

\* The steps that change nothing but the place the parent is at.
LEMMA LoadCustomersFailsInv == PipelineInv /\ LoadCustomersFails => PipelineInv'
<1> SUFFICES ASSUME PipelineInv, LoadCustomersFails PROVE PipelineInv'
  OBVIOUS
<1>1. /\ discovery.pc = "load" /\ faults' \in 0..MaxFaults
      /\ discovery' = [discovery EXCEPT !.pc = "idle"]
      /\ UNCHANGED <<time, tables, issued, api, child, due, sending, runs>>
  BY FaultCounts DEF LoadCustomersFails
<1>2. /\ discovery'.pc = "idle" /\ discovery'.queue = discovery.queue
      /\ discovery'.day = discovery.day /\ discovery'.results = discovery.results
      /\ discovery' \in [pc : {"idle", "load", "run", "done"}, day : 0..day,
                      queue : SUBSET [c : Customers, id : Nat, created : Nat],
                      results : [Customers -> {"none", "SUCCESS", "FAILED"}]]
  BY <1>1, InvParts DEF DiscoveryTyped
<1>3. DiscoveryTyped'
  BY <1>1, <1>2, DiscoveryParts DEF DiscoveryTyped, Fetching, time
<1>4. DiscoveryOk'
  <2>1. DiscoveryOk /\ discovery.queue = {} /\ Fetching = {}
    BY <1>1, InvParts DEF DiscoveryOk
  <2>2. \A c \in Customers : FetchOk(c)'
    BY <1>1, <1>2, FetchKept DEF tables
  <2>3. QED
    BY <1>1, <1>2, <2>1, <2>2 DEF DiscoveryOk, Fetching
<1>5. QED
  BY <1>1, <1>3, <1>4, InvParts, DiscoveryOnly

LEMMA EndDiscoveryInv == PipelineInv /\ EndDiscovery => PipelineInv'
<1> SUFFICES ASSUME PipelineInv, EndDiscovery PROVE PipelineInv'
  OBVIOUS
<1>1. /\ discovery.queue = {} /\ Fetching = {}
      /\ discovery' = [discovery EXCEPT !.pc = "done"]
      /\ UNCHANGED <<time, tables, issued, api, child, due, sending, bounds>>
  BY DEF EndDiscovery
<1>2. /\ discovery'.pc = "done" /\ discovery'.queue = discovery.queue
      /\ discovery'.day = discovery.day /\ discovery'.results = discovery.results
      /\ discovery' \in [pc : {"idle", "load", "run", "done"}, day : 0..day,
                      queue : SUBSET [c : Customers, id : Nat, created : Nat],
                      results : [Customers -> {"none", "SUCCESS", "FAILED"}]]
  BY <1>1, InvParts DEF DiscoveryTyped
<1>3. DiscoveryTyped'
  BY <1>1, <1>2, DiscoveryParts DEF DiscoveryTyped, Fetching, time
<1>4. DiscoveryOk'
  <2>1. \A c \in Customers : FetchOk(c)'
    BY <1>1, <1>2, FetchKept DEF tables
  <2>2. QED
    BY <1>1, <1>2, <2>1 DEF DiscoveryOk, Fetching
<1>5. QED
  BY <1>1, <1>3, <1>4, InvParts, DiscoveryOnly DEF bounds

\* A customer leaves the queue, for a child or for a failure.
LEMMA StartFetchInv == PipelineInv /\ StartFetch => PipelineInv'
<1> SUFFICES ASSUME PipelineInv, StartFetch PROVE PipelineInv'
  OBVIOUS
<1>1. PICK next \in discovery.queue :
         \/ /\ child' = [child EXCEPT ![next.c] =
                           [pc |-> "fetch", id |-> next.id, created |-> next.created, found |-> {}]]
            /\ discovery' = [discovery EXCEPT !.queue = discovery.queue \ {next}]
            /\ UNCHANGED faults
         \/ /\ discovery' = [discovery EXCEPT !.queue = discovery.queue \ {next},
                                              !.results[next.c] = "FAILED"]
            /\ UNCHANGED child /\ (UNCHANGED faults \/ Fault)
  BY DEF StartFetch, Refused
<1>2. /\ discovery.pc = "run" /\ Cardinality(Fetching) < MaxConcurrentChildren
      /\ UNCHANGED <<time, tables, issued, api, due, sending, runs>>
  BY DEF StartFetch, RoomFor
<1>3. faults' \in 0..MaxFaults
  BY <1>1, FaultCounts, InvParts
<1>4. /\ next \in [c : Customers, id : Nat, created : Nat] /\ Loaded(next.c, next.id, next.created)
  BY DiscoveryParts, InvParts DEF DiscoveryOk
<1> DEFINE c == next.c
           fresh == [pc |-> "fetch", id |-> next.id, created |-> next.created, found |-> {}]
<1>5. /\ fresh.pc = "fetch" /\ fresh.id = next.id /\ fresh.created = next.created /\ c \in Customers
      /\ fresh \in [pc : {"off", "fetch", "enqueue"}, id : Nat, created : Nat, found : SUBSET Sales]
  BY <1>4
<1> HIDE DEF c, fresh
<1>6. /\ discovery'.pc = "run" /\ discovery'.queue \subseteq discovery.queue
      /\ discovery'.day = discovery.day
      /\ \A d \in Customers : discovery'.results[d] \in {discovery.results[d], "FAILED"}
      /\ discovery' \in [pc : {"idle", "load", "run", "done"}, day : 0..day,
                      queue : SUBSET [c : Customers, id : Nat, created : Nat],
                      results : [Customers -> {"none", "SUCCESS", "FAILED"}]]
  <2>1. discovery \in [pc : {"idle", "load", "run", "done"}, day : 0..day,
                      queue : SUBSET [c : Customers, id : Nat, created : Nat],
                      results : [Customers -> {"none", "SUCCESS", "FAILED"}]]
    BY InvParts DEF DiscoveryTyped
  <2>2. CASE discovery' = [discovery EXCEPT !.queue = discovery.queue \ {next}]
    BY <1>2, <2>1, <2>2
  <2>3. CASE discovery' = [discovery EXCEPT !.queue = discovery.queue \ {next},
                                            !.results[c] = "FAILED"]
    <3>1. discovery' = [discovery EXCEPT !.queue = discovery.queue \ {next},
                            !.results = [discovery.results EXCEPT ![c] = "FAILED"]]
      BY <2>1, <2>3
    <3>2. /\ [discovery.results EXCEPT ![c] = "FAILED"] \in [Customers -> {"none", "SUCCESS", "FAILED"}]
          /\ \A d \in Customers : [discovery.results EXCEPT ![c] = "FAILED"][d] \in
                                    {discovery.results[d], "FAILED"}
      BY <2>1
    <3>3. QED
      BY <1>2, <2>1, <3>1, <3>2
  <2>4. QED
    BY <1>1, <2>2, <2>3 DEF c
<1>7. child' = child \/ child' = [child EXCEPT ![c] = fresh]
  BY <1>1 DEF c, fresh
<1>8. /\ child' \in [Customers -> [pc : {"off", "fetch", "enqueue"}, id : Nat, created : Nat,
                                   found : SUBSET Sales]]
      /\ \A d \in Customers : child'[d] = child[d] \/ (d = c /\ child'[d] = fresh)
  BY <1>5, <1>7, DiscoveryParts
<1>9. DiscoveryTyped'
  <2>1. Fetching' \subseteq Fetching \cup {c}
    BY <1>8 DEF Fetching
  <2>2. Cardinality(Fetching') <= MaxConcurrentChildren
    <3>1. Fetching \in SUBSET Customers /\ Fetching' \in SUBSET Customers
      BY DEF Fetching
    <3>2. QED
      BY <1>2, <2>1, <3>1, FetchingSize
  <2>3. QED
    BY <1>2, <1>6, <1>8, <2>2, DiscoveryParts DEF DiscoveryTyped, time
<1>10. ASSUME NEW d \in Customers, NEW id, NEW created, Loaded(d, id, created)
       PROVE  Loaded(d, id, created)'
  BY <1>2, <1>6, <1>10 DEF Loaded, Candidate, tables
<1>11. ASSUME NEW d \in Customers PROVE FetchOk(d)'
  <2>1. FetchOk(d)
    BY InvParts DEF DiscoveryOk
  <2>2. discovery'.results[d] = "SUCCESS" => discovery.results[d] = "SUCCESS"
    BY <1>6
  <2>3. CASE child'[d] = child[d]
    <3>1. child[d].pc # "off" => Loaded(d, child[d].id, child[d].created)'
      BY <1>10, <2>1, <2>3 DEF FetchOk
    <3>2. QED
      BY <1>2, <2>1, <2>2, <2>3, <3>1 DEF FetchOk, tables
  <2>4. CASE d = c /\ child'[d] = fresh
    <3>1. Loaded(d, child[d].id, child[d].created)'
      BY <1>4, <1>5, <1>10, <2>4 DEF c
    <3>2. QED
      BY <1>2, <1>5, <2>1, <2>2, <2>4, <3>1 DEF FetchOk, tables
  <2>5. QED
    BY <1>8, <2>3, <2>4
<1>12. DiscoveryOk'
  <2>1. ASSUME NEW q \in discovery'.queue PROVE Loaded(q.c, q.id, q.created)'
    <3>1. q \in discovery.queue /\ q.c \in Customers /\ Loaded(q.c, q.id, q.created)
      BY <1>6, DiscoveryParts, InvParts DEF DiscoveryOk
    <3>2. QED
      BY <1>10, <3>1
  <2>2. QED
    BY <1>6, <1>11, <2>1 DEF DiscoveryOk
<1>13. QED
  BY <1>2, <1>3, <1>9, <1>12, InvParts, DiscoveryOnly

\* A child that ends counts as a success only when what was to be found is in the queue.
LEMMA EndChildOk ==
    ASSUME PipelineInv, NEW c \in Customers, child[c].pc # "off", NEW r \in {"SUCCESS", "FAILED"},
           EndChild(c, r), UNCHANGED <<day, customer, lastId, issued, due>>,
           \A s \in Sales : rows'[s] = NoRow => rows[s] = NoRow,
           r = "SUCCESS" /\ customer[c].id = due[c].id => \A s \in due[c].sales : rows'[s] # NoRow
    PROVE  DiscoveryTyped' /\ DiscoveryOk'
<1>1. discovery' = [discovery EXCEPT !.results = [discovery.results EXCEPT ![c] = r]]
  BY DEF EndChild, Result
<1>2. child' = [child EXCEPT ![c] = NoFetch]
  BY DEF EndChild
<1>3. DiscoveryOk /\ FetchOk(c) /\ discovery.pc = "run"
  BY InvParts DEF DiscoveryOk, Fetching
<1>4. Loaded(c, child[c].id, child[c].created)
  BY <1>3 DEF FetchOk
<1>5. /\ discovery'.pc = "run" /\ discovery'.queue = discovery.queue /\ discovery'.day = discovery.day
      /\ discovery'.results[c] = r
      /\ \A d \in Customers \ {c} : discovery'.results[d] = discovery.results[d]
      /\ discovery' \in [pc : {"idle", "load", "run", "done"}, day : 0..day,
                      queue : SUBSET [c : Customers, id : Nat, created : Nat],
                      results : [Customers -> {"none", "SUCCESS", "FAILED"}]]
  <2>1. discovery \in [pc : {"idle", "load", "run", "done"}, day : 0..day,
                      queue : SUBSET [c : Customers, id : Nat, created : Nat],
                      results : [Customers -> {"none", "SUCCESS", "FAILED"}]]
    BY InvParts DEF DiscoveryTyped
  <2> DEFINE results == [discovery.results EXCEPT ![c] = r]
  <2>2. /\ results \in [Customers -> {"none", "SUCCESS", "FAILED"}] /\ results[c] = r
        /\ \A d \in Customers \ {c} : results[d] = discovery.results[d]
    BY <2>1
  <2>3. discovery' = [discovery EXCEPT !.results = results]
    BY <1>1
  <2> HIDE DEF results
  <2>4. QED
    BY <1>3, <2>1, <2>2, <2>3
<1>6. /\ child' \in [Customers -> [pc : {"off", "fetch", "enqueue"}, id : Nat, created : Nat,
                                   found : SUBSET Sales]]
      /\ child'[c].pc = "off" /\ \A d \in Customers \ {c} : child'[d] = child[d]
  BY <1>2, DiscoveryParts, NoRecords
<1>7. DiscoveryTyped'
  <2>1. Fetching' \subseteq Fetching
    BY <1>6 DEF Fetching
  <2>2. Cardinality(Fetching') <= MaxConcurrentChildren
    <3>1. Fetching \in SUBSET Customers /\ Fetching' \in SUBSET Customers
      BY DEF Fetching
    <3>2. QED
      BY <2>1, <3>1, FetchingSize, DiscoveryParts
  <2>3. QED
    BY <1>5, <1>6, <2>2, DiscoveryParts DEF DiscoveryTyped
<1>8. FetchOk(c)'
  BY <1>4, <1>5, <1>6 DEF FetchOk, Loaded
<1>9. ASSUME NEW d \in Customers PROVE FetchOk(d)'
  <2>1. CASE d = c
    BY <1>8, <2>1
  <2>2. CASE d # c
    BY <1>5, <1>6, <2>2, FetchKept
  <2>3. QED
    BY <2>1, <2>2
<1>10. \A q \in discovery.queue : Loaded(q.c, q.id, q.created)'
  BY <1>3, <1>5 DEF DiscoveryOk, Loaded, Candidate
<1>11. DiscoveryOk'
  BY <1>5, <1>9, <1>10 DEF DiscoveryOk
<1>12. QED
  BY <1>7, <1>11

\* A sale that enters the queue was never tried: its registration is the one its invoice
\* was issued under, and it was in no row before.
LEMMA QueuedOk ==
    ASSUME PipelineInv, NEW c \in Customers, child[c].pc = "enqueue", ReferenceHolds(c),
           rows' = Queued(child[c].found),
           UNCHANGED <<time, customer, lastId, issued, sending>>
    PROVE  /\ SalesTyped' /\ \A s \in Sales : SaleOk(s)' /\ (rows'[s] = NoRow => rows[s] = NoRow)
           /\ \A s \in due[c].sales : rows'[s] # NoRow
<1>1. FetchOk(c) /\ child[c].found \in SUBSET Sales
  BY InvParts, DiscoveryParts DEF DiscoveryOk
<1>2. /\ customer[c].id = child[c].id /\ customer[c].created = child[c].created /\ child[c].id # 0
      /\ due[c].sales \subseteq child[c].found
  BY <1>1, InvParts DEF FetchOk, Loaded, ReferenceHolds
<1> DEFINE pending == [NoRow EXCEPT !.status = "PENDING"]
<1>3. /\ pending \in [status : Statuses \cup {"absent"}, count : 0..MaxSendAttempts]
      /\ pending.status = "PENDING" /\ pending.count = 0
  BY NoRecords DEF NoRow, Statuses
<1>4. \A s \in Sales : rows'[s] = IF s \in child[c].found /\ rows[s] = NoRow THEN pending ELSE rows[s]
  BY DEF Queued
<1>5. rows' = [s \in Sales |-> rows'[s]]
  BY DEF Queued
<1> HIDE DEF pending
<1>6. SalesTyped'
  BY <1>3, <1>4, <1>5, InvParts DEF SalesTyped, sending
<1>7. pending # NoRow
  BY <1>3, NoRecords
<1>8. ASSUME NEW s \in Sales PROVE SaleOk(s)'
  <2>1. CASE s \in child[c].found /\ rows[s] = NoRow
    <3>1. SaleOk(s) /\ rows'[s] = pending /\ Buyer[s] = c /\ issued[s].at # 0 /\ issued[s].at >= child[c].created
      BY <1>1, <1>4, <2>1, InvParts DEF FetchOk
    <3>2. issued[s].at \in Nat /\ child[c].created \in Nat
      BY InvParts, DiscoveryParts DEF CustomersTyped
    <3>3. Covered(s)
      BY <1>2, <3>1, <3>2 DEF Covered
    <3>4. mails[s] = 0 /\ work[s].pc \in {"off", "claim"}
      BY <2>1, <3>1, <3>3, NoRecords DEF SaleOk, Untried
    <3>5. QED
      BY <1>3, <3>1, <3>3, <3>4 DEF SaleOk, Covered, time, sending
  <2>2. CASE ~(s \in child[c].found /\ rows[s] = NoRow)
    BY <1>4, <2>2, InvParts, SaleKept DEF time, sending
  <2>3. QED
    BY <2>1, <2>2
<1>9. QED
  BY <1>1, <1>2, <1>4, <1>6, <1>7, <1>8

LEMMA FetchInv ==
    ASSUME PipelineInv, NEW c \in Customers, Fetch(c)
    PROVE  PipelineInv'
<1> DEFINE found == {s \in Sales : Buyer[s] = c /\ Candidate(s, child[c].created, discovery.day)}
<1>1. /\ child[c].pc = "fetch" /\ UNCHANGED <<time, tables, issued, api, due, sending, bounds>>
      /\ IF found = {} THEN EndChild(c, "SUCCESS")
                       ELSE /\ child' = [child EXCEPT ![c].pc = "enqueue", ![c].found = found]
                            /\ UNCHANGED <<discovery, usedIds>>
  BY DEF Fetch
<1>2. FetchOk(c) /\ Loaded(c, child[c].id, child[c].created)
  BY <1>1, InvParts DEF DiscoveryOk, FetchOk
<1>3. due[c].sales \subseteq found
  BY <1>2, DiscoveryParts DEF Loaded
<1>4. \A s \in found : Buyer[s] = c /\ issued[s].at # 0 /\ issued[s].at >= child[c].created
  BY DEF Candidate
<1>5. found \in SUBSET Sales
  OBVIOUS
<1> HIDE DEF found
<1>6. CASE found = {}
  <2>1. DiscoveryTyped' /\ DiscoveryOk'
    BY <1>1, <1>3, <1>6, EndChildOk DEF time, tables
  <2>2. QED
    BY <1>1, <2>1, InvParts, DiscoveryOnly DEF bounds
<1>7. CASE found # {}
  <2>1. /\ child' \in [Customers -> [pc : {"off", "fetch", "enqueue"}, id : Nat, created : Nat,
                                     found : SUBSET Sales]]
        /\ child'[c].pc = "enqueue" /\ child'[c].id = child[c].id
        /\ child'[c].created = child[c].created /\ child'[c].found = found
        /\ \A d \in Customers \ {c} : child'[d] = child[d]
    <3>1. child[c] \in [pc : {"off", "fetch", "enqueue"}, id : Nat, created : Nat, found : SUBSET Sales]
      BY DiscoveryParts
    <3> DEFINE e == [child[c] EXCEPT !.pc = "enqueue", !.found = found]
    <3>2. /\ e \in [pc : {"off", "fetch", "enqueue"}, id : Nat, created : Nat, found : SUBSET Sales]
          /\ e.pc = "enqueue" /\ e.id = child[c].id /\ e.created = child[c].created /\ e.found = found
      BY <1>5, <3>1
    <3>3. child' = [child EXCEPT ![c] = e]
      BY <1>1, <1>7, DiscoveryParts
    <3> HIDE DEF e
    <3>4. QED
      BY <3>2, <3>3, DiscoveryParts
  <2>2. discovery' = discovery
    BY <1>1, <1>7
  <2>3. Fetching' = Fetching
    BY <1>1, <2>1 DEF Fetching
  <2>4. DiscoveryTyped'
    BY <1>1, <2>1, <2>2, <2>3, InvParts DEF DiscoveryTyped, time
  <2>5. FetchOk(c)'
    BY <1>1, <1>2, <1>3, <1>4, <2>1, <2>2 DEF FetchOk, Loaded, Candidate, tables
  <2>6. \A d \in Customers : FetchOk(d)'
    <3>1. ASSUME NEW d \in Customers \ {c} PROVE FetchOk(d)'
      BY <1>1, <2>1, <2>2, FetchKept DEF tables
    <3>2. QED
      BY <2>5, <3>1
  <2>7. DiscoveryOk /\ \A q \in discovery.queue : Loaded(q.c, q.id, q.created)'
    BY <1>1, <2>2, InvParts DEF DiscoveryOk, Loaded, Candidate, tables
  <2>8. DiscoveryOk'
    BY <2>2, <2>3, <2>6, <2>7 DEF DiscoveryOk
  <2>9. QED
    BY <1>1, <2>4, <2>8, InvParts, DiscoveryOnly DEF bounds
<1>8. QED
  BY <1>6, <1>7

LEMMA FetchFailsInv ==
    ASSUME PipelineInv, NEW c \in Customers, FetchFails(c)
    PROVE  PipelineInv'
<1>1. /\ child[c].pc = "fetch" /\ EndChild(c, "FAILED") /\ faults' \in 0..MaxFaults
      /\ UNCHANGED <<time, tables, issued, api, due, sending, runs>>
  BY FaultCounts DEF FetchFails
<1>2. DiscoveryTyped' /\ DiscoveryOk'
  BY <1>1, EndChildOk DEF time, tables
<1>3. QED
  BY <1>1, <1>2, InvParts, DiscoveryOnly

\* The rows a child queued and its end make one step.
LEMMA EndEnqueueInv ==
    ASSUME PipelineInv, NEW c \in Customers, child[c].pc = "enqueue",
           NEW r \in {"SUCCESS", "FAILED"}, EndChild(c, r),
           \/ UNCHANGED rows /\ r = "FAILED"
           \/ ReferenceHolds(c) /\ rows' = Queued(child[c].found),
           UNCHANGED <<time, customer, lastId, issued, api, due, sending>>,
           runs' \in 0..MaxRuns, faults' \in 0..MaxFaults
    PROVE  PipelineInv'
<1>1. /\ SalesTyped' /\ \A s \in Sales : SaleOk(s)' /\ (rows'[s] = NoRow => rows[s] = NoRow)
      /\ r = "SUCCESS" => \A s \in due[c].sales : rows'[s] # NoRow
  <2>1. CASE UNCHANGED rows /\ r = "FAILED"
    BY <2>1, InvParts, SaleKept, SalesKept DEF time, sending
  <2>2. CASE ReferenceHolds(c) /\ rows' = Queued(child[c].found)
    BY <2>2, QueuedOk
  <2>3. QED
    BY <2>1, <2>2
<1>2. DiscoveryTyped' /\ DiscoveryOk'
  BY <1>1, EndChildOk DEF time
<1>3. CustomersTyped' /\ ProcessingTyped' /\ ProcessingOk'
  BY InvParts, CustomersKept, WorkKept DEF sending
<1>4. QED
  BY <1>1, <1>2, <1>3, TypesFromParts DEF PipelineInv

LEMMA EnqueueInv ==
    ASSUME PipelineInv, NEW c \in Customers, Enqueue(c)
    PROVE  PipelineInv'
  BY InvParts, EndEnqueueInv DEF Enqueue, bounds

LEMMA EnqueueFailsInv ==
    ASSUME PipelineInv, NEW c \in Customers, EnqueueFails(c)
    PROVE  PipelineInv'
  BY InvParts, FaultCounts, EndEnqueueInv DEF EnqueueFails

--------------------------------------------------------------------------------
(* Processing *)

LEMMA ProcessingParts ==
    ASSUME PipelineInv
    PROVE  /\ processing.pc \in {"idle", "check", "load", "run"} /\ processing.queue \in SUBSET Sales
           /\ work \in [Sales -> [pc : {"off", "claim", "mail", "finalize"}, id : Nat,
                                  target : {"none", "SENT", "FAILED_TRANSIENT", "FAILED_FINAL"}]]
           /\ Cardinality(Working) <= MaxConcurrentChildren
           /\ rows \in [Sales -> [status : Statuses \cup {"absent"}, count : 0..MaxSendAttempts]]
           /\ mails \in [Sales -> Nat] /\ reported \in SUBSET Sales
  BY InvParts DEF ProcessingTyped, SalesTyped

\* What a step of processing has to show: the tables of the discovery are not its own.
LEMMA ProcessingOnly ==
    ASSUME PipelineInv, UNCHANGED <<time, customer, lastId, issued, api, discovering>>,
           SalesTyped', ProcessingTyped', ProcessingOk', \A s \in Sales : SaleOk(s)',
           \A s \in Sales : rows'[s] = NoRow => rows[s] = NoRow,
           runs' \in 0..MaxRuns, faults' \in 0..MaxFaults
    PROVE  PipelineInv'
<1>1. DiscoveryTyped' /\ DiscoveryOk'
  BY InvParts, FetchesKept, DiscoveryKept DEF time, discovering
<1>2. CustomersTyped'
  BY InvParts, CustomersKept
<1>3. QED
  BY <1>1, <1>2, TypesFromParts DEF PipelineInv

\* The parent moves from one place to the next, the children and the sales stay.
LEMMA ParentMoves ==
    ASSUME PipelineInv, processing' \in [pc : {"idle", "check", "load", "run"}, queue : SUBSET Sales],
           UNCHANGED <<time, tables, issued, api, discovering, work, mails, reported>>,
           processing'.queue = {} \/ processing'.pc = "run", Working = {},
           runs' \in 0..MaxRuns, faults' \in 0..MaxFaults
    PROVE  PipelineInv'
<1>1. \A s \in Sales : SaleOk(s)'
  BY InvParts, SaleKept DEF time, tables
<1>2. SalesTyped'
  BY InvParts, SalesKept DEF tables
<1>3. Working' = {} /\ \A s \in Sales : work'[s].pc = "off"
  BY DEF Working
<1>4. ProcessingTyped'
  BY <1>3, ProcessingParts DEF ProcessingTyped, Working
<1>5. ProcessingOk'
  BY <1>3 DEF ProcessingOk
<1>6. QED
  BY <1>1, <1>2, <1>4, <1>5, ProcessingOnly DEF tables

LEMMA StartProcessingInv == PipelineInv /\ StartProcessing => PipelineInv'
<1> SUFFICES ASSUME PipelineInv, StartProcessing PROVE PipelineInv'
  OBVIOUS
<1>1. runs' \in 0..MaxRuns /\ faults' \in 0..MaxFaults
  BY InvParts, PipelineAssumption DEF StartProcessing
<1>2. processing.queue = {} /\ Working = {}
  BY InvParts DEF StartProcessing, ProcessingOk
<1>3. processing' \in [pc : {"idle", "check", "load", "run"}, queue : SUBSET Sales] /\ processing'.queue = {}
  BY <1>2, InvParts DEF StartProcessing, ProcessingTyped
<1>4. QED
  BY <1>1, <1>2, <1>3, ParentMoves DEF StartProcessing

LEMMA CheckDiscoveryInv == PipelineInv /\ CheckDiscovery => PipelineInv'
<1> SUFFICES ASSUME PipelineInv, CheckDiscovery PROVE PipelineInv'
  OBVIOUS
<1>1. processing.queue = {} /\ Working = {} /\ UNCHANGED <<runs, faults>>
  BY InvParts DEF CheckDiscovery, ProcessingOk, bounds
<1>2. PICK pc \in {"load", "idle"} : processing' = [processing EXCEPT !.pc = pc]
  BY DEF CheckDiscovery
<1>3. processing' \in [pc : {"idle", "check", "load", "run"}, queue : SUBSET Sales] /\ processing'.queue = {}
  BY <1>1, <1>2, InvParts DEF ProcessingTyped
<1>4. QED
  BY <1>1, <1>3, InvParts, ParentMoves DEF CheckDiscovery

LEMMA LoadEligibleInv == PipelineInv /\ LoadEligible => PipelineInv'
<1> SUFFICES ASSUME PipelineInv, LoadEligible PROVE PipelineInv'
  OBVIOUS
<1> DEFINE listed == {s \in Sales : Eligible(s)}
<1>1. Working = {} /\ UNCHANGED <<runs, faults>>
  BY InvParts DEF LoadEligible, ProcessingOk, bounds
<1>2. processing' = [processing EXCEPT !.queue = listed, !.pc = IF listed = {} THEN "idle" ELSE "run"]
  BY DEF LoadEligible
<1>3. listed \in SUBSET Sales
  OBVIOUS
<1> HIDE DEF listed
<1>4. /\ processing' \in [pc : {"idle", "check", "load", "run"}, queue : SUBSET Sales]
      /\ processing'.queue = {} \/ processing'.pc = "run"
  BY <1>2, <1>3, InvParts DEF ProcessingTyped
<1>5. QED
  BY <1>1, <1>4, InvParts, ParentMoves DEF LoadEligible

LEMMA ProcessingFailsInv == PipelineInv /\ ProcessingFails => PipelineInv'
<1> SUFFICES ASSUME PipelineInv, ProcessingFails PROVE PipelineInv'
  OBVIOUS
<1>1. processing.queue = {} /\ Working = {} /\ UNCHANGED runs /\ faults' \in 0..MaxFaults
  BY InvParts, FaultCounts DEF ProcessingFails, ProcessingOk
<1>2. processing' \in [pc : {"idle", "check", "load", "run"}, queue : SUBSET Sales] /\ processing'.queue = {}
  BY <1>1, InvParts DEF ProcessingFails, ProcessingTyped
<1>3. QED
  BY <1>1, <1>2, InvParts, ParentMoves DEF ProcessingFails

LEMMA EndProcessingInv == PipelineInv /\ EndProcessing => PipelineInv'
<1> SUFFICES ASSUME PipelineInv, EndProcessing PROVE PipelineInv'
  OBVIOUS
<1>1. processing.queue = {} /\ Working = {} /\ UNCHANGED <<runs, faults>>
  BY DEF EndProcessing, bounds
<1>2. processing' \in [pc : {"idle", "check", "load", "run"}, queue : SUBSET Sales] /\ processing'.queue = {}
  BY <1>1, InvParts DEF EndProcessing, ProcessingTyped
<1>3. QED
  BY <1>1, <1>2, InvParts, ParentMoves DEF EndProcessing

LEMMA WorkingSize ==
    ASSUME PipelineInv, NEW T \in SUBSET Sales,
           \/ T \subseteq Working
           \/ RoomFor(Working) /\ \E x : T \subseteq Working \cup {x}
    PROVE  Cardinality(T) <= MaxConcurrentChildren
<1>1. Working \in SUBSET Sales /\ IsFiniteSet(Sales)
  BY PipelineAssumption DEF Working
<1>2. QED
  BY <1>1, ProcessingParts, PoolHolds DEF RoomFor

LEMMA StartWorkInv == PipelineInv /\ StartWork => PipelineInv'
<1> SUFFICES ASSUME PipelineInv, StartWork PROVE PipelineInv'
  OBVIOUS
<1>1. PICK s \in processing.queue :
          /\ processing' = [processing EXCEPT !.queue = processing.queue \ {s}]
          /\ \/ /\ work' = [work EXCEPT ![s].pc = "claim"]
                /\ UNCHANGED <<reported, faults>>
             \/ /\ Fault
                /\ reported' = reported \cup {s}
                /\ UNCHANGED work
  BY ProcessingParts DEF StartWork
<1>2. /\ processing.pc = "run" /\ RoomFor(Working)
      /\ UNCHANGED <<time, tables, issued, api, discovering, mails, runs>>
  BY DEF StartWork
<1>3. s \in Sales /\ work[s].pc = "off" /\ faults' \in 0..MaxFaults
  BY <1>1, InvParts, ProcessingParts, FaultCounts DEF ProcessingOk
<1>4. /\ processing' \in [pc : {"idle", "check", "load", "run"}, queue : SUBSET Sales]
      /\ processing'.pc = "run" /\ processing'.queue = processing.queue \ {s}
  BY <1>1, <1>2, InvParts DEF ProcessingTyped
<1>5. /\ work' \in [Sales -> [pc : {"off", "claim", "mail", "finalize"}, id : Nat,
                              target : {"none", "SENT", "FAILED_TRANSIENT", "FAILED_FINAL"}]]
      /\ \A t \in Sales \ {s} : work'[t] = work[t]
      /\ work'[s].pc \in {"off", "claim"}
  BY <1>1, <1>3, ProcessingParts
<1>6. ProcessingTyped'
  <2>1. Working' \in SUBSET Sales /\ Working' \subseteq Working \cup {s}
    BY <1>5 DEF Working
  <2>2. Cardinality(Working') <= MaxConcurrentChildren
    BY <1>2, <2>1, WorkingSize
  <2>3. QED
    BY <1>4, <1>5, <2>2 DEF ProcessingTyped
<1>7. ProcessingOk'
  <2>1. \A t \in processing.queue \ {s} : t \in Sales /\ work[t].pc = "off"
    BY InvParts, ProcessingParts DEF ProcessingOk
  <2>2. QED
    BY <1>4, <1>5, <2>1 DEF ProcessingOk
<1>8. reported' \in SUBSET Sales /\ reported \subseteq reported'
  BY <1>1, <1>3, ProcessingParts
<1>9. ASSUME NEW t \in Sales PROVE SaleOk(t)'
  <2>1. CASE t # s
    <3>1. work'[t] = work[t]
      BY <1>5, <2>1
    <3>2. QED
      BY <1>2, <1>8, <3>1, InvParts, SaleKept DEF time, tables
  <2>2. CASE t = s
    BY <1>2, <1>3, <1>5, <1>8, <2>2, InvParts DEF SaleOk, Covered, time, tables
  <2>3. QED
    BY <2>1, <2>2
<1>10. SalesTyped'
  BY <1>2, <1>8, InvParts DEF SalesTyped, tables
<1>11. QED
  BY <1>2, <1>3, <1>6, <1>7, <1>9, <1>10, InvParts, ProcessingOnly DEF tables

\* What a child that is at work on a sale has to show.
LEMMA OneSale ==
    ASSUME PipelineInv, NEW s \in Sales, work[s].pc # "off",
           UNCHANGED <<time, customer, lastId, issued, api, discovering, processing, runs>>,
           rows' \in [Sales -> [status : Statuses \cup {"absent"}, count : 0..MaxSendAttempts]],
           work' \in [Sales -> [pc : {"off", "claim", "mail", "finalize"}, id : Nat,
                                target : {"none", "SENT", "FAILED_TRANSIENT", "FAILED_FINAL"}]],
           mails' \in [Sales -> Nat], reported' \in SUBSET Sales, reported \subseteq reported',
           \A t \in Sales \ {s} : rows'[t] = rows[t] /\ mails'[t] = mails[t] /\ work'[t] = work[t],
           rows'[s] = NoRow => rows[s] = NoRow, SaleOk(s)', faults' \in 0..MaxFaults
    PROVE  PipelineInv'
<1>1. SalesTyped'
  BY DEF SalesTyped
<1>2. Working' \subseteq Working /\ Working' \in SUBSET Sales /\ Working # {}
  BY DEF Working
<1>3. ProcessingTyped'
  BY <1>2, InvParts, WorkingSize DEF ProcessingTyped
<1>4. ProcessingOk'
  BY <1>2, InvParts, ProcessingParts DEF ProcessingOk
<1>5. ASSUME NEW t \in Sales PROVE SaleOk(t)'
  <2>1. CASE t # s
    BY <2>1, InvParts, SaleKept DEF time
  <2>2. QED
    BY <2>1
<1>6. QED
  BY <1>1, <1>3, <1>4, <1>5, InvParts, ProcessingOnly

\* Who takes a sale takes one that no e-mail was sent of.
LEMMA ClaimInv ==
    ASSUME PipelineInv, NEW s \in Sales, Claim(s)
    PROVE  PipelineInv'
<1>1. /\ work[s].pc = "claim" /\ UNCHANGED <<mails, reported, runs, faults, processing, discovering>>
      /\ UNCHANGED <<time, customer, lastId, issued, api>>
  BY DEF Claim, bounds
<1>2. SaleOk(s) /\ work[s] \in [pc : {"off", "claim", "mail", "finalize"}, id : Nat,
                                target : {"none", "SENT", "FAILED_TRANSIENT", "FAILED_FINAL"}]
      /\ rows[s] \in [status : Statuses \cup {"absent"}, count : 0..MaxSendAttempts]
  BY InvParts, ProcessingParts
<1>3. CASE ~Eligible(s)
  <2>1. work' = [work EXCEPT ![s] = NoWork] /\ UNCHANGED rows
    BY <1>3 DEF Claim
  <2>2. work'[s] = NoWork
    BY <2>1, ProcessingParts
  <2>3. SaleOk(s)'
    BY <1>1, <1>2, <2>1, <2>2, NoRecords DEF SaleOk, Covered, time
  <2>4. QED
    BY <1>1, <2>1, <2>3, InvParts, ProcessingParts, NoRecords, OneSale
<1>4. CASE Eligible(s)
  <2> DEFINE row == [status |-> "IN_PROGRESS", count |-> rows[s].count + 1]
             mine == [work[s] EXCEPT !.pc = "mail", !.id = customer[Buyer[s]].id]
  <2>1. rows' = [rows EXCEPT ![s] = row] /\ work' = [work EXCEPT ![s] = mine]
    BY <1>4, ProcessingParts DEF Claim
  <2>2. /\ row \in [status : Statuses \cup {"absent"}, count : 0..MaxSendAttempts]
        /\ row.status = "IN_PROGRESS"
    BY <1>2, <1>4, PipelineAssumption DEF Eligible, SaleOk, Statuses
  <2>3. customer[Buyer[s]].id \in Nat
    BY InvParts, BuyerIsCustomer DEF CustomersTyped
  <2>4. /\ mine \in [pc : {"off", "claim", "mail", "finalize"}, id : Nat,
                     target : {"none", "SENT", "FAILED_TRANSIENT", "FAILED_FINAL"}]
        /\ mine.pc = "mail" /\ mine.id = customer[Buyer[s]].id
    BY <1>2, <2>3
  <2>5. Covered(s) /\ mails[s] = 0
    BY <1>2, <1>4, NoRecords DEF Eligible, SaleOk, Untried
  <2> HIDE DEF row, mine
  <2>6. rows'[s] = row /\ work'[s] = mine /\ row # NoRow
    BY <2>1, <2>2, ProcessingParts, NoRecords
  <2>7. SaleOk(s)'
    BY <1>1, <1>2, <2>2, <2>4, <2>5, <2>6 DEF SaleOk, Covered, Untried, time
  <2>8. QED
    BY <1>1, <2>1, <2>2, <2>4, <2>6, <2>7, InvParts, ProcessingParts, OneSale
<1>5. QED
  BY <1>3, <1>4

LEMMA MailInv ==
    ASSUME PipelineInv, NEW s \in Sales, Mail(s)
    PROVE  PipelineInv'
<1>1. work[s].pc = "mail" /\ UNCHANGED <<time, tables, issued, api, discovering, processing, reported, runs>>
  BY DEF Mail
<1>2. /\ SaleOk(s)
      /\ work[s] \in [pc : {"off", "claim", "mail", "finalize"}, id : Nat,
                      target : {"none", "SENT", "FAILED_TRANSIENT", "FAILED_FINAL"}]
  BY InvParts, ProcessingParts
<1>3. faults' \in 0..MaxFaults
  BY InvParts, FaultCounts DEF Mail
<1>4. PICK t \in {"SENT", "FAILED_TRANSIENT", "FAILED_FINAL"} :
          /\ work' = [work EXCEPT ![s] = [work[s] EXCEPT !.pc = "finalize", !.target = t]]
          /\ \/ t = "SENT" /\ mails' = [mails EXCEPT ![s] = mails[s] + 1]
             \/ t # "SENT" /\ UNCHANGED mails
  <2>1. \A t : [work EXCEPT ![s].pc = "finalize", ![s].target = t] =
               [work EXCEPT ![s] = [work[s] EXCEPT !.pc = "finalize", !.target = t]]
    BY ProcessingParts
  <2>2. QED
    BY <2>1 DEF Mail
<1> DEFINE mine == [work[s] EXCEPT !.pc = "finalize", !.target = t]
<1>5. /\ mine \in [pc : {"off", "claim", "mail", "finalize"}, id : Nat,
                   target : {"none", "SENT", "FAILED_TRANSIENT", "FAILED_FINAL"}]
      /\ mine.pc = "finalize" /\ mine.id = work[s].id /\ mine.target = t
  BY <1>2
<1>6. work' = [work EXCEPT ![s] = mine]
  BY <1>4
<1> HIDE DEF mine
<1>7. work'[s] = mine /\ mails[s] = 0 /\ mails'[s] = IF t = "SENT" THEN 1 ELSE 0
  BY <1>1, <1>2, <1>4, <1>6, ProcessingParts DEF SaleOk
<1>8. SaleOk(s)'
  BY <1>1, <1>2, <1>5, <1>7 DEF SaleOk, Covered, Untried, Statuses, time, tables
<1>9. mails' \in [Sales -> Nat] /\ \A u \in Sales \ {s} : mails'[u] = mails[u]
  BY <1>4, ProcessingParts
<1>10. QED
  BY <1>1, <1>3, <1>5, <1>6, <1>8, <1>9, InvParts, ProcessingParts, OneSale DEF tables

LEMMA FinalizeInv ==
    ASSUME PipelineInv, NEW s \in Sales, Finalize(s)
    PROVE  PipelineInv'
<1>1. /\ work[s].pc = "finalize" /\ work' = [work EXCEPT ![s] = NoWork]
      /\ UNCHANGED <<time, customer, lastId, issued, api, discovering, processing, mails, runs>>
  BY DEF Finalize
<1>2. /\ SaleOk(s) /\ work'[s] = NoWork
      /\ work[s].target \in {"none", "SENT", "FAILED_TRANSIENT", "FAILED_FINAL"}
      /\ rows[s] \in [status : Statuses \cup {"absent"}, count : 0..MaxSendAttempts]
  BY <1>1, InvParts, ProcessingParts
<1>3. faults' \in 0..MaxFaults
  BY InvParts, FaultCounts DEF Finalize
<1>4. work' \in [Sales -> [pc : {"off", "claim", "mail", "finalize"}, id : Nat,
                           target : {"none", "SENT", "FAILED_TRANSIENT", "FAILED_FINAL"}]]
      /\ \A t \in Sales \ {s} : work'[t] = work[t]
  BY <1>1, ProcessingParts, NoRecords
<1>5. CASE Mine(s) /\ rows' = [rows EXCEPT ![s].status = work[s].target] /\ UNCHANGED reported
  <2> DEFINE row == [rows[s] EXCEPT !.status = work[s].target]
  <2>1. rows' = [rows EXCEPT ![s] = row]
    BY <1>5, ProcessingParts
  <2>2. /\ row \in [status : Statuses \cup {"absent"}, count : 0..MaxSendAttempts]
        /\ row.status = work[s].target /\ row.status \in {"SENT", "FAILED_TRANSIENT", "FAILED_FINAL"}
    BY <1>1, <1>2 DEF SaleOk, Statuses
  <2>3. rows[s] # NoRow
    BY <1>5, NoRecords DEF Mine
  <2> HIDE DEF row
  <2>4. rows'[s] = row /\ row # NoRow
    BY <2>1, <2>2, ProcessingParts, NoRecords
  <2>5. SaleOk(s)'
    BY <1>1, <1>2, <2>2, <2>3, <2>4, NoRecords DEF SaleOk, Covered, Untried, time
  <2>6. QED
    BY <1>1, <1>3, <1>4, <1>5, <2>1, <2>2, <2>4, <2>5, InvParts, ProcessingParts, OneSale
<1>6. CASE reported' = reported \cup {s} /\ UNCHANGED rows
  <2>1. SaleOk(s)'
    BY <1>1, <1>2, <1>6, NoRecords DEF SaleOk, Covered, time
  <2>2. QED
    BY <1>1, <1>3, <1>4, <1>6, <2>1, InvParts, ProcessingParts, OneSale
<1>7. QED
  BY <1>5, <1>6 DEF Finalize, Failures

--------------------------------------------------------------------------------
(* The theorems *)

LEMMA NextInv == PipelineInv /\ [PipelineNext]_vars => PipelineInv'
<1>1. ASSUME PipelineInv, PipelineNext PROVE PipelineInv'
  <2>1. CASE ClientStep
    BY <1>1, <2>1, RegisterInv, LookUpInv, DeleteInv DEF ClientStep
  <2>2. CASE DiscoveryStep
    BY <1>1, <2>2, LoadCustomersInv, LoadCustomersFailsInv, StartFetchInv, EndDiscoveryInv, FetchInv,
       FetchFailsInv, EnqueueInv, EnqueueFailsInv DEF DiscoveryStep
  <2>3. CASE ProcessingStep
    BY <1>1, <2>3, CheckDiscoveryInv, LoadEligibleInv, ProcessingFailsInv, StartWorkInv,
       EndProcessingInv, ClaimInv, MailInv, FinalizeInv DEF ProcessingStep
  <2>4. QED
    BY <1>1, <2>1, <2>2, <2>3, NextDayInv, IssueInv, StartDiscoveryInv, StartProcessingInv
       DEF PipelineNext
<1>2. ASSUME PipelineInv, UNCHANGED vars PROVE PipelineInv'
  <2>1. /\ UNCHANGED <<time, customer, lastId, issued, api, rows, discovering, processing, work, mails,
                       reported, runs, faults>>
    BY <1>2 DEF vars, tables, sending, bounds
  <2>2. \A s \in Sales : SaleOk(s)'
    BY <1>2, <2>1, InvParts, SaleKept DEF time
  <2>3. QED
    BY <1>2, <2>1, <2>2, InvParts, SalesKept, WorkKept, ProcessingOnly
<1>3. QED
  BY <1>1, <1>2

\* The strengthening is an invariant: a row has a customer whose registration is not later
\* than the invoice, what the parents and their children know of a registration was true
\* of it, and nobody has more children than there is room for.
THEOREM PipelineInvariance == PipelineSpec => []PipelineInv
<1>1. PipelineInit => PipelineInv
  BY InitInv
<1>2. PipelineInv /\ [PipelineNext]_vars => PipelineInv'
  BY NextInv
<1>3. QED
  BY <1>1, <1>2, PTL DEF PipelineSpec

\* Neither parent ever runs more children than maxConcurrentChildren, and every sale in
\* the queue refers to a customer that is registered.
THEOREM PipelineTypes == PipelineSpec => []PipelineTypeOK
<1>1. PipelineInv => PipelineTypeOK
  BY DEF PipelineInv
<1>2. QED
  BY <1>1, PipelineInvariance, PTL

\* Of a customer the discovery counts as successful nothing that was to be found is
\* missing from the queue, however many children failed or were refused and whoever
\* deleted the customer meanwhile.
THEOREM SuccessesAreComplete == PipelineSpec => []SuccessIsComplete
<1>1. PipelineInv => SuccessIsComplete
  BY DEF PipelineInv, DiscoveryOk, FetchOk, SuccessIsComplete
<1>2. QED
  BY <1>1, PipelineInvariance, PTL

\* The e-mail of a sale leaves once at most: with its row the deletion of the customer takes
\* away the record of the e-mail, and the new registration is later than the invoice.
THEOREM MailedOnce == PipelineSpec => []NotMailedAgain
<1>1. PipelineInv => NotMailedAgain
  BY DEF PipelineInv, SaleOk, NotMailedAgain
<1>2. QED
  BY <1>1, PipelineInvariance, PTL

\* A sale left IN_PROGRESS is one that a parent reported.
THEOREM StrandedAreReported == PipelineSpec => []StrandedIsReported
<1>1. PipelineInv => StrandedIsReported
  BY DEF PipelineInv, SaleOk, StrandedIsReported
<1>2. QED
  BY <1>1, PipelineInvariance, PTL

--------------------------------------------------------------------------------
(* The parents go on *)

\* The queue has a first customer.
LEMMA FirstOfQueue ==
    ASSUME NEW Q, Q # {}, \A q \in Q : q.id \in Nat
    PROVE  \E next \in Q : \A other \in Q : next.id <= other.id
<1> DEFINE R == StrictSubsetOrdering(Nat)
           T == {0..q.id : q \in Q}
<1>1. \A q \in Q : 0..q.id \in FiniteSubsetsOf(Nat)
  BY FS_Interval DEF FiniteSubsetsOf
<1>2. T \subseteq FiniteSubsetsOf(Nat) /\ T # {}
  BY <1>1
<1>3. PICK x \in T : \A y \in T : ~(<<y, x>> \in R)
  <2> HIDE DEF T
  <2>1. QED
    BY <1>2, FS_StrictSubsetOrderingWellFounded, WFMin
<1>4. PICK next \in Q : x = 0..next.id
  BY <1>3
<1>5. ASSUME NEW other \in Q, other.id < next.id PROVE FALSE
  <2>1. 0..other.id \subseteq 0..next.id /\ next.id \in 0..next.id /\ next.id \notin 0..other.id
    BY <1>5
  <2>2. 0..other.id \in T /\ 0..next.id \subseteq Nat /\ 0..other.id \subseteq Nat
    OBVIOUS
  <2>3. <<0..other.id, x>> \in R
    BY <1>4, <2>1, <2>2 DEF StrictSubsetOrdering
  <2>4. QED
    BY <1>3, <2>2, <2>3
<1>6. QED
  BY <1>5

\* A parent that has nothing to load and no child to wait for has room for the next one,
\* or is done: Promise.race is never left with no child in it, for any
\* maxConcurrentChildren but 0.
THEOREM ParentsGoOn == PipelineSpec => []ParentsCanGoOn
<1>1. RoomFor({})
  BY PipelineAssumption, FS_EmptySet DEF RoomFor
<1>2. PipelineInv => ParentsCanGoOn
  <2> SUFFICES ASSUME PipelineInv PROVE ParentsCanGoOn
    OBVIOUS
  <2>1. discovery.queue # {} =>
           \E next \in discovery.queue : \A other \in discovery.queue : next.id <= other.id
    <3>1. \A q \in discovery.queue : q.id \in Nat
      BY DEF PipelineInv, PipelineTypeOK, DiscoveryTyped
    <3>2. QED
      BY <3>1, FirstOfQueue
  <2>2. QED
    BY <1>1, <2>1 DEF ParentsCanGoOn
<1>3. QED
  BY <1>2, PipelineInvariance, PTL

================================================================================
