------------------------------ MODULE NfePipeline ------------------------------
(***************************************************************************)
(* From the registration of a customer to the e-mails of its sales.  HTTP  *)
(* requests register and delete customers; the ERP issues invoices; the    *)
(* discovery parent lists the customers and runs one child each, at most   *)
(* MaxConcurrentChildren at a time, which reads the ERP and queues what it *)
(* finds; the processing parent lists the queue and runs one child per     *)
(* sale.  Here a deletion, a new registration, a day that passes or a      *)
(* second parent may come between any two steps of the others.             *)
(*                                                                         *)
(* NfeSaleDispatch has the life of one sale in detail: attempt locks,      *)
(* manual requests, doubtful deliveries, the ids of its children.          *)
(***************************************************************************)
EXTENDS Integers, FiniteSets

CONSTANTS
    Customers,             \* erp_customer_id, numbers
    Sales,                 \* erp_sale_id
    Buyer,                 \* the customer of each sale
    Clients,               \* HTTP requests being served
    WindowDays,            \* discoveryWindowDays
    MaxConcurrentChildren,
    MaxSendAttempts,
    AllowRerun,            \* allowCompletedChildWorkflowRerun of the runtime policy
    MaxDay,                \* bound of the days
    MaxNow,                \* bound of the instants
    MaxIds,                \* bound of the registrations
    MaxRuns,               \* bound of the executions of the parents
    MaxFaults              \* bound of the failures

ASSUME PipelineAssumption ==
    /\ IsFiniteSet(Customers) /\ Customers \subseteq Nat \ {0}
    /\ IsFiniteSet(Sales)
    /\ Buyer \in [Sales -> Customers]
    /\ {WindowDays, MaxConcurrentChildren, MaxSendAttempts, MaxNow} \subseteq Nat \ {0}
    /\ AllowRerun \in BOOLEAN
    /\ {MaxDay, MaxIds, MaxRuns, MaxFaults} \subseteq Nat

VARIABLES
    now, day,      \* datetimes are instants of this clock; days are what windows and ids count
    customer,      \* nfe_email_dispatch_customer: id 0 where there is no row
    lastId,        \* AUTO_INCREMENT
    issued,        \* ERP: when the invoice of each sale was issued
    rows,          \* nfe_email_dispatch_sale
    api,           \* each request
    discovery,     \* fetchCustomerNfeSalesCandidatesWorkflow
    child,         \* fetchSingleCustomerNfeSalesCandidatesWorkflow of each customer
    usedIds,       \* workflow ids of the children that completed
    processing,    \* processNfeEmailDispatchSalesWorkflow
    work,          \* processSingleNfeEmailDispatchSaleWorkflow of each sale
    runs,          \* executions of the parents so far
    faults,        \* failures so far
    due,           \* history: what was to be found when the customers were loaded
    mails,         \* history: e-mails sent for each sale
    reported       \* history: sales some processing parent counted as failed

time == <<now, day>>
tables == <<customer, lastId, rows>>
discovering == <<discovery, child, usedIds, due>>
sending == <<processing, work, mails, reported>>
bounds == <<runs, faults>>
vars == <<time, tables, issued, api, discovering, sending, bounds>>

--------------------------------------------------------------------------------
Statuses == {"PENDING", "IN_PROGRESS", "SENT", "FAILED_TRANSIENT", "FAILED_FINAL"}
NoCustomer == [id |-> 0, created |-> 0]
NoRow == [status |-> "absent", count |-> 0]
NoRequest == [c |-> 0, id |-> 0]
NoFetch == [pc |-> "off", id |-> 0, created |-> 0, found |-> {}]
NothingDue == [c \in Customers |-> [id |-> 0, sales |-> {}]]
NoWork == [pc |-> "off", id |-> 0, target |-> "none"]

Fetching == {c \in Customers : child[c].pc # "off"}
Working == {s \in Sales : work[s].pc # "off"}

CustomersTyped ==
    /\ now \in 1..MaxNow /\ day \in 0..MaxDay /\ lastId \in 0..MaxIds
    /\ customer \in [Customers -> [id : 0..lastId, created : 0..MaxNow]]
    /\ issued \in [Sales -> [at : 0..MaxNow, day : 0..MaxDay]]
    /\ api \in [Clients -> [c : Customers \cup {0}, id : 0..lastId]]

SalesTyped ==
    /\ rows \in [Sales -> [status : Statuses \cup {"absent"}, count : 0..MaxSendAttempts]]
    /\ mails \in [Sales -> Nat]
    /\ reported \subseteq Sales

DiscoveryTyped ==
    /\ discovery \in [pc : {"idle", "load", "run", "done"}, day : 0..day,
                      queue : SUBSET [c : Customers, id : Nat, created : Nat],
                      results : [Customers -> {"none", "SUCCESS", "FAILED"}]]
    /\ child \in [Customers -> [pc : {"off", "fetch", "enqueue"}, id : Nat, created : Nat,
                                found : SUBSET Sales]]
    /\ due \in [Customers -> [id : Nat, sales : SUBSET Sales]]
    /\ Cardinality(Fetching) <= MaxConcurrentChildren

ProcessingTyped ==
    /\ processing \in [pc : {"idle", "check", "load", "run"}, queue : SUBSET Sales]
    /\ work \in [Sales -> [pc : {"off", "claim", "mail", "finalize"}, id : Nat,
                           target : {"none", "SENT", "FAILED_TRANSIENT", "FAILED_FINAL"}]]
    /\ Cardinality(Working) <= MaxConcurrentChildren

\* Types; no parent runs more children than it may, and a sale refers to a customer.
PipelineTypeOK ==
    /\ CustomersTyped /\ SalesTyped /\ DiscoveryTyped /\ ProcessingTyped
    /\ runs \in 0..MaxRuns /\ faults \in 0..MaxFaults
    /\ \A s \in Sales : rows[s] # NoRow => customer[Buyer[s]].id # 0

PipelineInit ==
    /\ now = 1 /\ day = 0
    /\ customer = [c \in Customers |-> NoCustomer]
    /\ lastId = 0
    /\ issued = [s \in Sales |-> [at |-> 0, day |-> 0]]
    /\ rows = [s \in Sales |-> NoRow]
    /\ api = [r \in Clients |-> NoRequest]
    /\ discovery = [pc |-> "idle", day |-> 0, queue |-> {},
                    results |-> [c \in Customers |-> "none"]]
    /\ child = [c \in Customers |-> NoFetch]
    /\ usedIds = {}
    /\ processing = [pc |-> "idle", queue |-> {}]
    /\ work = [s \in Sales |-> NoWork]
    /\ runs = 0 /\ faults = 0
    /\ due = NothingDue
    /\ mails = [s \in Sales |-> 0]
    /\ reported = {}

Fault == faults < MaxFaults /\ faults' = faults + 1

\* Two datetimes are never the same: whoever writes one, and every midnight, moves the
\* clock.
Stamp == now < MaxNow /\ now' = now + 1

NextDay ==
    /\ day < MaxDay
    /\ Stamp
    /\ day' = day + 1
    /\ UNCHANGED <<tables, issued, api, discovering, sending, bounds>>

\* A sale reaches status F with its invoice in the ERP.
Issue(s) ==
    /\ issued[s].at = 0
    /\ Stamp
    /\ issued' = [issued EXCEPT ![s] = [at |-> now, day |-> day]]
    /\ UNCHANGED <<day, tables, api, discovering, sending, bounds>>

--------------------------------------------------------------------------------
(* The customers: nfe-email-dispatch-api.service.ts, customer.repository.ts *)

\* INSERT ... ON DUPLICATE KEY UPDATE id = LAST_INSERT_ID(id): a customer who is
\* there keeps its row, with the datetime of its first registration.  The row is read
\* again for the answer, and a deletion in between makes the answer an error.
Register(c) ==
    /\ customer[c].id = 0
    /\ Stamp
    /\ lastId < MaxIds
    /\ lastId' = lastId + 1
    /\ customer' = [customer EXCEPT ![c] = [id |-> lastId + 1, created |-> now]]
    /\ UNCHANGED <<day, rows, issued, api, discovering, sending, bounds>>

\* The row a deletion is to remove, found by its id or by the customer.
LookUp(r, c) ==
    /\ api[r] = NoRequest
    /\ customer[c].id # 0
    /\ api' = [api EXCEPT ![r] = [c |-> c, id |-> customer[c].id]]
    /\ UNCHANGED <<time, tables, issued, discovering, sending, bounds>>

\* WHERE id = ?
WithId(r) == {c \in Customers : customer[c].id = api[r].id}

\* ON DELETE CASCADE takes the sales of the customer along, whatever they are at.
Delete(r) ==
    /\ api[r] # NoRequest
    /\ LET gone == WithId(r)
       IN  /\ customer' = [c \in Customers |-> IF c \in gone THEN NoCustomer ELSE customer[c]]
           /\ rows' = [s \in Sales |-> IF Buyer[s] \in gone THEN NoRow ELSE rows[s]]
    /\ api' = [api EXCEPT ![r] = NoRequest]
    /\ UNCHANGED <<time, lastId, issued, discovering, sending, bounds>>

--------------------------------------------------------------------------------
(* Discovery *)

DiscoveryRuns == discovery.pc \in {"load", "run"}

\* By the schedule (overlap SKIP) or by hand.
StartDiscovery ==
    /\ ~DiscoveryRuns
    /\ runs < MaxRuns
    /\ runs' = runs + 1
    /\ discovery' = [discovery EXCEPT !.pc = "load", !.day = day,
                         !.results = [c \in Customers |-> "none"]]
    /\ due' = NothingDue
    /\ UNCHANGED <<time, tables, issued, api, child, usedIds, sending, faults>>

\* data_recebimento >= calculateEffectiveStart(...): the later of the registration and
\* the start of the window.
Candidate(s, created, startDay) ==
    /\ issued[s].at # 0
    /\ issued[s].at >= created
    /\ issued[s].day >= startDay - WindowDays

Registered == {c \in Customers : customer[c].id # 0}

\* Nothing found ends the workflow at once.
LoadCustomers ==
    /\ discovery.pc = "load"
    /\ LET listed == {[c |-> c, id |-> customer[c].id, created |-> customer[c].created] :
                          c \in Registered}
       IN  discovery' = [discovery EXCEPT !.queue = listed,
                             !.pc = IF listed = {} THEN "done" ELSE "run"]
    /\ due' = [c \in Customers |->
                  [id |-> customer[c].id,
                   sales |-> {s \in Sales : /\ Buyer[s] = c
                                            /\ Candidate(s, customer[c].created, day)}]]
    /\ UNCHANGED <<time, tables, issued, api, child, usedIds, sending, bounds>>

\* The last attempt of the activity failed, and with it the workflow.
LoadCustomersFails ==
    /\ discovery.pc = "load"
    /\ Fault
    /\ discovery' = [discovery EXCEPT !.pc = "idle"]
    /\ UNCHANGED <<time, tables, issued, api, child, usedIds, due, sending, runs>>

\* Mutants: one child less than allowed, one more.
RoomForLess(active) == Cardinality(active) + 1 < MaxConcurrentChildren
RoomForMore(active) == Cardinality(active) <= MaxConcurrentChildren

RoomFor(active) == Cardinality(active) < MaxConcurrentChildren

\* customer-<id>/<date of discoveryStartedAt>
ChildId(id) == <<id, discovery.day>>

\* Mutant: a child that completed before may be taken for its success.
RefusedIsDone == "SUCCESS"

\* buildFailedCustomerDiscoveryResult
Refused == "FAILED"

Result(c, r) == [discovery EXCEPT !.results[c] = r]

\* Customers are taken ORDER BY id ASC.  With ALLOW_DUPLICATE_FAILED_ONLY an id that
\* completed is refused, and every child completes, the failed ones too.
StartFetch ==
    /\ discovery.pc = "run"
    /\ RoomFor(Fetching)
    /\ \E next \in discovery.queue :
          /\ \A other \in discovery.queue : next.id <= other.id
          /\ LET rest == [discovery EXCEPT !.queue = @ \ {next}]
             IN  \/ /\ AllowRerun \/ ChildId(next.id) \notin usedIds
                    /\ child' = [child EXCEPT ![next.c] =
                                    [pc |-> "fetch", id |-> next.id, created |-> next.created,
                                     found |-> {}]]
                    /\ discovery' = rest
                    /\ UNCHANGED faults
                 \/ /\ ~AllowRerun /\ ChildId(next.id) \in usedIds
                    /\ discovery' = [rest EXCEPT !.results[next.c] = Refused]
                    /\ UNCHANGED <<child, faults>>
                 \/ /\ Fault
                    /\ discovery' = [rest EXCEPT !.results[next.c] = "FAILED"]
                    /\ UNCHANGED child
    /\ UNCHANGED <<time, tables, issued, api, usedIds, due, sending, runs>>

EndChild(c, r) ==
    /\ discovery' = Result(c, r)
    /\ usedIds' = usedIds \cup {ChildId(child[c].id)}
    /\ child' = [child EXCEPT ![c] = NoFetch]

Fetch(c) ==
    /\ child[c].pc = "fetch"
    /\ LET found == {s \in Sales : Buyer[s] = c /\ Candidate(s, child[c].created, discovery.day)}
       IN  IF found = {}
           THEN EndChild(c, "SUCCESS")
           ELSE /\ child' = [child EXCEPT ![c].pc = "enqueue", ![c].found = found]
                /\ UNCHANGED <<discovery, usedIds>>
    /\ UNCHANGED <<time, tables, issued, api, due, sending, bounds>>

FetchFails(c) ==
    /\ child[c].pc = "fetch"
    /\ Fault
    /\ EndChild(c, "FAILED")
    /\ UNCHANGED <<time, tables, issued, api, due, sending, runs>>

\* Mutant: sales refer to the customer by its number in the ERP.
ReferenceByErpId(c) == customer[c].id # 0

\* FOREIGN KEY (nfe_email_dispatch_customer_id), with the id the parent loaded.
ReferenceHolds(c) == customer[c].id = child[c].id

\* INSERT ... ON DUPLICATE KEY UPDATE id = id: all of them, or none.
Queued(found) ==
    [s \in Sales |-> IF s \in found /\ rows[s] = NoRow
                     THEN [NoRow EXCEPT !.status = "PENDING"] ELSE rows[s]]

\* Queueing what is queued already changes nothing, so a retry after a lost answer is
\* no other step.
Enqueue(c) ==
    /\ child[c].pc = "enqueue"
    /\ IF ReferenceHolds(c)
       THEN rows' = Queued(child[c].found) /\ EndChild(c, "SUCCESS")
       ELSE UNCHANGED rows /\ EndChild(c, "FAILED")
    /\ UNCHANGED <<time, customer, lastId, issued, api, due, sending, bounds>>

\* Every attempt failed or lost its answer.
EnqueueFails(c) ==
    /\ child[c].pc = "enqueue"
    /\ Fault
    /\ \/ UNCHANGED rows
       \/ ReferenceHolds(c) /\ rows' = Queued(child[c].found)
    /\ EndChild(c, "FAILED")
    /\ UNCHANGED <<time, customer, lastId, issued, api, due, sending, runs>>

EndDiscovery ==
    /\ discovery.pc = "run"
    /\ discovery.queue = {} /\ Fetching = {}
    /\ discovery' = [discovery EXCEPT !.pc = "done"]
    /\ UNCHANGED <<time, tables, issued, api, child, usedIds, due, sending, bounds>>

--------------------------------------------------------------------------------
(* Processing *)

StartProcessing ==
    /\ processing.pc = "idle"
    /\ runs < MaxRuns
    /\ runs' = runs + 1
    /\ processing' = [processing EXCEPT !.pc = "check"]
    /\ UNCHANGED <<time, tables, issued, api, discovering, work, mails, reported, faults>>

\* describe() of the configured workflow id finds a discovery that runs under that id; one
\* that Temporal started under an id of its own it does not, and a discovery may start
\* right after the check.
CheckDiscovery ==
    /\ processing.pc = "check"
    /\ \E pc \in {"load"} \cup (IF DiscoveryRuns THEN {"idle"} ELSE {}) :
          processing' = [processing EXCEPT !.pc = pc]
    /\ UNCHANGED <<time, tables, issued, api, discovering, work, mails, reported, bounds>>

Eligible(s) ==
    \/ rows[s].status = "PENDING"
    \/ rows[s].status = "FAILED_TRANSIENT" /\ rows[s].count < MaxSendAttempts

LoadEligible ==
    /\ processing.pc = "load"
    /\ LET listed == {s \in Sales : Eligible(s)}
       IN  processing' = [processing EXCEPT !.queue = listed,
                              !.pc = IF listed = {} THEN "idle" ELSE "run"]
    /\ UNCHANGED <<time, tables, issued, api, discovering, work, mails, reported, bounds>>

\* The last attempt of the check or of the load failed.
ProcessingFails ==
    /\ processing.pc \in {"check", "load"}
    /\ Fault
    /\ processing' = [processing EXCEPT !.pc = "idle"]
    /\ UNCHANGED <<time, tables, issued, api, discovering, work, mails, reported, runs>>

\* The order of the rows in the table (created_at, id) is left open.  A start that is
\* refused or fails is counted; which ids are free is a matter of
\* NfeSaleDispatch.
StartWork ==
    /\ processing.pc = "run"
    /\ RoomFor(Working)
    /\ \E s \in processing.queue :
          /\ processing' = [processing EXCEPT !.queue = @ \ {s}]
          /\ \/ /\ work' = [work EXCEPT ![s].pc = "claim"]
                /\ UNCHANGED <<reported, faults>>
             \/ /\ Fault
                /\ reported' = reported \cup {s}
                /\ UNCHANGED work
    /\ UNCHANGED <<time, tables, issued, api, discovering, mails, runs>>

\* A sale that is gone or taken is SKIPPED.
Claim(s) ==
    /\ work[s].pc = "claim"
    /\ IF Eligible(s)
       THEN /\ rows' = [rows EXCEPT ![s] = [status |-> "IN_PROGRESS", count |-> @.count + 1]]
            /\ work' = [work EXCEPT ![s] = [@ EXCEPT !.pc = "mail", !.id = customer[Buyer[s]].id]]
       ELSE work' = [work EXCEPT ![s] = NoWork] /\ UNCHANGED rows
    /\ UNCHANGED <<time, customer, lastId, issued, api, discovering, processing, mails, reported,
                   bounds>>

\* The e-mail leaves, or a stage before it fails for now or for good.
Mail(s) ==
    /\ work[s].pc = "mail"
    /\ \/ /\ mails' = [mails EXCEPT ![s] = @ + 1]
          /\ work' = [work EXCEPT ![s].pc = "finalize", ![s].target = "SENT"]
          /\ UNCHANGED faults
       \/ /\ Fault
          /\ \E t \in {"FAILED_TRANSIENT", "FAILED_FINAL"} :
                work' = [work EXCEPT ![s].pc = "finalize", ![s].target = t]
          /\ UNCHANGED mails
    /\ UNCHANGED <<time, tables, issued, api, discovering, processing, reported, runs>>

Mine(s) == rows[s].status = "IN_PROGRESS" /\ customer[Buyer[s]].id = work[s].id

\* Mutant: what happens to the verdict is not looked at.
FailuresSwallowed(s) == {}

\* A child that could not store its verdict fails, and the parent counts it.
Failures(s) == {s}

\* The UPDATE matches the row of the attempt, or, after a deletion, nothing.
Finalize(s) ==
    /\ work[s].pc = "finalize"
    /\ \/ /\ Mine(s)
          /\ rows' = [rows EXCEPT ![s].status = work[s].target]
          /\ UNCHANGED <<reported, faults>>
       \/ /\ IF Mine(s) THEN Fault ELSE UNCHANGED faults
          /\ reported' = reported \cup Failures(s)
          /\ UNCHANGED rows
    /\ work' = [work EXCEPT ![s] = NoWork]
    /\ UNCHANGED <<time, customer, lastId, issued, api, discovering, processing, mails, runs>>

EndProcessing ==
    /\ processing.pc = "run"
    /\ processing.queue = {} /\ Working = {}
    /\ processing' = [processing EXCEPT !.pc = "idle"]
    /\ UNCHANGED <<time, tables, issued, api, discovering, work, mails, reported, bounds>>

--------------------------------------------------------------------------------
DiscoveryStep ==
    \/ LoadCustomers \/ LoadCustomersFails \/ StartFetch \/ EndDiscovery
    \/ \E c \in Customers : Fetch(c) \/ FetchFails(c) \/ Enqueue(c) \/ EnqueueFails(c)

ProcessingStep ==
    \/ CheckDiscovery \/ LoadEligible \/ ProcessingFails \/ StartWork \/ EndProcessing
    \/ \E s \in Sales : Claim(s) \/ Mail(s) \/ Finalize(s)

ClientStep ==
    \/ \E c \in Customers : Register(c)
    \/ \E r \in Clients : Delete(r) \/ \E c \in Customers : LookUp(r, c)

PipelineNext ==
    \/ NextDay
    \/ \E s \in Sales : Issue(s)
    \/ ClientStep
    \/ StartDiscovery
    \/ DiscoveryStep
    \/ StartProcessing
    \/ ProcessingStep

PipelineSpec == PipelineInit /\ [][PipelineNext]_vars

--------------------------------------------------------------------------------
(* Properties *)

\* A customer the discovery counts as successful has every sale in the queue that was to
\* be found when the customers were loaded, unless the registration is not the same any
\* more: a child that was refused, failed or met another registration is never counted.
SuccessIsComplete ==
    discovery.pc = "done" =>
        \A c \in Customers :
            (/\ discovery.results[c] = "SUCCESS"
             /\ customer[c].id = due[c].id)
            => \A s \in due[c].sales : rows[s] # NoRow

\* No sale is mailed twice by the schedule, though the deletion of its customer takes its
\* row along, the customer may be registered anew, and children that still know the
\* earlier registration may be running.
NotMailedAgain == \A s \in Sales : mails[s] <= 1

\* A sale that is left IN_PROGRESS, which no later run will list, is one that a parent
\* counted among its failedSaleIds.
StrandedIsReported ==
    \A s \in Sales : rows[s].status = "IN_PROGRESS" /\ work[s].pc = "off" => s \in reported

\* A parent that runs can always go on: the race for the next child that settles is
\* never run with no child in it, and nobody waits for room that is not there.
ParentsNeverStall ==
    /\ DiscoveryRuns => ENABLED DiscoveryStep
    /\ processing.pc # "idle" => ENABLED ProcessingStep

\* The same in terms of the guards of the steps, which can be proved: the customers or the
\* customer's sales are to be loaded, a child runs, there is one to start and room for it,
\* or everything is done.
ParentsCanGoOn ==
    /\ DiscoveryRuns =>
          \/ discovery.pc = "load"
          \/ Fetching # {}
          \/ /\ RoomFor(Fetching)
             /\ \E next \in discovery.queue : \A other \in discovery.queue : next.id <= other.id
          \/ discovery.queue = {}
    /\ processing.pc # "idle" =>
          \/ processing.pc \in {"check", "load"}
          \/ Working # {}
          \/ RoomFor(Working) /\ processing.queue # {}
          \/ processing.queue = {}

--------------------------------------------------------------------------------
(* The strengthening that makes the safety properties inductive *)

\* The registration under which the sale was to be found.  A registration that comes after
\* the invoice never covers it again.
Covered(s) ==
    /\ customer[Buyer[s]].id # 0
    /\ issued[s].at # 0
    /\ customer[Buyer[s]].created <= issued[s].at

Untried == {"absent", "PENDING", "FAILED_TRANSIENT"}

SaleOk(s) ==
    /\ issued[s].at < now
    /\ rows[s].status = "absent" => rows[s] = NoRow
    /\ rows[s].status = "PENDING" => rows[s].count = 0
    /\ rows[s] # NoRow => Covered(s)
    /\ issued[s].at = 0 => mails[s] = 0 /\ work[s].pc \in {"off", "claim"}
    /\ Covered(s) /\ rows[s].status \in Untried =>
          mails[s] = 0 /\ work[s].pc \in {"off", "claim"}
    /\ work[s].pc = "mail" => mails[s] = 0
    /\ work[s].pc = "finalize" =>
          work[s].target \in Statuses /\ (work[s].target # "SENT" => mails[s] = 0)
    /\ rows[s].status = "IN_PROGRESS" =>
          \/ s \in reported
          \/ work[s].pc \in {"mail", "finalize"} /\ work[s].id = customer[Buyer[s]].id
    /\ mails[s] <= 1

ProcessingOk ==
    /\ processing.pc # "run" => processing.queue = {} /\ Working = {}
    /\ \A s \in processing.queue : work[s].pc = "off"

\* What a parent loaded of a customer, or its child was given, is the registration that
\* was there, and it finds everything that was to be found.
Loaded(c, id, created) ==
    /\ id \in 1..lastId /\ due[c].id = id
    /\ customer[c].id = id => customer[c].created = created
    /\ \A s \in due[c].sales : Buyer[s] = c /\ Candidate(s, created, discovery.day)

FetchOk(c) ==
    /\ child[c].pc # "off" => Loaded(c, child[c].id, child[c].created)
    /\ child[c].pc = "enqueue" =>
          /\ due[c].sales \subseteq child[c].found
          /\ \A s \in child[c].found :
                Buyer[s] = c /\ issued[s].at # 0 /\ issued[s].at >= child[c].created
    /\ discovery.results[c] = "SUCCESS" =>
          /\ due[c].id \in 1..lastId
          /\ customer[c].id = due[c].id => \A s \in due[c].sales : rows[s] # NoRow
          /\ \A s \in due[c].sales : Buyer[s] = c

DiscoveryOk ==
    /\ discovery.pc # "run" => discovery.queue = {} /\ Fetching = {}
    /\ discovery.pc = "load" => \A c \in Customers : discovery.results[c] = "none"
    /\ \A q \in discovery.queue : Loaded(q.c, q.id, q.created)
    /\ \A c \in Customers : FetchOk(c)

PipelineInv ==
    /\ PipelineTypeOK
    /\ \A s \in Sales : SaleOk(s)
    /\ ProcessingOk
    /\ DiscoveryOk
================================================================================
