-------------------------------- MODULE Triggers --------------------------------
(***************************************************************************)
(* The scheduled triggers: equipmentRetrievalVerificationWorkflow with its *)
(* recovery workflow, and csatStartSurveyWorkflow, which has the same shape *)
(* without a recovery.  A trigger lists the eligible items of the ERP,      *)
(* starts one child workflow per item and abandons it.  A child of the      *)
(* equipment retrieval creates one service order in IXC under an            *)
(* idempotency key made of the request id of the run that started it; what  *)
(* a CSAT child does is the subject of CsatSurveyItem.                      *)
(***************************************************************************)
EXTENDS Integers

CONSTANTS
    Triggers,     \* scheduled executions of the trigger
    Items,        \* idReceber, or idOs
    MaxTries,     \* maximumAttempts of the order activity
    MaxFaults     \* bound on failed starts, calls, answers and activities

ASSUME BoundsAssumption == MaxTries \in Nat \ {0} /\ MaxFaults \in Nat

VARIABLES
    kind,         \* which of the two automations this is
    pc, round,    \* where every run is, and its round of fetching
    error,        \* errorKind of the last failed round
    outcome,      \* how the run ended
    todo,         \* items the run listed and has not tried to start yet
    context,      \* triggers that remember a recovery (TriggerRecoveryContext)
    refused,      \* triggers whose recovery could not be started
    asked,        \* triggers that asked to cancel their recovery, and ...
    unasked,      \* ... those whose request failed
    registered,   \* runs whose failure was registered, and ...
    unregistered, \* ... those whose registration failed
    child,        \* the last execution under every item's workflow id
    orders,       \* service orders that exist for the item
    doubts,       \* orders whose creation the child was never told of
    faults

runVars == <<pc, round, error, outcome, todo>>
recoveryVars == <<context, refused, asked, unasked>>
reportVars == <<registered, unregistered>>
itemVars == <<child, orders, doubts>>
vars == <<kind, runVars, recoveryVars, reportVars, itemVars, faults>>

--------------------------------------------------------------------------------
(* State *)

Runs == Triggers \X {"main", "recovery"}
Main(t) == <<t, "main">>
Recovery(t) == <<t, "recovery">>
IsMain(r) == r[2] = "main"

\* What the order activity answers, other than by throwing.
Failures == {"html", "response-error", "permanent"}
Results == {"success"} \cup Failures

Children ==
    [state : {"none", "running", "completed", "failed"},
     tries : 0..MaxTries, step : {"ready", "reserved", "answered"},
     row : {"absent", "pending"} \cup Results, leased : BOOLEAN,
     result : {"none"} \cup Results]

NoChild == [state |-> "none", tries |-> 0, step |-> "ready",
            row |-> "absent", leased |-> FALSE, result |-> "none"]

RunsTyped ==
    /\ pc \in [Runs -> {"idle", "delay", "fetch", "ensure", "sleep", "fan", "cancel",
                        "register", "ended"}]
    /\ round \in [Runs -> 1..2]
    /\ error \in [Runs -> {"none", "transient", "permanent"}]
    /\ outcome \in [Runs -> {"none", "no-eligible-items", "child-workflows-started",
                             "failed", "cancelled"}]
    /\ todo \in [Runs -> SUBSET Items]
    /\ context \subseteq Triggers /\ refused \subseteq Triggers
    /\ asked \subseteq Triggers /\ unasked \subseteq Triggers
    /\ registered \subseteq Runs /\ unregistered \subseteq Runs
    /\ faults \in 0..MaxFaults

ItemsTyped ==
    /\ kind \in {"cobrancas", "csat"}
    /\ child \in [Items -> Children]
    /\ orders \in [Items -> Nat] /\ doubts \in [Items -> Nat]

TriggersTypeOK == RunsTyped /\ ItemsTyped

Init ==
    /\ kind \in {"cobrancas", "csat"}
    /\ pc = [r \in Runs |-> "idle"]
    /\ round = [r \in Runs |-> IF IsMain(r) THEN 1 ELSE 2]
    /\ error = [r \in Runs |-> "none"]
    /\ outcome = [r \in Runs |-> "none"]
    /\ todo = [r \in Runs |-> {}]
    /\ context = {} /\ refused = {} /\ asked = {} /\ unasked = {}
    /\ registered = {} /\ unregistered = {}
    /\ child = [i \in Items |-> NoChild]
    /\ orders = [i \in Items |-> 0]
    /\ doubts = [i \in Items |-> 0]
    /\ faults = 0

Fault == faults < MaxFaults /\ faults' = faults + 1

Go(r, to) == pc' = [pc EXCEPT ![r] = to]

Ends(r, how) ==
    /\ Go(r, "ended")
    /\ outcome' = [outcome EXCEPT ![r] = how]

\* A run that ended well; a trigger that remembers a recovery has it to cancel.
Succeeds(r, how) ==
    /\ Go(r, IF IsMain(r) /\ r[1] \in context THEN "cancel" ELSE "ended")
    /\ outcome' = [outcome EXCEPT ![r] = how]

Cancelled(r) == ~IsMain(r) /\ r[1] \in asked

--------------------------------------------------------------------------------
(* The trigger's rounds *)

\* The schedule fires; its overlap policy is SKIP, so one trigger runs at a time.
\* Recoveries run beside them.
Fire(t) ==
    /\ pc[Main(t)] = "idle"
    /\ \A u \in Triggers : pc[Main(u)] \in {"idle", "ended"}
    /\ Go(Main(t), "fetch")
    /\ UNCHANGED <<kind, round, error, outcome, todo, recoveryVars, reportVars, itemVars, faults>>

\* equipmentRetrievalVerificationRecoveryWorkflow: TRIGGER_RECOVERY_DELAY is over.
Awake(r) ==
    /\ pc[r] = "delay"
    /\ Go(r, "fetch")
    /\ UNCHANGED <<kind, round, error, outcome, todo, recoveryVars, reportVars, itemVars, faults>>

\* The ERP lists an item while it has no order of the automation's subject.  Records
\* that miss a city, a contract or a branch are set apart; they are only logged.
Unordered == {i \in Items : orders[i] = 0}

CobrancasRecords ==
    {records \in [valid : SUBSET Unordered, incomplete : SUBSET Unordered] :
        records.valid \cap records.incomplete = {}}

\* The CSAT query lists what the ERP says, every record complete.
CsatRecords == [valid : SUBSET Items, incomplete : {{}}]

\* The list is fetched; an empty one ends the trigger, and the recovery it remembers.
Fetch(r) ==
    /\ pc[r] = "fetch"
    /\ \E records \in IF kind = "csat" THEN CsatRecords ELSE CobrancasRecords :
          \/ /\ records.valid \cup records.incomplete # {}
             /\ Go(r, "fan")
             /\ todo' = [todo EXCEPT ![r] = records.valid]
             /\ UNCHANGED outcome
          \/ /\ records.valid \cup records.incomplete = {}
             /\ Succeeds(r, "no-eligible-items")
             /\ UNCHANGED todo
    /\ UNCHANGED <<kind, round, error, recoveryVars, reportVars, itemVars, faults>>

\* What a failed fetch counts as: permanent when the ERP refused the query or returned
\* an unreadable row, transient when the retries of the activity are spent.
ErrorKinds == {"transient", "permanent"}

\* A failure of the last round, or one that time does not mend.
Terminal(r, errorKind) == errorKind = "permanent" \/ round[r] = 2

\* Mutant: no trigger schedules a recovery.
RetryOnly(r, errorKind) == IF Terminal(r, errorKind) THEN "register" ELSE "sleep"

AfterFailure(r, errorKind) ==
    IF Terminal(r, errorKind) THEN "register"
    ELSE IF kind = "cobrancas" THEN "ensure" ELSE "sleep"

FetchFails(r) ==
    /\ pc[r] = "fetch"
    /\ Fault
    /\ \E errorKind \in ErrorKinds :
          /\ error' = [error EXCEPT ![r] = errorKind]
          /\ Go(r, AfterFailure(r, errorKind))
    /\ UNCHANGED <<kind, round, outcome, todo, recoveryVars, reportVars, itemVars>>

\* TRIGGER_RETRY_DELAY is over: the second round.
RetryFetch(r) ==
    /\ pc[r] = "sleep"
    /\ round' = [round EXCEPT ![r] = 2]
    /\ Go(r, "fetch")
    /\ UNCHANGED <<kind, error, outcome, todo, recoveryVars, reportVars, itemVars, faults>>

\* Mutant: only permanent failures are registered.
RegisterPermanent(r) ==
    registered' = IF error[r] = "permanent" THEN registered \cup {r} ELSE registered

Register(r) == registered' = registered \cup {r}

\* failTriggerTerminally: the failure is registered, then thrown.  When the
\* registration fails, that is what is thrown.
RegisterFailure(r) ==
    /\ pc[r] = "register"
    /\ \/ Register(r) /\ UNCHANGED <<unregistered, faults>>
       \/ Fault /\ unregistered' = unregistered \cup {r} /\ UNCHANGED registered
    /\ Ends(r, "failed")
    /\ UNCHANGED <<kind, round, error, todo, recoveryVars, itemVars>>

--------------------------------------------------------------------------------
(* The recovery of an equipment retrieval trigger *)

\* Mutant: the trigger does not remember the recovery it started.
RememberNothing(t) == UNCHANGED context

Remember(t) == context' = context \cup {t}

\* ensureRecoveryWorkflowStarted: an abandoned child that waits two hours.  A start
\* that fails is logged and the round goes on without a recovery.  Request ids of
\* scheduled runs are unique, so the id is never taken.
EnsureRecovery(r) ==
    /\ pc[r] = "ensure"
    /\ \/ /\ pc' = [pc EXCEPT ![r] = "sleep", ![Recovery(r[1])] = "delay"]
          /\ Remember(r[1])
          /\ UNCHANGED <<refused, faults>>
       \/ /\ Fault
          /\ refused' = refused \cup {r[1]}
          /\ Go(r, "sleep")
          /\ UNCHANGED context
    /\ UNCHANGED <<kind, round, error, outcome, todo, asked, unasked, reportVars, itemVars>>

\* cancelPendingRecoveryWorkflow: after the trigger succeeded.  The request may find
\* the recovery closed, or fail: that is only logged.
CancelRecovery(r) ==
    /\ pc[r] = "cancel"
    /\ \/ /\ pc[Recovery(r[1])] # "ended"
          /\ asked' = asked \cup {r[1]}
          /\ UNCHANGED <<unasked, faults>>
       \/ /\ pc[Recovery(r[1])] = "ended"
          /\ UNCHANGED <<asked, unasked, faults>>
       \/ Fault /\ unasked' = unasked \cup {r[1]} /\ UNCHANGED asked
    /\ Go(r, "ended")
    /\ UNCHANGED <<kind, round, error, outcome, todo, context, refused, reportVars, itemVars>>

\* The cancellation reaches the recovery: asleep or fetching it ends cancelled (a
\* cancelled fetch counts as a transient failure of the last round, and registering
\* it is cancelled too); in its fan-out every remaining start fails.
HeedCancellation(r) ==
    /\ Cancelled(r)
    /\ \/ /\ pc[r] \in {"delay", "fetch", "register"}
          /\ Ends(r, "cancelled")
          /\ UNCHANGED todo
       \/ /\ pc[r] = "fan"
          /\ todo[r] # {}
          /\ todo' = [todo EXCEPT ![r] = {}]
          /\ UNCHANGED <<pc, outcome>>
    /\ UNCHANGED <<kind, round, error, recoveryVars, reportVars, itemVars, faults>>

--------------------------------------------------------------------------------
(* Fan-out *)

\* Mutant: a closed child's workflow id can always be used again.
AnyClosed(i) == child[i].state # "running"

\* ALLOW_DUPLICATE_FAILED_ONLY, for the child's deterministic id.
Startable(i) == child[i].state \in {"none", "failed"}

\* startEligibleItemWorkflows, for one of the items left: "Workflow execution already
\* started" is what a running child and a completed one answer alike; that, and any
\* other failure to start, only counts in the run's result.
StartChild(r) ==
    /\ pc[r] = "fan"
    /\ \E i \in todo[r] :
          /\ todo' = [todo EXCEPT ![r] = @ \ {i}]
          /\ \/ /\ Startable(i)
                /\ child' = [child EXCEPT ![i] = [NoChild EXCEPT !.state = "running"]]
                /\ UNCHANGED faults
             \/ ~Startable(i) /\ UNCHANGED <<child, faults>>
             \/ Startable(i) /\ Fault /\ UNCHANGED child
    /\ UNCHANGED <<kind, pc, round, error, outcome, recoveryVars, reportVars, orders, doubts>>

\* The fan-out is over, also when it had nothing but incomplete records.
FinishFan(r) ==
    /\ pc[r] = "fan"
    /\ todo[r] = {}
    /\ Succeeds(r, "child-workflows-started")
    /\ UNCHANGED <<kind, round, error, todo, recoveryVars, reportVars, itemVars, faults>>

--------------------------------------------------------------------------------
(* equipmentRetrievalVerificationProcessItemWorkflow and its order activity *)

Ordering(i, step) ==
    kind = "cobrancas" /\ child[i].state = "running" /\ child[i].step = step

\* Mutant: a child whose order failed for now completes as well.
CompletedAnyway(result) == "completed"

\* A permanent failure completes the child; html and response errors fail it.
Close(result) == IF result \in {"success", "permanent"} THEN "completed" ELSE "failed"

\* Mutant: a result that fails the child is asked for again.
AskedAgain(ch, result) ==
    IF Close(result) = "failed" THEN [ch EXCEPT !.step = "ready"]
    ELSE [ch EXCEPT !.state = "completed", !.result = result]

Concluded(ch, result) == [ch EXCEPT !.state = Close(result), !.result = result]

\* The attempt threw: another one in thirty seconds, until they are spent.
Retried(ch) ==
    IF ch.tries + 1 = MaxTries
    THEN [ch EXCEPT !.state = "failed", !.tries = MaxTries, !.step = "ready"]
    ELSE [ch EXCEPT !.tries = @ + 1, !.step = "ready"]

\* The reservation, as StepIdempotency describes it, of a key no other child has.
Reserved(ch) ==
    CASE ch.row = "absent" \/ (ch.row = "pending" /\ ~ch.leased) ->
            [ch EXCEPT !.row = "pending", !.leased = TRUE, !.step = "reserved"]
      [] ch.row = "pending" /\ ch.leased -> Retried(ch)
      [] OTHER -> Concluded(ch, ch.row)

Reserve(i) ==
    /\ Ordering(i, "ready")
    /\ child' = [child EXCEPT ![i] = Reserved(@)]
    /\ UNCHANGED <<kind, runVars, recoveryVars, reportVars, orders, doubts, faults>>

\* PENDING_RESERVATION_TTL_SECONDS pass while nobody works under the lease.
LeaseExpires(i) ==
    /\ Ordering(i, "ready")
    /\ child[i].row = "pending" /\ child[i].leased
    /\ child' = [child EXCEPT ![i].leased = FALSE]
    /\ UNCHANGED <<kind, runVars, recoveryVars, reportVars, orders, doubts, faults>>

Count(f, i, b) == [f EXCEPT ![i] = IF b THEN @ + 1 ELSE @]

\* What comes back from IXC: an envelope that says created or error, some other JSON,
\* an html page, a body or content type that is no JSON, a refusal (HTTP 4xx), HTTP 5xx
\* and the like, or nothing in time.
Replies == {"created", "error", "other", "html", "unreadable", "refused", "unavailable", "silence"}

\* callIxcApi: what it throws, and what it returns.
CallIxcApi(reply) ==
    CASE reply \in {"unavailable", "silence"} -> "transient"
      [] reply \in {"refused", "unreadable"} -> "permanent"
      [] reply = "html" -> "html"
      [] OTHER -> "json"

\* parseIxcMutationResponse, of a JSON body.
Envelope(reply) ==
    CASE reply = "created" -> "success"
      [] reply = "error" -> "response-error"
      [] reply = "other" -> "permanent"

OrderAnswer(reply) ==
    IF CallIxcApi(reply) = "json" THEN Envelope(reply) ELSE CallIxcApi(reply)

\* createServiceOrder: whatever IXC answers but success, it may have created the order.
CreateOrder(i) ==
    /\ Ordering(i, "reserved")
    /\ \E reply \in Replies, applied \in BOOLEAN :
          /\ reply = "created" => applied
          /\ IF reply = "created" THEN UNCHANGED faults ELSE Fault
          /\ child' = [child EXCEPT ![i] =
                IF OrderAnswer(reply) = "transient" THEN Retried(@)
                ELSE [@ EXCEPT !.step = "answered", !.result = OrderAnswer(reply)]]
          /\ orders' = Count(orders, i, applied)
          /\ doubts' = Count(doubts, i, applied /\ OrderAnswer(reply) # "success")
    /\ UNCHANGED <<kind, runVars, recoveryVars, reportVars>>

Recorded(ch) == [ch EXCEPT !.row = ch.result, !.leased = FALSE, !.result = "none"]

\* markCompleted or markFailed.  The answer of the attempt may still be lost: the next
\* attempt finds it in the row, the last one has none after it.
RecordOrder(i) ==
    /\ Ordering(i, "answered")
    /\ \/ /\ child' = [child EXCEPT ![i] = Concluded(Recorded(@), @.result)]
          /\ UNCHANGED <<doubts, faults>>
       \/ /\ Fault
          /\ child' = [child EXCEPT ![i] = Retried(Recorded(@))]
          /\ doubts' = Count(doubts, i, child[i].result = "success" /\ child[i].tries + 1 = MaxTries)
    /\ UNCHANGED <<kind, runVars, recoveryVars, reportVars, orders>>

\* The worker dies, or the system database does not answer: the row stays pending.
LoseAttempt(i) ==
    /\ Ordering(i, "reserved") \/ Ordering(i, "answered")
    /\ Fault
    /\ doubts' = Count(doubts, i, child[i].result = "success")
    /\ child' = [child EXCEPT ![i] = Retried([@ EXCEPT !.result = "none"])]
    /\ UNCHANGED <<kind, runVars, recoveryVars, reportVars, orders>>

\* A CSAT child ends, one way or the other.
EndSurvey(i) ==
    /\ kind = "csat" /\ child[i].state = "running"
    /\ \E state \in {"completed", "failed"} : child' = [child EXCEPT ![i].state = state]
    /\ UNCHANGED <<kind, runVars, recoveryVars, reportVars, orders, doubts, faults>>

--------------------------------------------------------------------------------
(* Specification *)

\* The steps both triggers are made of, and those of the equipment retrieval only.
TriggerStep(r) ==
    \/ Fetch(r) \/ FetchFails(r) \/ RetryFetch(r) \/ RegisterFailure(r)
    \/ StartChild(r) \/ FinishFan(r)

RecoveryStep(r) ==
    \/ Awake(r) \/ EnsureRecovery(r) \/ CancelRecovery(r) \/ HeedCancellation(r)

RunStep(r) == TriggerStep(r) \/ RecoveryStep(r)

ItemStep(i) ==
    \/ Reserve(i) \/ LeaseExpires(i) \/ CreateOrder(i) \/ RecordOrder(i) \/ LoseAttempt(i)
    \/ EndSurvey(i)

\* Every scheduled trigger ran and everything it started ended.
Finished ==
    /\ \A t \in Triggers : pc[Main(t)] = "ended" /\ pc[Recovery(t)] \in {"idle", "ended"}
    /\ \A i \in Items : child[i].state # "running"
    /\ UNCHANGED vars

Next ==
    \/ \E t \in Triggers : Fire(t)
    \/ \E r \in Runs : RunStep(r)
    \/ \E i \in Items : ItemStep(i)
    \/ Finished

Spec == Init /\ [][Next]_vars

\* Temporal drives what was started; nothing makes the schedule fire.
Driven == (\E r \in Runs : RunStep(r)) \/ (\E i \in Items : ItemStep(i))

FairSpec == Spec /\ WF_vars(Driven)

--------------------------------------------------------------------------------
(* Properties *)

Succeeded(r) == outcome[r] \in {"no-eligible-items", "child-workflows-started"}

\* A trigger that a transient failure defeated leaves a recovery behind it, unless the
\* recovery could not be started: the two-hour second chance of the cobrancas trigger.
DefeatLeavesRecovery ==
    \A t \in Triggers :
        kind = "cobrancas" /\ outcome[Main(t)] = "failed" /\ error[Main(t)] = "transient" =>
            t \in refused \/ pc[Recovery(t)] # "idle"

\* A recovery is only given up once its trigger succeeded and had its turn at every
\* item it listed; and a trigger that succeeded leaves none sleeping, unless the
\* cancellation could not be requested.
RecoveryIsReplaced ==
    \A t \in Triggers :
        /\ t \in asked => Succeeded(Main(t)) /\ todo[Main(t)] = {}
        /\ Succeeded(Main(t)) /\ pc[Main(t)] = "ended" /\ pc[Recovery(t)] = "delay" =>
              t \in asked \cup unasked

\* A failed run was registered after at most two rounds, unless registering failed; a
\* run that succeeded was not, even when its first round failed.
FailuresAreRegistered ==
    \A r \in Runs :
        /\ outcome[r] = "failed" => r \in registered \cup unregistered
        /\ outcome[r] = "failed" /\ error[r] = "transient" => round[r] = 2
        /\ Succeeded(r) => r \notin registered

\* An item gets a second service order only when its child was never told of the first
\* one: not because a trigger and a recovery (or the next trigger) listed the
\* item before the order existed and start its child after.
OrdersNeedDoubt == \A i \in Items : orders[i] <= 1 + doubts[i]

\* A child that reports its order created has one in IXC, and a child that failed may
\* be started again by a later run: no item is closed by a failure that may pass.
ClosedForAReason ==
    \A i \in Items :
        /\ child[i].state = "completed" /\ child[i].result = "success" => orders[i] >= 1
        /\ child[i].state = "completed" /\ kind = "cobrancas" =>
              child[i].result \in {"success", "permanent"}

\* Whatever fired, everything it started ends: the runs, the recoveries they left
\* behind (asleep, cancelled at any moment, or at work) and the children.
AtRest ==
    /\ \A r \in Runs : pc[r] \in {"idle", "ended"}
    /\ \A i \in Items : child[i].state # "running"

RunsEnd == []<>AtRest

\* The strengthening that makes the invariants inductive.

\* A run keeps nothing to start once its fan-out is over, has an outcome only at its end,
\* and gives up on a transient failure only in its second round.
RunOk(r) ==
    /\ pc[r] # "fan" => todo[r] = {}
    /\ outcome[r] # "none" => pc[r] \in {"cancel", "ended"}
    /\ pc[r] = "cancel" => Succeeded(r)
    /\ (pc[r] = "register" \/ outcome[r] = "failed") /\ error[r] = "transient" => round[r] = 2
    /\ outcome[r] = "failed" => r \in registered \cup unregistered
    /\ r \in registered => outcome[r] = "failed"

\* The trigger is past the failure of its first round.
PastFailure(t) == round[Main(t)] = 2 \/ pc[Main(t)] = "sleep"

\* A recovery exists, and is remembered, from that failure on, and is cancelled last.
RecoveryOk(t) ==
    /\ round[Recovery(t)] = 2 /\ pc[Recovery(t)] \notin {"ensure", "sleep", "cancel"}
    /\ pc[Main(t)] = "ensure" => round[Main(t)] = 1
    /\ pc[Recovery(t)] # "idle" => t \in context /\ PastFailure(t)
    /\ kind = "cobrancas" /\ PastFailure(t) => t \in refused \/ pc[Recovery(t)] # "idle"
    /\ t \in asked => pc[Main(t)] = "ended" /\ Succeeded(Main(t))
    /\ Succeeded(Main(t)) /\ pc[Main(t)] = "ended" /\ pc[Recovery(t)] = "delay" =>
          t \in asked \cup unasked

RunInv ==
    /\ RunsTyped
    /\ \A r \in Runs : RunOk(r)
    /\ \A t \in Triggers : RecoveryOk(t)

\* The order of a child is one it was told of, or will read in its row.
Told(ch) == ch.state # "failed" /\ "success" \in {ch.row, ch.result}

Shaped(ch) ==
    /\ ch.state = "none" => ch = NoChild
    /\ ch.state = "running" =>
          /\ ch.tries < MaxTries
          /\ ch.step \in {"ready", "reserved"} => ch.result = "none"
          /\ ch.step \in {"reserved", "answered"} => ch.row = "pending"
          /\ ch.step = "answered" => ch.result # "none"
    /\ kind = "csat" => ch.row = "absent" /\ ch.result = "none"
    /\ ch.state = "completed" => kind = "csat" \/ ch.result \in {"success", "permanent"}

ItemOk(i) ==
    /\ Shaped(child[i])
    /\ orders[i] = doubts[i] + (IF Told(child[i]) THEN 1 ELSE 0)

ItemInv ==
    /\ ItemsTyped
    /\ \A i \in Items : ItemOk(i)

--------------------------------------------------------------------------------
(* The order's idempotency row keeps the lease *)

Pending(ch) == ch.row = "pending"

Lease(i) == INSTANCE LeasedStep WITH
    Callers   <- 1..MaxTries,
    NoCaller  <- 0,
    Verdicts  <- Results,
    NoVerdict <- "none",
    TTL       <- 1,
    owner     <- IF Pending(child[i]) /\ child[i].step # "ready" THEN child[i].tries + 1 ELSE 0,
    left      <- IF Pending(child[i]) /\ child[i].leased THEN 1 ELSE 0,
    verdict   <- IF child[i].row \in Results THEN child[i].row ELSE "none"

\* Between two starts of an item's child, the attempts of its order - retried, lost or
\* dying under their lease - use the row the way the statements of the repository keep it:
\* one verdict, of the attempt that has the lease, and no other attempt before it ran out.
OrderRowsKeepLease ==
    [][\A i \in Items :
          child'[i] # [NoChild EXCEPT !.state = "running"] =>
              [Lease(i)!Next]_(Lease(i)!vars)]_vars

================================================================================
