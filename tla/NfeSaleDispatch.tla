---------------------------- MODULE NfeSaleDispatch ----------------------------
(***************************************************************************)
(* One sale of nfe_email_dispatch_sale and everybody who tries to e-mail   *)
(* its NF-e: the scheduled parent, which lists the sale and starts the     *)
(* child workflow of its next attempt, and HTTP requests, each of which    *)
(* claims the sale, starts the manual workflow of that attempt and undoes  *)
(* the claim when the start is known to have failed.  Children and manual  *)
(* workflows share the attempt lock and the row; each has its own SMTP     *)
(* idempotency row (the key is scoped by workflow id).                     *)
(*                                                                         *)
(* An activity is one atomic step.  Its retries are inside the step: it    *)
(* ends well, or it throws, and then its statement may have been applied   *)
(* or not.  A lease of 90 seconds may have expired or not whenever another *)
(* execution meets it (StepIdempotency has the clock).                     *)
(***************************************************************************)
EXTENDS Integers, FiniteSets

CONSTANTS
    Child,             \* processSingleNfeEmailDispatchSaleWorkflow
    Requests,          \* requests for manual processing, each with its workflow
    SendLimits,        \* what maxSendAttempts may be configured to
    AllowRerun,        \* allowCompletedChildWorkflowRerun of the runtime policy
    Faulty,            \* what may fail: a subset of FaultKinds
    MaxFaults,         \* bound of the failures
    MaxCount           \* bound of attempt_count

FaultKinds == {"lock", "claim", "load", "smtp", "finalize", "start", "client"}

ASSUME DispatchAssumption ==
    /\ Child \notin Requests
    /\ SendLimits \subseteq Nat \ {0}
    /\ AllowRerun \in BOOLEAN
    /\ Faulty \subseteq FaultKinds
    /\ MaxFaults \in Nat
    /\ MaxCount \in Nat \ {0}

VARIABLES
    sale,      \* the row: status, attempt_count, last_attempt_at
    claims,    \* claims made so far; a claim's number stands for its last_attempt_at
    locks,     \* attempt-lock row of each attempt number
    smtp,      \* idempotency row of the SMTP step of each workflow and attempt
    ids,       \* Temporal's verdict on each workflow id
    parent,    \* the scheduled parent, as far as this sale goes
    act,       \* the child, and each request with the manual workflow it starts
    before,    \* the row as each request loaded it
    faults,    \* failures so far
    mails,     \* history: e-mails accepted by the SMTP server
    verdict    \* history: the status the last finalization stored

vars == <<sale, claims, locks, smtp, ids, parent, act, before, faults, mails, verdict>>
history == <<mails, verdict>>

--------------------------------------------------------------------------------
(* Types *)

MaxSendAttempts == parent.limit

Actors == Requests \cup {Child}
Attempts == 1..MaxCount
Kinds == {"child", "manual"}

Verdicts == {"SENT", "FAILED_TRANSIENT", "FAILED_FINAL", "DELIVERY_UNKNOWN"}
Statuses == Verdicts \cup {"PENDING", "IN_PROGRESS"}

Sales == [status : Statuses, count : Nat, claim : Nat]
NewSale == [status |-> "PENDING", count |-> 0, claim |-> 0]

\* n is the attempt number in the workflow id and in the lock's key, count the
\* attempt_count its claim returned.
PCs == {"off", "loaded", "claimed", "rollback", "load", "lock", "claim", "work",
        "finalize", "refinalize", "recover", "unlock", "skip", "abort", "done"}
Runs == [pc : PCs, n : Nat, count : Nat, claim : Nat, target : Verdicts \cup {"none"},
         leased : BOOLEAN]
NoRun == [pc |-> "off", n |-> 0, count |-> 0, claim |-> 0, target |-> "none",
          leased |-> FALSE]

Kind(a) == IF a = Child THEN "child" ELSE "manual"
Id(a) == <<Kind(a), act[a].n>>
SmtpKey(a) == <<Kind(a), act[a].n, act[a].count>>

DataOK ==
    /\ sale \in Sales
    /\ claims \in Nat
    /\ smtp \in [Kinds \X Attempts \X Attempts ->
                    {"absent", "pending", "completed", "failed"}]
    /\ parent \in [pc : {"idle", "listed", "waiting"}, count : Nat, limit : SendLimits]
    /\ act \in [Actors -> Runs]
    /\ before \in [Requests -> Sales]
    /\ verdict \in Verdicts \cup {"PENDING"}

TypeOK ==
    /\ DataOK
    /\ locks \in [Attempts -> [status : {"absent", "pending", "completed"},
                               by : Actors \cup {"nobody"}]]
    /\ ids \in [Kinds \X Attempts -> {"unknown", "running", "completed", "failed"}]
    /\ faults \in 0..MaxFaults
    /\ mails \in SUBSET [by : Kinds, claim : Nat]

FreeLock == [status |-> "absent", by |-> "nobody"]

Init ==
    /\ sale = NewSale
    /\ claims = 0
    /\ locks = [n \in Attempts |-> FreeLock]
    /\ smtp = [k \in Kinds \X Attempts \X Attempts |-> "absent"]
    /\ ids = [i \in Kinds \X Attempts |-> "unknown"]
    /\ parent \in [pc : {"idle"}, count : {0}, limit : SendLimits]
    /\ act = [a \in Actors |-> NoRun]
    /\ before = [r \in Requests |-> NewSale]
    /\ faults = 0
    /\ mails = {}
    /\ verdict = "PENDING"

Fault(kind) ==
    /\ kind \in Faulty
    /\ faults < MaxFaults
    /\ faults' = faults + 1

--------------------------------------------------------------------------------
(* The row: workflow.repository.ts *)

\* Mutant: the attempts are not bounded.
EligibleUnbounded == sale.status \in {"PENDING", "FAILED_TRANSIENT"}

\* WHERE clause of loadEligible and of the scheduled claim.
Eligible ==
    \/ sale.status = "PENDING"
    \/ (sale.status = "FAILED_TRANSIENT" /\ sale.count < MaxSendAttempts)

\* Mutant: a sale may be claimed by hand though it was sent meanwhile.
ManuallyClaimableWhenSent == sale.status # "IN_PROGRESS"

\* WHERE clause of the manual claim, which has no bound on the attempts.
ManuallyClaimable ==
    sale.status \in {"PENDING", "FAILED_TRANSIENT", "FAILED_FINAL", "DELIVERY_UNKNOWN"}

ClaimRow ==
    /\ sale.count < MaxCount
    /\ sale' = [status |-> "IN_PROGRESS", count |-> sale.count + 1, claim |-> claims + 1]
    /\ claims' = claims + 1

\* Mutant: the WHERE clause without last_attempt_at.
MineWhoeverClaimed(a) == sale.status = "IN_PROGRESS"

\* WHERE clause of finalizeNfeEmailDispatchSale.
Mine(a) == sale.status = "IN_PROGRESS" /\ sale.claim = act[a].claim

\* UPDATE ... SET status = status; matches the row of the attempt, or nothing.
StoreVerdict(a, status) ==
    IF Mine(a)
    THEN sale' = [sale EXCEPT !.status = status] /\ verdict' = status
    ELSE UNCHANGED <<sale, verdict>>

\* Mutant: only the status is restored.
RestoredStatus(r) ==
    IF Mine(r) /\ sale.count = act[r].count
    THEN [sale EXCEPT !.status = before[r].status] ELSE sale

\* rollbackManualNfeEmailDispatchSaleClaim restores what the request loaded.
Restored(r) ==
    IF Mine(r) /\ sale.count = act[r].count THEN before[r] ELSE sale

--------------------------------------------------------------------------------
(* Temporal and the attempt lock *)

\* Mutant: REJECT_DUPLICATE.
StartableOnce(i) == ids[i] = "unknown"

Startable(i) ==
    ids[i] \in {"unknown", "failed"} \cup (IF AllowRerun THEN {"completed"} ELSE {})

Goto(a, pc) == act' = [act EXCEPT ![a].pc = pc]

\* The workflow of a closes; the parent stops waiting for its child.
Close(a, how) ==
    /\ act' = [act EXCEPT ![a] = [NoRun EXCEPT !.pc = IF a = Child THEN "off" ELSE "done"]]
    /\ ids' = [ids EXCEPT ![Id(a)] = how]
    /\ parent' = IF a = Child THEN [parent EXCEPT !.pc = "idle", !.count = 0] ELSE parent

\* A reservation that is there may be refused, or taken over when it expired.
LockGranted(a) ==
    /\ locks[act[a].n].status # "completed"
    /\ locks' = [locks EXCEPT ![act[a].n] = [status |-> "pending", by |-> a]]

LockPending(a) == locks[act[a].n].status = "pending"
LockCompleted(a) == locks[act[a].n].status = "completed"
LockMine(a) == locks[act[a].n] = [status |-> "pending", by |-> a]

--------------------------------------------------------------------------------
(* The parent and its child *)

List ==
    /\ parent.pc = "idle"
    /\ Eligible
    /\ parent' = [parent EXCEPT !.pc = "listed", !.count = sale.count]
    /\ UNCHANGED <<sale, claims, locks, smtp, ids, act, before, faults, history>>

\* startChild, or its rejection because the id ran already.
StartChild ==
    /\ parent.pc = "listed"
    /\ parent.count < MaxCount
    /\ LET id == <<"child", parent.count + 1>> IN
       \/ /\ Startable(id)
          /\ ids' = [ids EXCEPT ![id] = "running"]
          /\ act' = [act EXCEPT ![Child] =
                        [NoRun EXCEPT !.pc = "lock", !.n = parent.count + 1]]
          /\ parent' = [parent EXCEPT !.pc = "waiting"]
       \/ /\ ~Startable(id)
          /\ parent' = [parent EXCEPT !.pc = "idle", !.count = 0]
          /\ UNCHANGED <<ids, act>>
    /\ UNCHANGED <<sale, claims, locks, smtp, before, faults, history>>

\* When the reply of the reservation is lost, the retry, a minute later, meets its own
\* unexpired lease: PENDING.
ChildAcquire ==
    /\ act[Child].pc = "lock"
    /\ \/ /\ LockGranted(Child)
          /\ Goto(Child, "claim")
          /\ UNCHANGED <<ids, parent, faults>>
       \/ /\ LockPending(Child) \/ LockCompleted(Child)         \* SKIPPED
          /\ Close(Child, "completed")
          /\ UNCHANGED <<locks, faults>>
       \/ /\ Fault("lock")
          /\ \/ LockGranted(Child) /\ Close(Child, "completed")
             \/ (LockGranted(Child) \/ UNCHANGED locks) /\ Close(Child, "failed")
    /\ UNCHANGED <<sale, claims, smtp, before, history>>

ChildClaim ==
    /\ act[Child].pc = "claim"
    /\ \/ /\ Eligible
          /\ ClaimRow
          /\ act' = [act EXCEPT ![Child].pc = "work",
                                ![Child].count = sale.count + 1,
                                ![Child].claim = claims + 1,
                                ![Child].leased = TRUE]
          /\ UNCHANGED faults
       \/ /\ ~Eligible
          /\ Goto(Child, "skip")
          /\ UNCHANGED <<sale, claims, faults>>
       \/ /\ Fault("claim")
          /\ (Eligible /\ ClaimRow) \/ UNCHANGED <<sale, claims>>
          /\ Goto(Child, "abort")
    /\ UNCHANGED <<locks, smtp, ids, parent, before, history>>

\* The finally block of an attempt that claimed nothing: cancel the lock, best effort.
ChildCancel ==
    /\ act[Child].pc \in {"skip", "abort"}
    /\ \/ /\ locks' = IF LockMine(Child)
                      THEN [locks EXCEPT ![act[Child].n] = FreeLock] ELSE locks
          /\ UNCHANGED faults
       \/ Fault("lock") /\ UNCHANGED locks
    /\ Close(Child, IF act[Child].pc = "skip" THEN "completed" ELSE "failed")
    /\ UNCHANGED <<sale, claims, smtp, before, history>>

--------------------------------------------------------------------------------
(* An attempt, scheduled or manual *)

Aims(a, target) ==
    act' = [act EXCEPT ![a].pc = "finalize", ![a].target = target]

SmtpRow(a, status) == smtp' = [smtp EXCEPT ![SmtpKey(a)] = status]

\* What each stage before the e-mail may fail of, and the status that follows; trouble
\* that passes is retried by Temporal first.
ErpStage == [noSale |-> "FAILED_FINAL", noRecipient |-> "FAILED_FINAL",
             unreadableRow |-> "FAILED_FINAL", unavailable |-> "FAILED_TRANSIENT"]
IxcStage == [noPdf |-> "FAILED_FINAL", tmpDirRejected |-> "FAILED_FINAL",
             unavailable |-> "FAILED_TRANSIENT"]
RenderStage == [badContext |-> "FAILED_FINAL", noTemplate |-> "FAILED_FINAL",
                unreadableTemplate |-> "FAILED_TRANSIENT"]

WorkFailsBeforeMail(a) ==
    /\ \E stage \in {ErpStage, IxcStage, RenderStage} :
          \E cause \in DOMAIN stage : Aims(a, stage[cause])
    /\ UNCHANGED <<smtp, faults, mails>>

\* Mutant: a pending reservation is taken for a delivery.
AnsweredAsSent(a) ==
    /\ \/ smtp[SmtpKey(a)] \in {"completed", "pending"} /\ Aims(a, "SENT")
       \/ smtp[SmtpKey(a)] = "failed" /\ Aims(a, "FAILED_FINAL")
    /\ UNCHANGED <<smtp, faults, mails>>

\* sendSmtpEmailActivity answers from the row an earlier execution left.
AnsweredByEarlierSend(a) ==
    /\ \/ smtp[SmtpKey(a)] = "completed" /\ Aims(a, "SENT")
       \/ smtp[SmtpKey(a)] = "failed" /\ Aims(a, "FAILED_FINAL")
       \/ smtp[SmtpKey(a)] = "pending" /\ Aims(a, "DELIVERY_UNKNOWN")
    /\ UNCHANGED <<smtp, faults, mails>>

Mailed(a) == mails' = mails \cup {[by |-> Kind(a), claim |-> act[a].claim]}

\* sendSmtpEmailActivity reserves and talks to the server.  Once the server has
\* accepted, a crash, the timeout or a failing markCompleted loses the answer (or
\* records a failure), and the activity is not retried.
TalksToServer(a) ==
    /\ smtp[SmtpKey(a)] \in {"absent", "pending"}
    /\ \/ /\ Mailed(a)
          /\ SmtpRow(a, "completed")
          /\ Aims(a, "SENT")
          /\ UNCHANGED faults
       \/ /\ Fault("smtp")
          /\ Mailed(a)
          /\ \/ SmtpRow(a, "pending") /\ Aims(a, "FAILED_TRANSIENT")
             \/ \E row \in {"pending", "failed"} :
                    SmtpRow(a, row) /\ Aims(a, "FAILED_FINAL")
       \/ /\ SmtpRow(a, "failed")
          /\ Aims(a, "FAILED_FINAL")
          /\ UNCHANGED <<faults, mails>>
       \/ /\ SmtpRow(a, "pending")
          /\ Aims(a, "FAILED_TRANSIENT")
          /\ UNCHANGED <<faults, mails>>

Work(a) ==
    /\ act[a].pc = "work"
    /\ WorkFailsBeforeMail(a) \/ AnsweredByEarlierSend(a) \/ TalksToServer(a)
    /\ UNCHANGED <<sale, claims, locks, ids, parent, before, verdict>>

\* resolveEffectiveFinalStatus: only the scheduled finalization looks at the bound.
Effective(a) ==
    IF a = Child /\ act[a].target = "FAILED_TRANSIENT" /\ act[a].count >= MaxSendAttempts
    THEN "FAILED_FINAL"
    ELSE act[a].target

\* ensureIdempotentFinalization after an UPDATE that matched nothing.
AlreadyStored(a) ==
    /\ sale.status = Effective(a)
    /\ a = Child \/ sale.count = act[a].count

\* What follows a finalization that throws: the child classifies the error and
\* finalizes again, once; the manual workflow recovers with the same target.
FinalizeThrew(a, target) ==
    CASE a # Child -> Goto(a, "recover") /\ UNCHANGED <<ids, parent>>
      [] a = Child /\ act[a].pc = "finalize" ->
            /\ act' = [act EXCEPT ![a].pc = "refinalize", ![a].target = target]
            /\ UNCHANGED <<ids, parent>>
      [] OTHER -> Close(a, "failed")

Finalize(a) ==
    /\ act[a].pc \in {"finalize", "refinalize"}
    /\ \/ /\ Mine(a) \/ AlreadyStored(a)
          /\ StoreVerdict(a, Effective(a))
          /\ Goto(a, "unlock")
          /\ UNCHANGED <<ids, parent, faults>>
       \/ /\ ~Mine(a) /\ ~AlreadyStored(a)                       \* permanent
          /\ FinalizeThrew(a, "FAILED_FINAL")
          /\ UNCHANGED <<sale, verdict, faults>>
       \/ /\ Fault("finalize")                                   \* transient
          /\ StoreVerdict(a, Effective(a)) \/ UNCHANGED <<sale, verdict>>
          /\ FinalizeThrew(a, "FAILED_TRANSIENT")
    /\ UNCHANGED <<claims, locks, smtp, before, mails>>

\* The finally block after a finalization: complete the lock, best effort.
Unlock(a) ==
    /\ act[a].pc = "unlock"
    /\ \/ /\ locks' = IF act[a].leased /\ LockMine(a)
                      THEN [locks EXCEPT ![act[a].n].status = "completed"] ELSE locks
          /\ UNCHANGED faults
       \/ Fault("lock") /\ UNCHANGED locks
    /\ Close(a, "completed")
    /\ UNCHANGED <<sale, claims, smtp, before, history>>

--------------------------------------------------------------------------------
(* The HTTP request: nfe-email-dispatch-single-sale.client.ts *)

Leaves(r) == act' = [act EXCEPT ![r] = [NoRun EXCEPT !.pc = "done"]]

RequestLoad(r) ==
    /\ act[r].pc = "off"
    /\ IF sale.status \in {"SENT", "IN_PROGRESS"}
       THEN Leaves(r) /\ UNCHANGED before
       ELSE /\ Goto(r, "loaded")
            /\ before' = [before EXCEPT ![r] = sale]
    /\ UNCHANGED <<sale, claims, locks, smtp, ids, parent, faults, history>>

RequestClaim(r) ==
    /\ act[r].pc = "loaded"
    /\ \/ /\ ManuallyClaimable
          /\ ClaimRow
          /\ act' = [act EXCEPT ![r].pc = "claimed", ![r].n = sale.count + 1,
                                ![r].count = sale.count + 1, ![r].claim = claims + 1]
          /\ UNCHANGED faults
       \/ /\ ~ManuallyClaimable
          /\ Leaves(r)
          /\ UNCHANGED <<sale, claims, faults>>
       \/ /\ Fault("client")
          /\ (ManuallyClaimable /\ ClaimRow) \/ UNCHANGED <<sale, claims>>
          /\ Leaves(r)
    /\ UNCHANGED <<locks, smtp, ids, parent, before, history>>

WorkflowStarts(r) ==
    /\ Startable(Id(r))
    /\ ids' = [ids EXCEPT ![Id(r)] = "running"]
    /\ Goto(r, "load")

\* client.workflow.start, and describe when it throws: the id is found (this run,
\* or any earlier one), is not found, or cannot be described (503).
RequestStart(r) ==
    /\ act[r].pc = "claimed"
    /\ \/ WorkflowStarts(r) /\ UNCHANGED faults
       \/ ~Startable(Id(r)) /\ Leaves(r) /\ UNCHANGED <<ids, faults>>
       \/ /\ Fault("start")
          /\ UNCHANGED ids
          /\ IF ids[Id(r)] = "unknown" THEN Goto(r, "rollback") ELSE Leaves(r)
       \/ /\ Fault("client")
          /\ WorkflowStarts(r) \/ (Leaves(r) /\ UNCHANGED ids)
    /\ UNCHANGED <<sale, claims, locks, smtp, parent, before, history>>

RequestRollback(r) ==
    /\ act[r].pc = "rollback"
    /\ \/ sale' = Restored(r) /\ UNCHANGED faults
       \/ Fault("client") /\ sale' \in {sale, Restored(r)}
    /\ Leaves(r)
    /\ UNCHANGED <<claims, locks, smtp, ids, parent, before, history>>

--------------------------------------------------------------------------------
(* The manual workflow: process-manual-nfe-email-dispatch-sale.workflow.ts *)

SameAttempt(r) == sale.count = act[r].count /\ sale.claim = act[r].claim

Recovers(r) ==
    /\ act' = [act EXCEPT ![r].pc = "recover", ![r].target = "FAILED_TRANSIENT"]
    /\ UNCHANGED <<ids, parent>>

\* Load, answer for an attempt that ended, validate the input against the row.
ManualLoad(r) ==
    /\ act[r].pc = "load"
    /\ \/ /\ SameAttempt(r)
          /\ sale.status \in Verdicts
          /\ Close(r, "completed")
          /\ UNCHANGED faults
       \/ /\ SameAttempt(r)
          /\ sale.status = "IN_PROGRESS"
          /\ Goto(r, "lock")
          /\ UNCHANGED <<ids, parent, faults>>
       \/ /\ ~SameAttempt(r) \/ sale.status = "PENDING"
          /\ Recovers(r)
          /\ UNCHANGED faults
       \/ Fault("load") /\ Recovers(r)
    /\ UNCHANGED <<sale, claims, locks, smtp, before, history>>

\* PENDING is rethrown without recovery; a completed lock whose row is not in a
\* final status of this attempt is an error, and is recovered.
ManualAcquire(r) ==
    /\ act[r].pc = "lock"
    /\ \/ /\ LockGranted(r)
          /\ act' = [act EXCEPT ![r].pc = "work", ![r].leased = TRUE]
          /\ UNCHANGED <<ids, parent, faults>>
       \/ /\ LockPending(r)
          /\ Close(r, "failed")
          /\ UNCHANGED <<locks, faults>>
       \/ /\ LockCompleted(r)
          /\ IF SameAttempt(r) /\ sale.status \in Verdicts
             THEN Close(r, "completed")
             ELSE Recovers(r)
          /\ UNCHANGED <<locks, faults>>
       \/ /\ Fault("lock")
          /\ \/ LockGranted(r) /\ Close(r, "failed")
             \/ (LockGranted(r) \/ UNCHANGED locks) /\ Recovers(r)
    /\ UNCHANGED <<sale, claims, smtp, before, history>>

\* recoverManualNfeEmailDispatchSaleActivity: the same UPDATE, then the row must be
\* that of this attempt.
Recover(r) ==
    /\ act[r].pc = "recover"
    /\ \/ /\ StoreVerdict(r, act[r].target)
          /\ IF SameAttempt(r)
             THEN Goto(r, "unlock") /\ UNCHANGED <<ids, parent>>
             ELSE Close(r, "failed")
          /\ UNCHANGED faults
       \/ /\ Fault("finalize")
          /\ StoreVerdict(r, act[r].target) \/ UNCHANGED <<sale, verdict>>
          /\ Close(r, "failed")
    /\ UNCHANGED <<claims, locks, smtp, before, mails>>

--------------------------------------------------------------------------------

ChildNext ==
    StartChild \/ ChildAcquire \/ ChildClaim \/ ChildCancel
    \/ Work(Child) \/ Finalize(Child) \/ Unlock(Child)

RequestNext(r) ==
    RequestClaim(r) \/ RequestStart(r) \/ RequestRollback(r)
    \/ ManualLoad(r) \/ ManualAcquire(r) \/ Work(r) \/ Finalize(r) \/ Recover(r)
    \/ Unlock(r)

Next ==
    \/ List \/ ChildNext
    \/ \E r \in Requests : RequestLoad(r) \/ RequestNext(r)

Spec == Init /\ [][Next]_vars

\* The schedule fires again and again, and workflows and requests that run keep
\* running; nobody has to make a request.
FairSpec ==
    /\ Spec
    /\ WF_vars(List)
    /\ WF_vars(ChildNext)
    /\ \A r \in Requests : WF_vars(RequestNext(r))

--------------------------------------------------------------------------------
(* Properties *)

\* At most one execution may hand an e-mail to the SMTP server at any time: the claim,
\* the validation of the manual workflow and the finalization by attempt keep the
\* scheduled child and every manual workflow apart, whatever fails.
SingleSender ==
    \A a, b \in Actors : act[a].pc = "work" /\ act[b].pc = "work" => a = b

\* Once an attempt stored SENT the sale stays SENT: no claim, no late finalization and
\* no rollback to a row loaded before takes it back.
SentStaysSent == verdict = "SENT" => sale.status = "SENT"

\* A sale is SENT only if the SMTP server accepted an e-mail for it: no retry, recovery
\* or stored answer turns a failed attempt into a delivery.
SentWasMailed == sale.status = "SENT" => mails # {}

\* A PENDING sale was never attempted, so the scheduled claim may leave PENDING
\* without comparing attempt_count: rolled back claims included.
PendingMeansUntried == sale.status = "PENDING" => sale.count = 0 /\ sale.claim = 0

\* The automation by itself sends at most maxSendAttempts e-mails for a sale, though
\* manual attempts raise the count its bound is compared with and everything between
\* two claims may fail.  (It needs manual starts that do not fail: a rollback
\* restores the count, and the status, that the request loaded before its claim.)
AutomaticMailsBounded ==
    Cardinality({m \in mails : m.by = "child"}) <= MaxSendAttempts

\* Every e-mail for the sale but the first takes a failure of its own, a lost answer of
\* the server or of a finalization: attempts of the schedule and by hand, reruns, rollbacks,
\* recoveries and stored answers repeat none by themselves.
RepeatedMailsNeedFaults == Cardinality(mails) <= 1 + faults

\* As long as neither lock statements nor workflow starts fail, a sale the schedule
\* may process is eventually taken: no skipped child blocks the id of the next one.
EligibleIsTaken == Eligible ~> ~Eligible

\* What the documents say, and the code does not keep.

\* No automatic e-mail when one may already have been delivered.
MailedOnceWithoutRequests == Cardinality(mails) <= 1

\* IN_PROGRESS means that an attempt took the sale and has not ended.
InProgressIsAttempted ==
    sale.status = "IN_PROGRESS" => \E a \in Actors :
        act[a].claim = sale.claim /\ act[a].pc # "done"

\* What is eligible is processed by a later execution of the schedule: the child of
\* the next attempt can be started.
EligibleIsStartable ==
    Eligible /\ parent.pc # "waiting" => Startable(<<"child", sale.count + 1>>)

\* The strengthening that makes the safety properties inductive.

\* A claim in progress belongs to one actor, and nobody else can change the row: from its
\* claim to its first finalization an actor finds the row as the claim left it.
HoldsAt(a, pc) ==
    \/ pc \in {"claimed", "rollback", "load", "work", "finalize"}
    \/ a # Child /\ pc = "lock"

Holding(a) == HoldsAt(a, act[a].pc)

HoldersOwn ==
    \A a \in Actors : Holding(a) => Mine(a) /\ act[a].n \in Attempts /\ act[a].count \in Attempts

ClaimsDistinct ==
    /\ \A a \in Actors : act[a].claim <= claims
    /\ \A a, b \in Actors : act[a].claim = act[b].claim /\ act[a].claim # 0 => a = b
    /\ act[Child].pc \in {"lock", "claim"} => act[Child].n \in Attempts

\* Whatever may yet become of the row: the rows requests loaded, the targets of attempts
\* and the answers stored for e-mails are as true as the row is.
RowIsTrue(row) ==
    /\ row.claim <= claims
    /\ row.status = "SENT" => mails # {}
    /\ row.status = "PENDING" => row.count = 0 /\ row.claim = 0
    /\ row.status = "IN_PROGRESS" => row.claim # 0

BeforeIsTrue ==
    \A r \in Requests : RowIsTrue(before[r]) /\ before[r].status \notin {"SENT", "IN_PROGRESS"}

TargetsAreTrue ==
    \A a \in Actors :
        /\ act[a].pc \in {"finalize", "refinalize", "recover"} => act[a].target \in Verdicts
        /\ act[a].target = "SENT" => mails # {}

AnswersAreTrue ==
    \A k \in Kinds \X Attempts \X Attempts : smtp[k] = "completed" => mails # {}

IInv ==
    /\ DataOK
    /\ HoldersOwn
    /\ ClaimsDistinct
    /\ RowIsTrue(sale)
    /\ BeforeIsTrue
    /\ TargetsAreTrue
    /\ AnswersAreTrue
    /\ SentStaysSent

\* The strengthening that makes AutomaticMailsBounded inductive where starts do not fail:
\* nothing is rolled back, so the attempts of the row are the claims there were, and a
\* child that may claim is within its bound.
BoundInv ==
    /\ sale.count = claims /\ sale.claim = claims
    /\ \A a \in Actors : act[a].pc # "rollback"
    /\ act[Child].claim <= MaxSendAttempts
    /\ {m \in mails : m.by = "child"} \subseteq [by : {"child"}, claim : 1..MaxSendAttempts]

\* The strengthening of RepeatedMailsNeedFaults: while nobody is about to store SENT, and
\* nobody has, every e-mail is paid for; a failure of another kind pays for none.
Doubts == IF Faulty \cap {"smtp", "finalize"} = {} THEN 0 ELSE faults

Delivered ==
    \/ sale.status = "SENT"
    \/ \E a \in Actors : act[a].pc = "finalize" /\ act[a].target = "SENT"

\* The parent waits for the child that is under way.
ParentWaits == parent.pc = "waiting" \/ act[Child].pc = "off"

MailsInv ==
    /\ ParentWaits
    /\ faults \in Nat
    /\ IsFiniteSet(mails)
    /\ Cardinality(mails) <= Doubts + (IF Delivered THEN 1 ELSE 0)

\* The strengthening that makes EligibleIsStartable inductive where neither lock statements
\* nor starts fail: an attempt number above attempt_count is one the schedule may still take,
\* no child completed under it, and at most the child that is under way locks it.
Untaken(n) == n <= sale.count + 1 /\ (n = sale.count + 1 => Eligible)

ChildStarts ==
    /\ parent.pc = "listed" => Untaken(parent.count + 1)
    /\ act[Child].pc \in {"lock", "claim"} => Untaken(act[Child].n)
    /\ act[Child].pc \notin {"lock", "claim", "abort"} => act[Child].n <= sale.count
    /\ \A r \in Requests : act[r].n <= sale.count

IdsUsed ==
    /\ ids \in [Kinds \X Attempts -> {"unknown", "running", "completed", "failed"}]
    /\ \A n \in Attempts :
          /\ ids[<<"child", n>>] = "completed" => n <= sale.count
          /\ ids[<<"child", n>>] = "running" => act[Child].pc # "off" /\ act[Child].n = n

LocksTaken ==
    /\ locks \in [Attempts -> [status : {"absent", "pending", "completed"},
                               by : Actors \cup {"nobody"}]]
    /\ \A n \in Attempts :
          locks[n].status = "absent" \/ n <= sale.count
          \/ /\ locks[n] = [status |-> "pending", by |-> Child]
             /\ act[Child].n = n /\ act[Child].pc \in {"claim", "abort"}

StartInv == ParentWaits /\ ChildStarts /\ IdsUsed /\ LocksTaken

\* The strengthening that makes InProgressIsAttempted inductive for the schedule alone: the
\* child that claimed is at work, or about to finalize for the first time.
ChildHolds ==
    sale.status = "IN_PROGRESS" =>
        act[Child].pc \in {"work", "finalize"} /\ act[Child].claim = sale.claim

--------------------------------------------------------------------------------
(* The row keeps the ledger of the sale *)

SaleState ==
    CASE sale.status = "IN_PROGRESS" -> "taken"
      [] sale.status = "SENT" -> "sent"
      [] OTHER -> "open"

Ledger == INSTANCE SaleLedger WITH
    state  <- SaleState,
    claim  <- sale.claim,
    claims <- claims,
    mailed <- {m.claim : m \in mails}

\* The row, with the statements of children, requests and manual workflows applied in any
\* order, keeps the ledger: whatever fails, no claim mails twice or under another's claim,
\* a claim is undone only when nothing was mailed under it, and nothing follows SENT.
KeepsLedger == Ledger!Spec

\* The strengthening it needs: no e-mail bears a claim that is still to send one, and the
\* row a rollback would restore is older than the claim it undoes.
Unmailed(a) == \A m \in mails : m.claim # act[a].claim

LedgerInv ==
    /\ \A m \in mails : m.claim \in 1..claims
    /\ \A a \in Actors : Holding(a) /\ act[a].pc # "finalize" => Unmailed(a)
    /\ \A r \in Requests :
          act[r].pc \in {"claimed", "rollback"} => before[r].claim < act[r].claim

================================================================================
